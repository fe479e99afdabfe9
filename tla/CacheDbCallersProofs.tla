------------------------ MODULE CacheDbCallersProofs ------------------------
(***************************************************************************)
(* Proofs about the shared Database object, for any number of threads: its *)
(* types, and that query() reports exactly its own failures while no two   *)
(* queries overlap, hence when one thread has the connection to itself.    *)
(***************************************************************************)
EXTENDS CacheDbCallers, CacheDbProofs

\* The statements that Call starts are statements of the type.
LEMMA CallPrepares ==
  ASSUME NEW t \in Threads, Call(t)
  PROVE  \E s \in Statements : Prepare(t, s)
<1> PICK k \in Keys :
      \/ containsHostPathCache(t, k)
      \/ getCache(t, k)
      \/ \E r \in Resps : /\ r.key = k
                          /\ \/ /\ Len(rows) < MaxRows
                                /\ insertCache(t, k, r.expires, r)
                             \/ updateCache(t, k, r.expires, r)
  BY DEF Call
<1>1. CASE containsHostPathCache(t, k)
  BY <1>1 DEF containsHostPathCache, Statements
<1>2. CASE getCache(t, k)
  BY <1>2 DEF getCache, Statements
<1>3. ASSUME NEW r \in Resps,
             insertCache(t, k, r.expires, r) \/ updateCache(t, k, r.expires, r)
      PROVE  \E s \in Statements : Prepare(t, s)
  <2>1. r.expires \in Expires
    BY DEF Resps
  <2> QED
    BY <1>3, <2>1 DEF insertCache, updateCache, Statements
<1> QED
  BY <1>1, <1>2, <1>3

\* Every step of the callers keeps the types.
LEMMA NextType ==
  ASSUME DbTypeOK, [Next]_dbVars
  PROVE  DbTypeOK'
<1>1. CASE UNCHANGED dbVars
  BY <1>1 DEF dbVars, DbTypeOK
<1>2. ASSUME NEW t \in Threads, Call(t) PROVE DbTypeOK'
  BY <1>2, CallPrepares, PrepareType
<1> QED
  BY <1>1, <1>2, StepType, QueryType DEF Next

\* The state of a fresh connection has its type.
LEMMA InitType == Init => DbTypeOK
  BY DEF Init, DbOpened, DbTypeOK, ErrCodes

\* Whatever order the threads call in, and whatever fails, the state of the
\* Database object keeps its type.
THEOREM TypeCorrect == Spec => []DbTypeOK
  BY InitType, NextType, PTL DEF Spec

----------------------------------------------------------------------------
(* Queries that do not overlap, and one thread alone. *)

\* Every step after which no two queries overlap keeps CodesTell.
LEMMA CodesTellStep ==
  ASSUME Serialized', DbTypeOK, CodesTell, [Next]_dbVars
  PROVE  CodesTell'
<1>1. CASE UNCHANGED dbVars
  BY <1>1 DEF dbVars, CodesTell, CodesFor, OwnFailure, WellFormed
<1>2. ASSUME NEW t \in Threads, Call(t) PROVE DbCall(t)
  BY <1>2, CallPrepares DEF DbCall
<1>3. CASE Next
  <2>1. PICK t \in Threads : DbCall(t)
    BY <1>2, <1>3 DEF Next, DbCall
  <2> QED
    BY <2>1, CodesTellCall
<1> QED
  BY <1>1, <1>3

\* A fresh connection satisfies CodesTell.
LEMMA CodesTellInit == Init => CodesTell
  BY DEF Init, DbOpened, CodesTell, CodesFor

\* As long as no two queries overlap, the codes tell.
LEMMA SerializedCodes == Spec /\ []Serialized => []CodesTell
<1>1. DbTypeOK /\ CodesTell /\ Serialized' /\ [Next]_dbVars => CodesTell'
  BY CodesTellStep
<1> QED
  BY <1>1, CodesTellInit, TypeCorrect, PTL DEF Spec

\* What a lock around query() would give, for any number of threads: while no
\* two queries overlap, the exception of query() is always about its own
\* statement.  (Without that it is not: run cachedb_shared.)
THEOREM SerializedThrowIsOwn == Spec => SerializedThrows
<1>1. CodesTell => ThrowIsOwn
  BY DEF CodesTell, CodesFor, ThrowIsOwn
<1> QED
  BY <1>1, SerializedCodes, PTL DEF SerializedThrows

\* ... and query() never returns a result after its own statement failed.
THEOREM SerializedFailureIsThrown == Spec /\ []Serialized => FailureIsThrown
<1>1. CodesTell =>
        [\A t \in Threads : QueryReturn(t) => ~OwnFailure(t)]_dbVars
  BY DEF CodesTell, CodesFor, QueryReturn
<1> QED
  BY <1>1, SerializedCodes, PTL DEF FailureIsThrown

\* One thread alone never sees an exception its own statement did not cause.
THEOREM AloneThrowIsOwn ==
  ASSUME \A t, u \in Threads : t = u
  PROVE  Spec => []ThrowIsOwn
<1>1. Serialized
  BY DEF Serialized
<1> QED
  BY <1>1, SerializedThrowIsOwn, PTL DEF SerializedThrows

\* One thread alone never gets a result from query() after its own statement
\* failed: the error text tells it.
THEOREM AloneFailureIsThrown ==
  ASSUME \A t, u \in Threads : t = u
  PROVE  Spec => FailureIsThrown
<1>1. Serialized
  BY DEF Serialized
<1> QED
  BY <1>1, SerializedFailureIsThrown, PTL
=============================================================================
