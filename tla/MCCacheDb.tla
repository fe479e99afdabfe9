----------------------------- MODULE MCCacheDb -----------------------------
EXTENDS CacheDbCallers

CONSTANTS t1, t2, k1, k2, e1, plain, quoted

UnquotedSame == [b \in Bodies |-> b]

\* The quote of one body leaves INSERT and UPDATE malformed.
QuotedStatements ==
  {s \in Statements : s.op \in {"insert", "update"} /\ s.resp.body = quoted}

\* The quotes of one key make different statements of all four.
SplicedKey == {s \in Statements \ BadStatements : s.key = k2}

\* What those may read or write.
SplicedRow == {[key |-> k1, expire |-> e1, by |-> t1,
                resp |-> [key |-> k1, expires |-> e1, body |-> plain]]}

NoStatements == {}
=============================================================================
