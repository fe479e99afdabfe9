---------------------------- MODULE MCOnConnect ----------------------------
EXTENDS OnConnectRefines, TLC

CONSTANTS t1, t2, k1, k2, k3, k4, plain, quoted, doubled, cutting

\* Threads are alike, and so are keys whose statements are all plain.
Symmetry == Permutations(Threads) \cup Permutations(Keys)

\* No body has a doubled quote; one body has.
UnquotedSame == [b \in Bodies |-> b]
UnquotedDoubled == [b \in Bodies |-> IF b = doubled THEN plain ELSE b]

Saves(s) == s.op \in {"insert", "update"}

\* The quotes of key k4 and of one body leave the text malformed, and those of
\* another body only that of an INSERT.
QuotedStatements ==
  {s \in Statements :
     \/ s.key = k4
     \/ Saves(s) /\ s.resp.body = quoted
     \/ s.op = "insert" /\ s.resp.body = cutting}

\* The quotes of key k3 make different statements of all four, and those of one
\* body cut the WHERE clause off an UPDATE.
CutStatements ==
  {s \in Statements \ BadStatements :
     s.key = k3 \/ (Saves(s) /\ s.resp.body = cutting)}

NoStatements == {}

\* A row such a statement may leave or read: of another key, with another date.
StrayRow == {[key |-> k1, expire |-> NoDate, by |-> t1,
              resp |-> [key |-> k2, expires |-> NoDate, body |-> plain]]}
=============================================================================
