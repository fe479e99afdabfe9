------------------------- MODULE HttpHeadersProofs -------------------------
(***************************************************************************)
(* What the operations of class HttpHeaders do to a list with one header   *)
(* per name, for any names and values: the list stays such a list,         *)
(* FindHeader answers what was last set, ParseHeaders reads back what      *)
(* FormatHeaders writes, and GetTotalLength counts what it writes.         *)
(***************************************************************************)
EXTENDS HttpHeaders, SequenceTheorems, WellFoundedInduction, TLAPS

\* No two headers of the list have the same name.
Unique(h) == \A i, j \in DOMAIN h : h[i].key = h[j].key => i = j

\* std::find meets the one header of that name.
LEMMA FindsItem ==
  ASSUME NEW h \in Seq(Headers), Unique(h), NEW i \in DOMAIN h
  PROVE  /\ Items(h, h[i].key) = {i}
         /\ Min(Items(h, h[i].key)) = i
         /\ FindHeader(h, h[i].key) = h[i].value
<1>1. Items(h, h[i].key) = {i} /\ i \in Int
  BY DEF Items, Unique
<1>2. Min({i}) = i
  BY <1>1 DEF Min
<1> QED
  BY <1>1, <1>2 DEF FindHeader

\* ... or none.
LEMMA FindsNothing ==
  ASSUME NEW h \in Seq(Headers), NEW k, \A i \in DOMAIN h : h[i].key # k
  PROVE  Items(h, k) = {} /\ FindHeader(h, k) = Empty
  BY DEF Items, FindHeader

\* AddHeader of a new name.
LEMMA AddHeaderFacts ==
  ASSUME NEW h \in Seq(Headers), Unique(h), NEW k \in Names, NEW v \in Values,
         \A i \in DOMAIN h : h[i].key # k
  PROVE  /\ AddHeader(h, k, v) \in Seq(Headers)
         /\ Unique(AddHeader(h, k, v))
         /\ FindHeader(AddHeader(h, k, v), k) = v
         /\ \A k2 : k2 # k => FindHeader(AddHeader(h, k, v), k2) = FindHeader(h, k2)
<1> DEFINE hd == [key |-> k, value |-> v]
           new == Append(h, hd)
<1>1. hd \in Headers /\ hd.key = k /\ hd.value = v
  BY DEF Headers
<1> HIDE DEF hd
<1>2. /\ new \in Seq(Headers) /\ Len(new) = Len(h) + 1
      /\ DOMAIN new = DOMAIN h \cup {Len(h) + 1}
      /\ \A i \in DOMAIN h : new[i] = h[i]
      /\ new[Len(h) + 1] = hd
  BY <1>1
<1>3. AddHeader(h, k, v) = new
  BY DEF AddHeader, hd
<1> HIDE DEF new
<1>4. Unique(new)
  BY <1>1, <1>2 DEF Unique
<1>5. FindHeader(new, k) = v
  BY <1>1, <1>2, <1>4, FindsItem
<1>6. ASSUME NEW k2, k2 # k PROVE FindHeader(new, k2) = FindHeader(h, k2)
  <2>1. CASE \E i \in DOMAIN h : h[i].key = k2
    BY <1>2, <1>4, <2>1, FindsItem
  <2>2. CASE \A i \in DOMAIN h : h[i].key # k2
    BY <1>1, <1>2, <1>6, <2>2, FindsNothing
  <2> QED
    BY <2>1, <2>2
<1> QED
  BY <1>2, <1>3, <1>4, <1>5, <1>6

\* ModifyHeader keeps one header per name, sets the one it is given and changes
\* no other.
THEOREM ModifyHeaderFacts ==
  ASSUME NEW h \in Seq(Headers), Unique(h), NEW k \in Names, NEW v \in Values
  PROVE  /\ ModifyHeader(h, k, v) \in Seq(Headers)
         /\ Unique(ModifyHeader(h, k, v))
         /\ FindHeader(ModifyHeader(h, k, v), k) = v
         /\ \A k2 : k2 # k => FindHeader(ModifyHeader(h, k, v), k2) = FindHeader(h, k2)
<1>1. CASE \A i \in DOMAIN h : h[i].key # k
  BY <1>1, FindsNothing, AddHeaderFacts DEF ModifyHeader
<1>2. CASE \E i \in DOMAIN h : h[i].key = k
  <2>1. PICK i \in DOMAIN h : h[i].key = k
    BY <1>2
  <2> DEFINE new == [h EXCEPT ![i].value = v]
  <2>2. Items(h, k) = {i} /\ Min(Items(h, k)) = i
    BY <2>1, FindsItem
  <2>3. ModifyHeader(h, k, v) = new
    BY <2>2 DEF ModifyHeader
  <2>4. h \in [1..Len(h) -> Headers] /\ Len(h) \in Nat
    OBVIOUS
  <2>5. /\ new[i].key = k /\ new[i].value = v /\ new[i] \in Headers
        /\ \A j \in DOMAIN h : j # i => new[j] = h[j]
        /\ DOMAIN new = DOMAIN h
    BY <2>1, <2>4 DEF Headers
  <2>6. new \in [1..Len(h) -> Headers]
    BY <2>4, <2>5
  <2> HIDE DEF new
  <2>7. new \in Seq(Headers)
    BY <2>4, <2>6
  <2>8. Unique(new)
    BY <2>1, <2>5 DEF Unique
  <2>9. FindHeader(new, k) = v
    BY <2>5, <2>7, <2>8, FindsItem
  <2>10. ASSUME NEW k2, k2 # k PROVE FindHeader(new, k2) = FindHeader(h, k2)
    <3>1. CASE \E j \in DOMAIN h : h[j].key = k2
      <4>1. PICK j \in DOMAIN h : h[j].key = k2
        BY <3>1
      <4>2. j # i /\ new[j] = h[j] /\ j \in DOMAIN new
        BY <2>1, <2>5, <2>10, <4>1
      <4> QED
        BY <2>7, <2>8, <4>1, <4>2, FindsItem
    <3>2. CASE \A j \in DOMAIN h : h[j].key # k2
      <4>1. \A j \in DOMAIN new : new[j].key # k2
        BY <2>5, <2>10, <3>2
      <4> QED
        BY <2>7, <3>2, <4>1, FindsNothing
    <3> QED
      BY <3>1, <3>2
  <2> QED
    BY <2>3, <2>7, <2>8, <2>9, <2>10
<1> QED
  BY <1>1, <1>2

\* What ParseHeaders keeps from one line to the next.
Parsers == [headers : Seq(Headers), key : Names, value : Values]

\* Texts make values.
LEMMA ValueFacts ==
  ASSUME NEW x \in Texts
  PROVE  <<x>> \in Values /\ \A v \in Values : Append(v, x) \in Values
<1>1. <<x>> \in Seq(Texts) /\ <<x>> # << >>
  OBVIOUS
<1>2. ASSUME NEW v \in Seq(Texts) PROVE Append(v, x) \in Seq(Texts) /\ Append(v, x) # << >>
  <2>1. Append(v, x) \in Seq(Texts) /\ Len(Append(v, x)) = Len(v) + 1 /\ Len(v) \in Nat
    OBVIOUS
  <2> QED
    BY <2>1
<1> QED
  BY <1>1, <1>2 DEF Values

\* A line of a header leaves one header per name, sets the header the line
\* belongs to and changes no other.
THEOREM ParseLineFacts ==
  ASSUME NEW p \in Parsers, Unique(p.headers), NEW line,
         \/ line.kind = "field" /\ line.name \in Names /\ line.text \in Texts
         \/ line.kind = "more" /\ line.text \in Texts
  PROVE  LET q == ParseLine(p, line)
         IN /\ q \in Parsers /\ Unique(q.headers)
            /\ q.key = IF line.kind = "more" THEN p.key ELSE line.name
            /\ q.value = IF line.kind = "more" THEN Append(p.value, line.text)
                         ELSE <<line.text>>
            /\ FindHeader(q.headers, q.key) = q.value
            /\ \A k : k # q.key => FindHeader(q.headers, k) = FindHeader(p.headers, k)
<1>1. p.headers \in Seq(Headers) /\ p.key \in Names /\ p.value \in Values
  BY DEF Parsers
<1>2. CASE line.kind = "more" /\ line.text \in Texts
  <2> DEFINE v == Append(p.value, line.text)
             h == ModifyHeader(p.headers, p.key, v)
  <2>1. v \in Values
    BY <1>1, <1>2, ValueFacts
  <2>2. ParseLine(p, line) = [p EXCEPT !.headers = h, !.value = v]
    BY <1>2 DEF ParseLine, ParseMore, Parsers
  <2> HIDE DEF v
  <2>3. /\ h \in Seq(Headers) /\ Unique(h) /\ FindHeader(h, p.key) = v
        /\ \A k : k # p.key => FindHeader(h, k) = FindHeader(p.headers, k)
    BY <1>1, <2>1, ModifyHeaderFacts
  <2> HIDE DEF h
  <2>4. /\ ParseLine(p, line) \in Parsers
        /\ ParseLine(p, line).headers = h
        /\ ParseLine(p, line).key = p.key
        /\ ParseLine(p, line).value = v
    BY <1>1, <2>1, <2>2, <2>3 DEF Parsers
  <2> QED
    BY <1>2, <2>3, <2>4 DEF v
<1>3. CASE line.kind = "field" /\ line.name \in Names /\ line.text \in Texts
  <2> DEFINE v == <<line.text>>
             h == ModifyHeader(p.headers, line.name, v)
  <2>1. v \in Values
    BY <1>3, ValueFacts
  <2>2. ParseLine(p, line) = [headers |-> h, key |-> line.name, value |-> v]
    BY <1>3 DEF ParseLine, ParseField
  <2> HIDE DEF v
  <2>3. /\ h \in Seq(Headers) /\ Unique(h) /\ FindHeader(h, line.name) = v
        /\ \A k : k # line.name => FindHeader(h, k) = FindHeader(p.headers, k)
    BY <1>1, <1>3, <2>1, ModifyHeaderFacts
  <2> HIDE DEF h
  <2>4. /\ ParseLine(p, line) \in Parsers
        /\ ParseLine(p, line).headers = h
        /\ ParseLine(p, line).key = line.name
        /\ ParseLine(p, line).value = v
    BY <1>3, <2>1, <2>2, <2>3 DEF Parsers
  <2> QED
    BY <1>3, <2>3, <2>4 DEF v
<1> QED
  BY <1>2, <1>3

\* The same of a line "name: text".
LEMMA ParseFieldFacts ==
  ASSUME NEW p \in Parsers, Unique(p.headers), NEW line,
         line.kind = "field", line.name \in Names, line.text \in Texts
  PROVE  LET q == ParseLine(p, line)
         IN /\ q.key = line.name /\ q.value = <<line.text>>
            /\ FindHeader(q.headers, line.name) = q.value
            /\ \A k : k # line.name => FindHeader(q.headers, k) = FindHeader(p.headers, k)
<1>1. line.kind # "more"
  OBVIOUS
<1> QED
  BY <1>1, ParseLineFacts

\* ... and of a line that continues the one before.
LEMMA ParseMoreFacts ==
  ASSUME NEW p \in Parsers, Unique(p.headers), NEW line,
         line.kind = "more", line.text \in Texts
  PROVE  LET q == ParseLine(p, line)
         IN /\ q.key = p.key /\ q.value = Append(p.value, line.text)
            /\ FindHeader(q.headers, p.key) = q.value
            /\ \A k : k # p.key => FindHeader(q.headers, k) = FindHeader(p.headers, k)
  BY ParseLineFacts

\* ParseHeaders starts with an empty key and value.
LEMMA NewParserFacts ==
  ASSUME NEW h \in Seq(Headers)
  PROVE  /\ NewParser(h) \in Parsers
         /\ NewParser(h).headers = h /\ NewParser(h).key = ""
  BY HttpHeadersAssumption, ValueFacts DEF NewParser, Parsers, Empty

\* An empty list.
LEMMA NoHeaders ==
  /\ << >> \in Seq(Headers)
  /\ Unique(<< >>)
  /\ \A k : FindHeader(<< >>, k) = Empty
  BY DEF Unique, FindHeader, Items

----------------------------------------------------------------------------
(* Loops.  The library's induction theorems are about operators; these two *)
(* are about sets and functions, which the provers can instantiate.        *)

\* A set of naturals has a least element.
LEMMA Least ==
  ASSUME NEW T \in SUBSET Nat, T # {}
  PROVE  \E x \in T : \A y \in T : ~(y < x)
<1> DEFINE R == OpToRel(<, Nat)
<1>1. IsWellFoundedOn(R, Nat)
  BY NatLessThanWellFounded, Zenon
<1>2. \A x, y \in Nat : <<y, x>> \in R <=> y < x
  BY DEF OpToRel
<1> HIDE DEF R
<1>3. \E x \in T : \A y \in T : ~(<<y, x>> \in R)
  BY <1>1, WFMin, Zenon
<1> QED
  BY <1>2, <1>3

\* Induction up to N.
LEMMA Induct ==
  ASSUME NEW N \in Nat, NEW T, 0 \in T, \A n \in 1..N : n - 1 \in T => n \in T
  PROVE  \A n \in 0..N : n \in T
<1> DEFINE B == {n \in 0..N : n \notin T}
<1>1. SUFFICES ASSUME B # {} PROVE FALSE
  OBVIOUS
<1>2. PICK x \in B : \A y \in B : ~(y < x)
  <2>1. B \in SUBSET Nat
    OBVIOUS
  <2> HIDE DEF B
  <2> QED
    BY <1>1, <2>1, Least, Zenon
<1>3. x \in 1..N /\ x \notin T
  OBVIOUS
<1>4. x - 1 < x /\ x - 1 \in 0..N
  BY <1>3
<1>5. x - 1 \in T
  BY <1>2, <1>4
<1> QED
  BY <1>3, <1>5

\* f is what a loop computes that starts with base and gets its n-th result
\* from the one before with G[n].
IsLoop(f, N, P, base, G) ==
  /\ f \in [0..N -> P]
  /\ f[0] = base /\ \A n \in 1..N : f[n] = G[n][f[n - 1]]

\* A loop over the results P computes something.
LEMMA LoopRuns ==
  ASSUME NEW N \in Nat, NEW P, NEW base \in P, NEW G \in [1..N -> [P -> P]]
  PROVE  \E f : IsLoop(f, N, P, base, G)
<1> DEFINE Run(f, m) == IsLoop(f, m, P, base, G)
           T == {m \in 0..N : \E f : Run(f, m)}
<1>1. 0 \in T
  <2>1. Run([i \in 0..0 |-> base], 0)
    BY DEF IsLoop
  <2> HIDE DEF Run
  <2> QED
    BY <2>1
<1>2. ASSUME NEW m \in 1..N, m - 1 \in T PROVE m \in T
  <2>1. PICK f : Run(f, m - 1)
    BY <1>2
  <2> DEFINE g == [i \in 0..m |-> IF i = m THEN G[m][f[m - 1]] ELSE f[i]]
  <2>2. f[m - 1] \in P /\ G[m][f[m - 1]] \in P
    BY <2>1 DEF IsLoop
  <2>3. g \in [0..m -> P] /\ g[0] = base
    BY <2>1, <2>2 DEF IsLoop
  <2>4. ASSUME NEW n \in 1..m PROVE g[n] = G[n][g[n - 1]]
    <3>1. CASE n = m
      BY <3>1
    <3>2. CASE n # m
      <4>1. n \in 1..(m - 1) /\ n - 1 \in 0..m /\ n - 1 # m
        BY <3>2
      <4> QED
        BY <2>1, <4>1 DEF IsLoop
    <3> QED
      BY <3>1, <3>2
  <2>5. Run(g, m)
    BY <2>3, <2>4 DEF IsLoop
  <2> HIDE DEF Run
  <2> QED
    BY <2>5
<1>3. N \in T
  <2> HIDE DEF T
  <2>1. \A n \in 1..N : n - 1 \in T => n \in T
    BY <1>2
  <2>2. \A n \in 0..N : n \in T
    BY <1>1, <2>1, Induct, Zenon
  <2> QED
    BY <2>2
<1>4. PICK f : Run(f, N)
  <2> HIDE DEF Run
  <2> QED
    BY <1>3
<1> QED
  BY <1>4

\* Two loops that start alike and go on alike end alike.
LEMMA SameLoop ==
  ASSUME NEW N \in Nat, NEW f, NEW g, f[0] = g[0],
         \A n \in 1..N : f[n - 1] = g[n - 1] => f[n] = g[n]
  PROVE  f[N] = g[N]
<1> DEFINE T == {n \in 0..N : f[n] = g[n]}
<1>1. 0 \in T /\ \A n \in 1..N : n - 1 \in T => n \in T
  OBVIOUS
<1> HIDE DEF T
<1>2. N \in T
  BY <1>1, Induct
<1> QED
  BY <1>2 DEF T

\* The sum of a sequence is what the loop that adds its elements ends with.
LEMMA SumSeqFacts ==
  ASSUME NEW s \in Seq(Int), NEW f \in [0..Len(s) -> Int],
         f[0] = 0, \A n \in 1..Len(s) : f[n] = f[n - 1] + s[n]
  PROVE  SumSeq(s) = f[Len(s)]
<1> DEFINE sum == CHOOSE g : g = [n \in 0..Len(s) |-> IF n = 0 THEN 0 ELSE g[n - 1] + s[n]]
<1>1. SumSeq(s) = sum[Len(s)]
  BY DEF SumSeq
<1>2. f = [n \in 0..Len(s) |-> IF n = 0 THEN 0 ELSE f[n - 1] + s[n]]
  OBVIOUS
<1>3. sum = [n \in 0..Len(s) |-> IF n = 0 THEN 0 ELSE sum[n - 1] + s[n]]
  BY <1>2, Zenon
<1> HIDE DEF sum
<1>5. Len(s) \in Nat
  OBVIOUS
<1>4. sum[0] = 0 /\ \A n \in 1..Len(s) : sum[n] = sum[n - 1] + s[n]
  <2>1. \A n \in 0..Len(s) : sum[n] = IF n = 0 THEN 0 ELSE sum[n - 1] + s[n]
    BY <1>3, Zenon
  <2> QED
    BY <1>5, <2>1
<1>6. \A n \in 1..Len(s) : sum[n - 1] = f[n - 1] => sum[n] = f[n]
  BY <1>4
<1>7. sum[Len(s)] = f[Len(s)]
  BY <1>4, <1>5, <1>6, SameLoop
<1> QED
  BY <1>1, <1>7

\* There is such a loop.
LEMMA SumLoop ==
  ASSUME NEW N \in Nat, NEW s \in [1..N -> Int]
  PROVE  \E f \in [0..N -> Int] : f[0] = 0 /\ \A n \in 1..N : f[n] = f[n - 1] + s[n]
<1> DEFINE P == Int
           base == 0
           G == [n \in 1..N |-> [a \in P |-> a + s[n]]]
<1>1. G \in [1..N -> [P -> P]] /\ base \in P
  OBVIOUS
<1>2. \A n \in 1..N, a \in P : G[n][a] = a + s[n]
  OBVIOUS
<1>3. PICK f : IsLoop(f, N, P, base, G)
  <2> HIDE DEF P, base, G
  <2> QED
    BY <1>1, LoopRuns
<1>4. \A n \in 1..N : n - 1 \in 0..N
  OBVIOUS
<1>5. \A n \in 1..N : f[n] = f[n - 1] + s[n]
  <2> HIDE DEF P, base, G
  <2> QED
    BY <1>2, <1>3, <1>4, Zenon DEF IsLoop
<1> QED
  BY <1>3, <1>5, Zenon DEF IsLoop

----------------------------------------------------------------------------
(* FormatHeaders. *)

\* The lines FormatHeaders writes.
Lines == {Field(k, x) : k \in Names, x \in Texts} \cup {More(x) : x \in Texts}

\* Line j of a header with the name k and the value v.
LineOf(k, v, j) == IF j = 1 THEN Field(k, v[1]) ELSE More(v[j])

\* A header is written as one line for each text of its value.
LEMMA FormatHeaderFacts ==
  ASSUME NEW k \in Names, NEW v \in Values
  PROVE  LET w == FormatHeader([key |-> k, value |-> v])
         IN /\ w \in Seq(Lines) /\ Len(w) = Len(v) /\ Len(v) \in Nat \ {0}
            /\ \A j \in 1..Len(v) : w[j] = LineOf(k, v, j) /\ w[j] \in Lines
<1> DEFINE m == [i \in 1..Len(v) - 1 |-> More(v[i + 1])]
           a == <<Field(k, v[1])>>
<1>1. v \in Seq(Texts) /\ Len(v) \in Nat \ {0} /\ \A j \in 1..Len(v) : v[j] \in Texts
  BY DEF Values
<1>2. \A j \in 1..Len(v) : LineOf(k, v, j) \in Lines
  BY <1>1 DEF LineOf, Lines
<1>3. /\ m \in Seq(Lines) /\ Len(m) = Len(v) - 1
      /\ \A j \in 1..Len(v) - 1 : m[j] = LineOf(k, v, j + 1)
  <2>1. Len(v) - 1 \in Nat
    BY <1>1
  <2>2. \A j \in 1..Len(v) - 1 : m[j] = LineOf(k, v, j + 1) /\ j + 1 \in 1..Len(v)
    BY <1>1 DEF LineOf
  <2>3. m \in [1..Len(v) - 1 -> Lines]
    BY <1>2, <2>2
  <2> HIDE DEF m
  <2> QED
    BY <2>1, <2>2, <2>3
<1>4. a \in Seq(Lines) /\ Len(a) = 1 /\ a[1] = LineOf(k, v, 1)
  <2>1. Field(k, v[1]) \in Lines /\ Field(k, v[1]) = LineOf(k, v, 1)
    BY <1>1 DEF Lines, LineOf
  <2> QED
    BY <2>1
<1>5. FormatHeader([key |-> k, value |-> v]) = a \o m
  BY DEF FormatHeader
<1> HIDE DEF a, m
<1>6. /\ a \o m \in Seq(Lines) /\ Len(a \o m) = Len(a) + Len(m)
      /\ \A j \in 1..Len(a) + Len(m) :
           (a \o m)[j] = IF j <= Len(a) THEN a[j] ELSE m[j - Len(a)]
  BY <1>3, <1>4, ConcatProperties
<1>7. Len(a \o m) = Len(v)
  BY <1>1, <1>3, <1>4, <1>6
<1>8. ASSUME NEW j \in 1..Len(v) PROVE (a \o m)[j] = LineOf(k, v, j)
  <2>1. CASE j = 1
    BY <1>1, <1>3, <1>4, <1>6, <2>1
  <2>2. CASE j # 1
    <3>1. j - 1 \in 1..Len(v) - 1 /\ j - 1 + 1 = j /\ ~(j <= 1) /\ j \in 1..1 + (Len(v) - 1)
      BY <1>1, <2>2
    <3>2. (a \o m)[j] = m[j - 1]
      BY <1>3, <1>4, <1>6, <3>1
    <3> QED
      BY <1>3, <3>1, <3>2
  <2> QED
    BY <2>1, <2>2
<1> QED
  BY <1>1, <1>2, <1>5, <1>6, <1>7, <1>8

\* w[n] is the concatenation of the first n pieces of c.
IsConcat(w, N, S, c) ==
  /\ w \in [0..N -> Seq(S)]
  /\ w[0] = << >> /\ \A n \in 1..N : w[n] = w[n - 1] \o c[n]

\* Piece n is in it, behind the first n - 1 pieces.
LaidOut(w, N, c) ==
  \A n \in 1..N :
    /\ Len(w[n]) = Len(w[n - 1]) + Len(c[n]) /\ Len(w[n]) <= Len(w[N])
    /\ \A j \in 1..Len(c[n]) : w[N][Len(w[n - 1]) + j] = c[n][j]

\* Where the pieces of a concatenation are: piece n begins behind the first
\* n - 1 pieces.
LEMMA Layout ==
  ASSUME NEW S, NEW N \in Nat, NEW c \in [1..N -> Seq(S)], NEW w, IsConcat(w, N, S, c)
  PROVE  LaidOut(w, N, c)
<1> DEFINE Within(a, b) == Len(a) <= Len(b) /\ \A i \in 1..Len(a) : b[i] = a[i]
           T == {n \in 0..N : \A m \in 0..n : Within(w[m], w[n])}
<1>1. \A n \in 0..N : w[n] \in Seq(S) /\ Len(w[n]) \in Nat
  BY DEF IsConcat
<1>2. \A n \in 1..N : n - 1 \in 0..N /\ n \in 0..N /\ c[n] \in Seq(S) /\ Len(c[n]) \in Nat
  OBVIOUS
<1>3. ASSUME NEW n \in 1..N
      PROVE  /\ Len(w[n]) = Len(w[n - 1]) + Len(c[n])
             /\ \A i \in 1..Len(w[n - 1]) : w[n][i] = w[n - 1][i]
             /\ \A j \in 1..Len(c[n]) : w[n][Len(w[n - 1]) + j] = c[n][j]
  <2> DEFINE a == w[n - 1]
             b == c[n]
  <2>1. a \in Seq(S) /\ b \in Seq(S) /\ w[n] = a \o b
    BY <1>1, <1>2 DEF IsConcat
  <2> HIDE DEF a, b
  <2>2. /\ Len(a \o b) = Len(a) + Len(b) /\ Len(a) \in Nat /\ Len(b) \in Nat
        /\ \A i \in 1..Len(a) + Len(b) : (a \o b)[i] = IF i <= Len(a) THEN a[i] ELSE b[i - Len(a)]
    BY <2>1, ConcatProperties
  <2>3. \A i \in 1..Len(a) : (a \o b)[i] = a[i]
    BY <2>2
  <2>4. ASSUME NEW j \in 1..Len(b) PROVE (a \o b)[Len(a) + j] = b[j]
    <3>1. Len(a) + j \in 1..Len(a) + Len(b) /\ ~(Len(a) + j <= Len(a)) /\ Len(a) + j - Len(a) = j
      BY <2>2
    <3> QED
      BY <2>2, <3>1
  <2> QED
    BY <2>1, <2>2, <2>3, <2>4 DEF a, b
<1>4. 0 \in T
  BY <1>1
<1>5. ASSUME NEW n \in 1..N, n - 1 \in T PROVE n \in T
  <2>1. \A m \in 0..n : m \in 0..(n - 1) \/ m = n
    OBVIOUS
  <2>2. Within(w[n - 1], w[n]) /\ Within(w[n], w[n])
    BY <1>1, <1>2, <1>3
  <2>3. ASSUME NEW m \in 0..(n - 1) PROVE Within(w[m], w[n])
    <3>1. Within(w[m], w[n - 1]) /\ m \in 0..N
      BY <1>5
    <3> QED
      BY <1>1, <1>2, <2>2, <3>1
  <2> QED
    BY <1>2, <2>1, <2>2, <2>3
<1>6. N \in T
  <2> HIDE DEF T
  <2>1. \A n \in 1..N : n - 1 \in T => n \in T
    BY <1>5
  <2>2. \A n \in 0..N : n \in T
    BY <1>4, <2>1, Induct, Zenon
  <2> QED
    BY <2>2
<1>7. ASSUME NEW n \in 1..N, NEW j \in 1..Len(c[n])
      PROVE  w[N][Len(w[n - 1]) + j] = c[n][j]
  <2>1. Within(w[n], w[N]) /\ n \in 0..N
    BY <1>6
  <2>2. Len(w[n - 1]) + j \in 1..Len(w[n])
    <3>1. Len(w[n - 1]) \in Nat /\ Len(c[n]) \in Nat /\ j \in Nat /\ 1 <= j /\ j <= Len(c[n])
      BY <1>1, <1>2
    <3>2. Len(w[n]) = Len(w[n - 1]) + Len(c[n])
      BY <1>3
    <3> QED
      BY <3>1, <3>2
  <2> QED
    BY <1>3, <2>1, <2>2
<1> QED
  BY <1>2, <1>3, <1>6, <1>7 DEF LaidOut

\* There is such a concatenation.
LEMMA ConcatLoop ==
  ASSUME NEW S, NEW N \in Nat, NEW c \in [1..N -> Seq(S)]
  PROVE  \E w : IsConcat(w, N, S, c)
<1> DEFINE P == Seq(S)
           base == << >>
           G == [n \in 1..N |-> [a \in P |-> a \o c[n]]]
<1>1. G \in [1..N -> [P -> P]] /\ base \in P
  <2>1. \A n \in 1..N, a \in P : a \o c[n] \in P
    BY ConcatProperties
  <2> QED
    BY <2>1
<1>2. \A n \in 1..N, a \in P : G[n][a] = a \o c[n]
  OBVIOUS
<1>3. PICK w : IsLoop(w, N, P, base, G)
  <2> HIDE DEF P, base, G
  <2> QED
    BY <1>1, LoopRuns
<1>4. \A n \in 1..N : n - 1 \in 0..N
  OBVIOUS
<1>5. \A n \in 1..N : w[n] = w[n - 1] \o c[n]
  <2> HIDE DEF P, base, G
  <2> QED
    BY <1>2, <1>3, <1>4, Zenon DEF IsLoop
<1> QED
  BY <1>3, <1>5, Zenon DEF IsLoop, IsConcat

\* lines are the lines of the headers h, one header after the other: those of
\* header n begin behind line at[n - 1].
WrittenAt(h, lines, at) ==
  /\ at \in [0..Len(h) -> Nat] /\ at[0] = 0 /\ at[Len(h)] = Len(lines)
  /\ \A n \in 1..Len(h) :
       /\ at[n] = at[n - 1] + Len(h[n].value) /\ at[n] <= Len(lines)
       /\ \A j \in 1..Len(h[n].value) :
            lines[at[n - 1] + j] = LineOf(h[n].key, h[n].value, j)

\* That is what FormatHeaders writes.
LEMMA FormatHeadersFacts ==
  ASSUME NEW h \in Seq(Headers)
  PROVE  /\ FormatHeaders(h) \in Seq(Lines)
         /\ \E at : WrittenAt(h, FormatHeaders(h), at)
<1> DEFINE N == Len(h)
           c == [n \in 1..N |-> FormatHeader(h[n])]
           Written(f) == f = [n \in 0..N |-> IF n = 0 THEN << >> ELSE f[n - 1] \o FormatHeader(h[n])]
           written == CHOOSE f : Written(f)
<1>1. N \in Nat /\ \A n \in 1..N : h[n] \in Headers
  OBVIOUS
<1>2. FormatHeaders(h) = written[N]
  BY DEF FormatHeaders
<1>3. ASSUME NEW n \in 1..N
      PROVE  /\ c[n] \in Seq(Lines) /\ c[n] = FormatHeader(h[n])
             /\ Len(c[n]) = Len(h[n].value)
             /\ \A j \in 1..Len(h[n].value) : c[n][j] = LineOf(h[n].key, h[n].value, j)
  <2>1. h[n].key \in Names /\ h[n].value \in Values /\ h[n] = [key |-> h[n].key, value |-> h[n].value]
    BY <1>1 DEF Headers
  <2> QED
    BY <2>1, FormatHeaderFacts
<1>4. c \in [1..N -> Seq(Lines)]
  BY <1>3
<1> HIDE DEF c, N
<1>5. PICK w : IsConcat(w, N, Lines, c)
  BY <1>1, <1>4, ConcatLoop
<1>6. /\ w \in [0..N -> Seq(Lines)]
      /\ w[0] = << >>
      /\ \A n \in 1..N : w[n] = w[n - 1] \o FormatHeader(h[n])
  BY <1>3, <1>5 DEF IsConcat
<1>7. Written(w)
  <2>1. \A n \in 0..N : n = 0 \/ n \in 1..N
    BY <1>1
  <2>2. \A n \in 0..N : w[n] = IF n = 0 THEN << >> ELSE w[n - 1] \o FormatHeader(h[n])
    BY <1>1, <1>6, <2>1, Zenon
  <2> QED
    BY <1>6, <2>2, Zenon
<1>8. written[N] = w[N]
  <2>1. Written(written)
    BY <1>7, Zenon
  <2> HIDE DEF written
  <2>2. \A n \in 0..N : written[n] = IF n = 0 THEN << >> ELSE written[n - 1] \o FormatHeader(h[n])
    BY <2>1, Zenon
  <2>3. 0 \in 0..N /\ \A n \in 1..N : n \in 0..N /\ n # 0
    BY <1>1
  <2>4. written[0] = << >> /\ \A n \in 1..N : written[n] = written[n - 1] \o FormatHeader(h[n])
    BY <2>2, <2>3, Zenon
  <2>5. \A n \in 1..N : written[n - 1] = w[n - 1] => written[n] = w[n]
    BY <1>6, <2>4, Zenon
  <2>6. written[0] = w[0]
    BY <1>6, <2>4, Zenon
  <2> QED
    BY <1>1, <2>5, <2>6, SameLoop
<1> DEFINE at == [n \in 0..N |-> Len(w[n])]
<1>9. /\ at \in [0..N -> Nat] /\ at[0] = 0 /\ at[N] = Len(w[N])
      /\ \A n \in 1..N : at[n] = Len(w[n]) /\ at[n - 1] = Len(w[n - 1])
  BY <1>1, <1>6
<1> HIDE DEF at
<1>10. LaidOut(w, N, c)
  BY <1>1, <1>4, <1>5, Layout
<1>11. ASSUME NEW n \in 1..N
       PROVE  /\ at[n] = at[n - 1] + Len(h[n].value) /\ at[n] <= Len(w[N])
              /\ \A j \in 1..Len(h[n].value) :
                   w[N][at[n - 1] + j] = LineOf(h[n].key, h[n].value, j)
  <2>1. Len(c[n]) = Len(h[n].value) /\ at[n] = Len(w[n]) /\ at[n - 1] = Len(w[n - 1])
    BY <1>3, <1>9
  <2>2. \A j \in 1..Len(h[n].value) : c[n][j] = LineOf(h[n].key, h[n].value, j)
    BY <1>3
  <2>3. \A j \in 1..Len(h[n].value) : w[N][at[n - 1] + j] = c[n][j]
    BY <1>10, <2>1, Zenon DEF LaidOut
  <2>4. at[n] = at[n - 1] + Len(h[n].value) /\ at[n] <= Len(w[N])
    BY <1>10, <2>1, Zenon DEF LaidOut
  <2> QED
    BY <2>2, <2>3, <2>4, Zenon
<1>12. w[N] \in Seq(Lines) /\ FormatHeaders(h) = w[N]
  BY <1>1, <1>2, <1>6, <1>8
<1>13. WrittenAt(h, w[N], at)
  BY <1>9, <1>11 DEF N, WrittenAt
<1> QED
  BY <1>12, <1>13

----------------------------------------------------------------------------
(* ParseHeaders of what FormatHeaders writes. *)

\* Append, as a function.
LEMMA AppendFcn ==
  ASSUME NEW S, NEW s \in Seq(S), NEW e \in S
  PROVE  /\ Append(s, e) \in [1..Len(s) + 1 -> S] /\ Append(s, e)[Len(s) + 1] = e
         /\ \A i \in 1..Len(s) : Append(s, e)[i] = s[i]
<1> DEFINE t == Append(s, e)
<1>1. /\ t \in Seq(S) /\ Len(t) = Len(s) + 1
      /\ t[Len(s) + 1] = e /\ \A i \in 1..Len(s) : t[i] = s[i]
  OBVIOUS
<1> HIDE DEF t
<1>2. t \in [1..Len(s) + 1 -> S]
  BY <1>1
<1> QED
  BY <1>1, <1>2 DEF t

\* ModifyHeader adds a header of a new name at the end, and finds it there.
LEMMA ModifyLast ==
  ASSUME NEW hs \in Seq(Headers), NEW k \in Names, \A i \in DOMAIN hs : hs[i].key # k,
         NEW v \in Values, NEW v2 \in Values
  PROVE  /\ ModifyHeader(hs, k, v) = Append(hs, [key |-> k, value |-> v])
         /\ ModifyHeader(Append(hs, [key |-> k, value |-> v]), k, v2)
              = Append(hs, [key |-> k, value |-> v2])
<1> DEFINE a == [key |-> k, value |-> v]
           b == [key |-> k, value |-> v2]
           n == Len(hs) + 1
           ha == Append(hs, a)
           hb == Append(hs, b)
<1>1. ModifyHeader(hs, k, v) = ha
  BY FindsNothing DEF ModifyHeader, AddHeader
<1>2. a \in Headers /\ b \in Headers /\ a.key = k /\ b = [a EXCEPT !.value = v2]
  BY DEF Headers
<1>3. Len(hs) \in Nat /\ DOMAIN hs = 1..Len(hs) /\ hs \in [1..Len(hs) -> Headers]
  OBVIOUS
<1> HIDE DEF a, b
<1>4. /\ ha \in [1..n -> Headers] /\ ha[n] = a /\ \A i \in 1..Len(hs) : ha[i] = hs[i]
      /\ hb \in [1..n -> Headers] /\ hb[n] = b /\ \A i \in 1..Len(hs) : hb[i] = hs[i]
  BY <1>2, AppendFcn
<1>5. n \in Int /\ \A i \in 1..n : i = n \/ i \in 1..Len(hs)
  BY <1>3
<1> HIDE DEF ha, hb, n
<1>6. Items(ha, k) = {n}
  <2>1. n \in 1..n /\ DOMAIN ha = 1..n
    BY <1>3, <1>4 DEF n
  <2> QED
    BY <1>2, <1>3, <1>4, <1>5, <2>1 DEF Items
<1>7. Min({n}) = n
  BY <1>5 DEF Min
<1>8. ModifyHeader(ha, k, v2) = [ha EXCEPT ![n].value = v2]
  BY <1>6, <1>7 DEF ModifyHeader
<1>9. [ha EXCEPT ![n].value = v2] = hb
  <2>1. [ha EXCEPT ![n].value = v2] = [i \in 1..n |-> IF i = n THEN [a EXCEPT !.value = v2] ELSE ha[i]]
    BY <1>4
  <2>2. \A i \in 1..n : (IF i = n THEN [a EXCEPT !.value = v2] ELSE ha[i]) = hb[i]
    BY <1>2, <1>4, <1>5
  <2>3. hb = [i \in 1..n |-> hb[i]]
    BY <1>4
  <2> QED
    BY <2>1, <2>2, <2>3
<1> QED
  BY <1>1, <1>8, <1>9 DEF ha, hb, a, b

\* The texts of a value, one more.
LEMMA NextText ==
  ASSUME NEW v \in Seq(Texts), NEW j \in 2..Len(v)
  PROVE  Append(SubSeq(v, 1, j - 1), v[j]) = SubSeq(v, 1, j)
  OBVIOUS

\* The first text of a value.
LEMMA FirstText ==
  ASSUME NEW v \in Seq(Texts), Len(v) # 0
  PROVE  SubSeq(v, 1, 1) = <<v[1]>>
<1>1. Len(v) \in Nat /\ 1 \in 1..Len(v) /\ v[1] \in Texts
  OBVIOUS
<1>2. /\ SubSeq(v, 1, 1) \in Seq(Texts) /\ Len(SubSeq(v, 1, 1)) = 1
      /\ SubSeq(v, 1, 1)[1] = v[1]
  BY <1>1
<1>3. <<v[1]>> \in Seq(Texts) /\ Len(<<v[1]>>) = 1 /\ <<v[1]>>[1] = v[1]
  BY <1>1
<1> DEFINE a == SubSeq(v, 1, 1)
           b == <<v[1]>>
<1> HIDE DEF a, b
<1>4. \A i \in 1..1 : i = 1
  OBVIOUS
<1>5. a = b
  BY <1>2, <1>3, <1>4, SeqEqual DEF a, b
<1> QED
  BY <1>5 DEF a, b

\* The first texts of a value are a value.
LEMMA FirstTexts ==
  ASSUME NEW v \in Seq(Texts), NEW j \in 1..Len(v)
  PROVE  SubSeq(v, 1, j) \in Values
<1>1. SubSeq(v, 1, j) \in Seq(Texts) /\ Len(SubSeq(v, 1, j)) = j /\ j # 0
  OBVIOUS
<1> QED
  BY <1>1 DEF Values

\* The state of ParseHeaders behind line j of a header with the name k and the
\* value v, when the headers before are hs.
Behind(hs, k, v, j) ==
  [headers |-> Append(hs, [key |-> k, value |-> SubSeq(v, 1, j)]),
   key |-> k, value |-> SubSeq(v, 1, j)]

\* ParseHeaders reads one header back from its lines.
LEMMA ReadsHeader ==
  ASSUME NEW hs \in Seq(Headers), NEW k \in Names, \A i \in DOMAIN hs : hs[i].key # k,
         NEW v \in Values, NEW q, q[0].headers = hs,
         \A j \in 1..Len(v) : q[j] = ParseLine(q[j - 1], LineOf(k, v, j))
  PROVE  q[Len(v)].headers = Append(hs, [key |-> k, value |-> v])
<1> DEFINE N == Len(v)
           T == {j \in 0..N : j = 0 \/ q[j] = Behind(hs, k, v, j)}
<1>1. v \in Seq(Texts) /\ N \in Nat /\ N # 0 /\ \A j \in 1..N : v[j] \in Texts
  BY DEF Values
<1>2. ASSUME NEW j \in 1..N PROVE SubSeq(v, 1, j) \in Values
  BY <1>1, FirstTexts
<1>3. q[1] = Behind(hs, k, v, 1)
  <2>1. 1 \in 1..N /\ q[1] = ParseLine(q[0], LineOf(k, v, 1))
    BY <1>1
  <2>2. LineOf(k, v, 1) = Field(k, v[1])
    BY DEF LineOf
  <2>3. ParseLine(q[0], Field(k, v[1]))
          = [headers |-> ModifyHeader(hs, k, <<v[1]>>), key |-> k, value |-> <<v[1]>>]
    BY DEF ParseLine, ParseField, Field
  <2>4. SubSeq(v, 1, 1) = <<v[1]>>
    BY <1>1, FirstText
  <2>5. <<v[1]>> \in Values
    BY <1>2, <2>1, <2>4
  <2>6. ModifyHeader(hs, k, <<v[1]>>) = Append(hs, [key |-> k, value |-> <<v[1]>>])
    BY <2>5, ModifyLast
  <2> QED
    BY <2>1, <2>2, <2>3, <2>4, <2>6 DEF Behind
<1>4. ASSUME NEW j \in 2..N, q[j - 1] = Behind(hs, k, v, j - 1)
      PROVE  q[j] = Behind(hs, k, v, j)
  <2> DEFINE x == SubSeq(v, 1, j - 1)
             y == SubSeq(v, 1, j)
             p == Behind(hs, k, v, j - 1)
  <2>1. j \in 1..N /\ j - 1 \in 1..N /\ j # 1
    BY <1>1
  <2>2. q[j] = ParseLine(p, More(v[j]))
    BY <1>4, <2>1 DEF LineOf
  <2>3. x \in Values /\ y \in Values /\ Append(x, v[j]) = y
    BY <1>1, <1>2, <2>1, NextText
  <2>4. /\ p.headers = Append(hs, [key |-> k, value |-> x])
        /\ p.key = k /\ p.value = x
        /\ p = [headers |-> p.headers, key |-> k, value |-> x]
    BY DEF Behind
  <2>5. Behind(hs, k, v, j) = [headers |-> Append(hs, [key |-> k, value |-> y]), key |-> k, value |-> y]
    BY DEF Behind
  <2>6. More(v[j]).kind = "more" /\ More(v[j]).text = v[j]
    BY DEF More
  <2> HIDE DEF x, y, p
  <2>7. ParseLine(p, More(v[j])) = [p EXCEPT !.headers = ModifyHeader(p.headers, k, y), !.value = y]
    BY <2>3, <2>4, <2>6 DEF ParseLine, ParseMore
  <2>8. ModifyHeader(p.headers, k, y) = Append(hs, [key |-> k, value |-> y])
    BY <2>3, <2>4, ModifyLast
  <2>9. p \in Parsers
    <3>1. [key |-> k, value |-> x] \in Headers
      BY <2>3 DEF Headers
    <3>2. p.headers \in Seq(Headers)
      BY <2>4, <3>1
    <3> QED
      BY <2>3, <2>4, <3>2 DEF Parsers
  <2>10. /\ ParseLine(p, More(v[j])).headers = Append(hs, [key |-> k, value |-> y])
         /\ ParseLine(p, More(v[j])).key = k
         /\ ParseLine(p, More(v[j])).value = y
         /\ ParseLine(p, More(v[j])) \in [headers : {Append(hs, [key |-> k, value |-> y])},
                                          key : {k}, value : {y}]
    BY <2>4, <2>7, <2>8, <2>9 DEF Parsers
  <2> QED
    BY <2>2, <2>5, <2>10
<1>5. \A j \in 0..N : j \in T
  <2>1. 0 \in T
    BY <1>1
  <2>2. ASSUME NEW j \in 1..N, j - 1 \in T PROVE j \in T
    <3>1. j = 1 \/ (j \in 2..N /\ j - 1 # 0)
      OBVIOUS
    <3> QED
      BY <1>1, <1>3, <1>4, <2>2, <3>1
  <2> HIDE DEF T
  <2>3. \A j \in 1..N : j - 1 \in T => j \in T
    BY <2>2
  <2> QED
    BY <1>1, <2>1, <2>3, Induct, Zenon
<1>6. q[N] = Behind(hs, k, v, N)
  BY <1>1, <1>5
<1>7. SubSeq(v, 1, N) = v
  BY <1>1
<1> QED
  BY <1>6, <1>7 DEF Behind

\* The states ParseHeaders goes through.
GoodParsers == {p \in Parsers : Unique(p.headers)}

\* r[n] is the state of ParseHeaders behind the first n lines.
IsReading(r, lines) ==
  /\ r \in [0..Len(lines) -> GoodParsers]
  /\ r[0] = NewParser(<< >>)
  /\ \A n \in 1..Len(lines) : r[n] = ParseLine(r[n - 1], lines[n])

\* A line keeps the state good.
LEMMA LineIsRead ==
  ASSUME NEW p \in GoodParsers, NEW line \in Lines
  PROVE  ParseLine(p, line) \in GoodParsers
<1>1. p \in Parsers /\ Unique(p.headers)
  BY DEF GoodParsers
<1>2. \/ line.kind = "field" /\ line.name \in Names /\ line.text \in Texts
      \/ line.kind = "more" /\ line.text \in Texts
  BY DEF Lines, Field, More
<1>3. ParseLine(p, line) \in Parsers /\ Unique(ParseLine(p, line).headers)
  BY <1>1, <1>2, ParseLineFacts
<1> QED
  BY <1>3 DEF GoodParsers

\* ParseLines is the end of such a reading.
LEMMA ParseLinesFacts ==
  ASSUME NEW lines \in Seq(Lines)
  PROVE  \E r : IsReading(r, lines) /\ ParseLines(lines) = r[Len(lines)]
<1> DEFINE N == Len(lines)
           P == GoodParsers
           base == NewParser(<< >>)
           G == [n \in 1..N |-> [p \in P |-> ParseLine(p, lines[n])]]
           Read(f) == f = [n \in 0..N |-> IF n = 0 THEN base ELSE ParseLine(f[n - 1], lines[n])]
           read == CHOOSE f : Read(f)
<1>1. N \in Nat /\ \A n \in 1..N : lines[n] \in Lines /\ n - 1 \in 0..N /\ n \in 0..N /\ n # 0
  OBVIOUS
<1>2. ParseLines(lines) = read[N]
  BY DEF ParseLines
<1>3. base \in P
  BY NewParserFacts, NoHeaders DEF GoodParsers
<1> HIDE DEF N, base
<1>4. G \in [1..N -> [P -> P]] /\ \A n \in 1..N, p \in P : G[n][p] = ParseLine(p, lines[n])
  BY <1>1, LineIsRead
<1>5. PICK r : IsLoop(r, N, P, base, G)
  <2> HIDE DEF P, G
  <2> QED
    BY <1>1, <1>3, <1>4, LoopRuns
<1>6. /\ r \in [0..N -> P] /\ r[0] = base
      /\ \A n \in 1..N : r[n] = ParseLine(r[n - 1], lines[n])
  <2> HIDE DEF P, G
  <2> QED
    BY <1>1, <1>4, <1>5, Zenon DEF IsLoop
<1>7. Read(r)
  <2>1. \A n \in 0..N : n = 0 \/ n \in 1..N
    BY <1>1
  <2>2. \A n \in 0..N : r[n] = IF n = 0 THEN base ELSE ParseLine(r[n - 1], lines[n])
    BY <1>6, <2>1, Zenon
  <2> QED
    BY <1>6, <2>2, Zenon
<1>8. read[N] = r[N]
  <2>1. Read(read)
    BY <1>7, Zenon
  <2> HIDE DEF read
  <2>2. \A n \in 0..N : read[n] = IF n = 0 THEN base ELSE ParseLine(read[n - 1], lines[n])
    BY <2>1, Zenon
  <2>3. 0 \in 0..N
    BY <1>1
  <2>4. read[0] = base /\ \A n \in 1..N : read[n] = ParseLine(read[n - 1], lines[n])
    BY <1>1, <2>2, <2>3, Zenon
  <2>5. \A n \in 1..N : read[n - 1] = r[n - 1] => read[n] = r[n]
    BY <1>6, <2>4, Zenon
  <2>6. read[0] = r[0]
    BY <1>6, <2>4
  <2> QED
    BY <1>1, <2>5, <2>6, SameLoop
<1>9. IsReading(r, lines)
  BY <1>6 DEF IsReading, base, N
<1> QED
  BY <1>2, <1>8, <1>9 DEF N

\* The headers up to n.
LEMMA OneMoreHeader ==
  ASSUME NEW h \in Seq(Headers), NEW n \in 1..Len(h)
  PROVE  /\ SubSeq(h, 1, n - 1) \in Seq(Headers)
         /\ DOMAIN SubSeq(h, 1, n - 1) = 1..(n - 1)
         /\ \A i \in 1..(n - 1) : SubSeq(h, 1, n - 1)[i] = h[i]
         /\ Append(SubSeq(h, 1, n - 1), [key |-> h[n].key, value |-> h[n].value]) = SubSeq(h, 1, n)
<1>1. h[n] \in Headers /\ Len(h) \in Nat
  OBVIOUS
<1>2. [key |-> h[n].key, value |-> h[n].value] = h[n]
  BY <1>1 DEF Headers
<1>3. Append(SubSeq(h, 1, n - 1), h[n]) = SubSeq(h, 1, n)
  OBVIOUS
<1> QED
  BY <1>1, <1>2, <1>3

\* ParseHeaders reads from what FormatHeaders writes the headers it was given,
\* for any list with one header per name, if it refuses no line.  (It would refuse
\* a continuation of a header without a name: see ForwardRoundTrip.)
THEOREM HeadersRoundTrip ==
  ASSUME NEW h \in Seq(Headers), Unique(h)
  PROVE  ParseLines(FormatHeaders(h)).headers = h
<1> DEFINE lines == FormatHeaders(h)
           N == Len(h)
<1>1. lines \in Seq(Lines)
  BY FormatHeadersFacts
<1>2. PICK at : WrittenAt(h, lines, at)
  BY FormatHeadersFacts
<1> HIDE DEF lines
<1>3. PICK r : IsReading(r, lines) /\ ParseLines(lines) = r[Len(lines)]
  BY <1>1, ParseLinesFacts
<1>4. /\ N \in Nat
      /\ \A n \in 1..N : h[n] \in Headers /\ h[n].key \in Names /\ h[n].value \in Values
  <2>1. N \in Nat /\ \A n \in 1..N : h[n] \in Headers
    OBVIOUS
  <2> QED
    BY <2>1 DEF Headers
<1> DEFINE T == {n \in 0..N : r[at[n]].headers = SubSeq(h, 1, n)}
<1>5. 0 \in T
  <2>1. SubSeq(h, 1, 0) = << >>
    OBVIOUS
  <2>2. r[at[0]].headers = << >>
    BY <1>2, <1>3, NewParserFacts, NoHeaders DEF WrittenAt, IsReading
  <2>3. 0 \in 0..N
    BY <1>4
  <2> QED
    BY <2>1, <2>2, <2>3, Zenon
<1>6. ASSUME NEW n \in 1..N, n - 1 \in T PROVE n \in T
  <2> DEFINE o == at[n - 1]
             k == h[n].key
             v == h[n].value
             hs == SubSeq(h, 1, n - 1)
             q == [j \in 0..Len(v) |-> r[o + j]]
  <2>1. /\ o \in Nat /\ Len(v) \in Nat /\ at[n] = o + Len(v) /\ at[n] <= Len(lines)
        /\ \A j \in 1..Len(v) : lines[o + j] = LineOf(k, v, j)
    <3>1. n - 1 \in 0..N
      OBVIOUS
    <3>2. Len(v) \in Nat
      BY <1>4 DEF Values
    <3> QED
      BY <1>2, <3>1, <3>2 DEF WrittenAt
  <2>2. ASSUME NEW j \in 1..Len(v) PROVE q[j] = ParseLine(q[j - 1], LineOf(k, v, j))
    <3>1. /\ o + j \in 1..Len(lines) /\ o + j - 1 = o + (j - 1)
          /\ j \in 0..Len(v) /\ j - 1 \in 0..Len(v)
      <4>1. Len(lines) \in Nat
        BY <1>1
      <4> HIDE DEF o, v
      <4> QED
        BY <2>1, <4>1
    <3>2. r[o + j] = ParseLine(r[o + (j - 1)], lines[o + j])
      <4>1. r[o + j] = ParseLine(r[o + j - 1], lines[o + j])
        <5>1. \A m \in 1..Len(lines) : r[m] = ParseLine(r[m - 1], lines[m])
          BY <1>3 DEF IsReading
        <5>2. o + j \in 1..Len(lines) /\ o \in Nat /\ j \in Nat
          BY <2>1, <3>1
        <5> HIDE DEF o, v
        <5> QED
          BY <5>1, <5>2
      <4> QED
        BY <3>1, <4>1
    <3> QED
      BY <2>1, <3>1, <3>2
  <2>3. q[0] = r[o] /\ q[Len(v)] = r[at[n]]
    BY <2>1
  <2>4. q[0].headers = hs
    BY <1>6, <2>3
  <2>5. \A i \in DOMAIN hs : hs[i].key # k
    <3>1. \A i \in 1..(n - 1) : i \in DOMAIN h /\ i # n
      OBVIOUS
    <3>2. n \in DOMAIN h
      OBVIOUS
    <3> QED
      BY <3>1, <3>2, OneMoreHeader DEF Unique
  <2>6. hs \in Seq(Headers) /\ Append(hs, [key |-> k, value |-> v]) = SubSeq(h, 1, n)
    BY OneMoreHeader
  <2> HIDE DEF o, k, v, hs, q
  <2>7. k \in Names /\ v \in Values
    BY <1>4 DEF k, v
  <2>8. q[Len(v)].headers = Append(hs, [key |-> k, value |-> v])
    BY <2>2, <2>4, <2>5, <2>6, <2>7, ReadsHeader
  <2>9. r[at[n]].headers = SubSeq(h, 1, n)
    BY <2>3, <2>6, <2>8
  <2> QED
    BY <2>9
<1>7. N \in T
  <2> HIDE DEF T, N
  <2>1. \A n \in 1..N : n - 1 \in T => n \in T
    BY <1>6
  <2>2. \A n \in 0..N : n \in T
    BY <1>4, <1>5, <2>1, Induct, Zenon
  <2> QED
    BY <1>4, <2>2
<1>8. SubSeq(h, 1, N) = h
  OBVIOUS
<1>9. at[N] = Len(lines)
  BY <1>2 DEF WrittenAt
<1> QED
  BY <1>3, <1>7, <1>8, <1>9 DEF lines

----------------------------------------------------------------------------
(* GetTotalLength. *)

\* Sizes are naturals.
LEMMA SizeType ==
  /\ \A k \in Names : Size[k] \in Nat
  /\ \A x \in Texts : Size[x] \in Nat
  BY HttpHeadersAssumption

\* The size of a line of a header.
LEMMA LineOfSize ==
  ASSUME NEW k \in Names, NEW v \in Values, NEW j \in 1..Len(v)
  PROVE  /\ v[j] \in Texts
         /\ LineSize(LineOf(k, v, j))
              = IF j = 1 THEN Size[k] + 2 + Size[v[j]] + 2 ELSE Size[v[j]] + 2
         /\ LineSize(LineOf(k, v, j)) \in Nat
<1>1. v[j] \in Texts
  BY DEF Values
<1>2. Size[k] \in Nat /\ Size[v[j]] \in Nat
  BY <1>1, SizeType
<1>3. CASE j = 1
  BY <1>1, <1>2, <1>3 DEF LineSize, LineOf, Field
<1>4. CASE j # 1
  BY <1>1, <1>2, <1>4 DEF LineSize, LineOf, More
<1> QED
  BY <1>3, <1>4

\* A sum over a sequence, by the loop that adds it up.
LEMMA SumOf ==
  ASSUME NEW N \in Nat, NEW s \in [1..N -> Int]
  PROVE  \E f \in [0..N -> Int] :
           /\ f[0] = 0 /\ SumSeq(s) = f[N]
           /\ \A n \in 1..N : f[n] = f[n - 1] + s[n]
<1>1. s \in Seq(Int) /\ Len(s) = N
  OBVIOUS
<1>2. PICK f \in [0..N -> Int] : f[0] = 0 /\ \A n \in 1..N : f[n] = f[n - 1] + s[n]
  BY SumLoop
<1>3. SumSeq(s) = f[N]
  <2>1. /\ f \in [0..Len(s) -> Int] /\ f[0] = 0
        /\ \A n \in 1..Len(s) : f[n] = f[n - 1] + s[n]
    BY <1>1, <1>2
  <2>2. SumSeq(s) = f[Len(s)]
    BY <1>1, <2>1, SumSeqFacts
  <2> QED
    BY <1>1, <2>2
<1> QED
  BY <1>2, <1>3, Zenon

\* The lines of one header come to what GetTotalLength counts for it.
LEMMA HeaderSize ==
  ASSUME NEW k \in Names, NEW v \in Values, NEW s \in [0..Len(v) -> Int],
         \A j \in 1..Len(v) : s[j] = s[j - 1] + LineSize(LineOf(k, v, j))
  PROVE  /\ s[Len(v)] = s[0] + (Size[k] + 2 + ValueSize(v) + 2)
         /\ ValueSize(v) \in Int
<1> DEFINE N == Len(v)
           x == [i \in DOMAIN v |-> Size[v[i]]]
<1>1. N \in Nat /\ N # 0 /\ DOMAIN v = 1..N /\ Size[k] \in Nat
  BY SizeType DEF Values
<1>2. x \in [1..N -> Int] /\ \A j \in 1..N : x[j] = Size[v[j]] /\ x[j] \in Int
  BY <1>1, LineOfSize, SizeType
<1>3. PICK e \in [0..N -> Int] : /\ e[0] = 0 /\ SumSeq(x) = e[N]
                                 /\ \A n \in 1..N : e[n] = e[n - 1] + x[n]
  <2> HIDE DEF x, N
  <2> QED
    BY <1>1, <1>2, SumOf
<1>4. ValueSize(v) = e[N] + 2 * (N - 1)
  BY <1>3 DEF ValueSize
<1> HIDE DEF x
<1>5. \A j \in 1..N : /\ LineSize(LineOf(k, v, j)) \in Nat
                      /\ LineSize(LineOf(k, v, j))
                           = IF j = 1 THEN Size[k] + 2 + x[j] + 2 ELSE x[j] + 2
  <2> SUFFICES ASSUME NEW j \in 1..N
               PROVE  /\ LineSize(LineOf(k, v, j)) \in Nat
                      /\ LineSize(LineOf(k, v, j))
                           = IF j = 1 THEN Size[k] + 2 + x[j] + 2 ELSE x[j] + 2
    OBVIOUS
  <2>1. x[j] = Size[v[j]]
    BY <1>2
  <2> QED
    BY <2>1, LineOfSize
<1>6. /\ \A j \in 1..N : s[j] = s[j - 1] + LineSize(LineOf(k, v, j))
      /\ s \in [0..N -> Int]
  OBVIOUS
<1> HIDE DEF N
<1> DEFINE T == {j \in 0..N : j = 0 \/ s[j] = s[0] + (Size[k] + 2 + e[j] + 2 * j)}
<1>7. 0 \in T
  BY <1>1
<1>8. ASSUME NEW j \in 1..N, j - 1 \in T PROVE j \in T
  <2>1. /\ e[j] = e[j - 1] + x[j] /\ e[j - 1] \in Int /\ e[j] \in Int /\ x[j] \in Int
        /\ s[j - 1] \in Int /\ s[0] \in Int /\ s[j] \in Int /\ j \in Nat
    <3>1. j - 1 \in 0..N /\ j \in 0..N /\ 0 \in 0..N /\ j \in Nat
      BY <1>1
    <3>2. e[j] = e[j - 1] + x[j] /\ e[j - 1] \in Int /\ e[j] \in Int
      BY <1>3, <3>1
    <3>3. s[j - 1] \in Int /\ s[0] \in Int /\ s[j] \in Int
      BY <1>6, <3>1
    <3> QED
      BY <1>2, <3>1, <3>2, <3>3
  <2>2. CASE j = 1
    <3> DEFINE a == s[0]
               z == Size[k]
               d == x[1]
    <3>1. a \in Int /\ z \in Int /\ d \in Int
      BY <1>1, <2>1, <2>2
    <3>2. e[1] = 0 + d
      BY <1>3, <2>1, <2>2
    <3>3. s[1] = a + (z + 2 + d + 2)
      BY <1>5, <1>6, <2>2
    <3> HIDE DEF a, z, d
    <3>4. s[1] = a + (z + 2 + e[1] + 2 * 1)
      BY <3>1, <3>2, <3>3
    <3>5. s[j] = s[0] + (Size[k] + 2 + e[j] + 2 * j)
      BY <2>2, <3>4 DEF a, z
    <3> QED
      BY <3>5
  <2>3. CASE j # 1
    <3>1. s[j - 1] = s[0] + (Size[k] + 2 + e[j - 1] + 2 * (j - 1))
      BY <1>8, <2>1, <2>3
    <3>2. s[j] = s[j - 1] + (x[j] + 2)
      BY <1>5, <1>6, <2>3
    <3>3. s[j] = s[0] + (Size[k] + 2 + e[j] + 2 * j)
      <4> DEFINE a == s[0]
                 z == Size[k]
                 b == e[j - 1]
                 d == x[j]
      <4>1. a \in Int /\ z \in Int /\ b \in Int /\ d \in Int /\ j \in Int
        BY <1>1, <2>1
      <4>2. s[j] = (a + (z + 2 + b + 2 * (j - 1))) + (d + 2) /\ e[j] = b + d
        BY <2>1, <3>1, <3>2
      <4> HIDE DEF a, z, b, d
      <4>3. s[j] = a + (z + 2 + e[j] + 2 * j)
        BY <4>1, <4>2
      <4> QED
        BY <4>3 DEF a, z
    <3> QED
      BY <3>3
  <2> QED
    BY <2>2, <2>3
<1>9. N \in T
  <2> HIDE DEF T
  <2>1. \A j \in 1..N : j - 1 \in T => j \in T
    BY <1>8
  <2>2. \A j \in 0..N : j \in T
    BY <1>1, <1>7, <2>1, Induct, Zenon
  <2> QED
    BY <1>1, <2>2
<1>10. s[N] = s[0] + (Size[k] + 2 + e[N] + 2 * N)
  BY <1>1, <1>9
<1>11. e[N] \in Int /\ s[0] \in Int
  BY <1>1, <1>3, <1>6
<1>12. ValueSize(v) \in Int /\ s[N] = s[0] + (Size[k] + 2 + ValueSize(v) + 2)
  <2> DEFINE a == s[0]
             z == Size[k]
             b == e[N]
  <2>1. a \in Int /\ z \in Int /\ b \in Int /\ N \in Int
    BY <1>1, <1>11
  <2>2. s[N] = a + (z + 2 + b + 2 * N) /\ ValueSize(v) = b + 2 * (N - 1)
    BY <1>4, <1>10
  <2> HIDE DEF a, z, b
  <2>3. ValueSize(v) \in Int /\ s[N] = a + (z + 2 + ValueSize(v) + 2)
    BY <2>1, <2>2
  <2> QED
    BY <2>3 DEF a, z
<1> QED
  BY <1>12 DEF N

\* GetTotalLength, which sizes the buffer, counts exactly what FormatHeaders
\* writes into it, for any list of headers.
THEOREM TotalLengthIsWritten ==
  ASSUME NEW h \in Seq(Headers)
  PROVE  LET lines == FormatHeaders(h)
         IN  SumSeq([i \in DOMAIN lines |-> LineSize(lines[i])]) = GetTotalLength(h)
<1> DEFINE lines == FormatHeaders(h)
           L == Len(lines)
           N == Len(h)
           x == [i \in DOMAIN lines |-> LineSize(lines[i])]
           y == [i \in DOMAIN h |-> Size[h[i].key] + 2 + ValueSize(h[i].value) + 2]
<1>1. lines \in Seq(Lines)
  BY FormatHeadersFacts
<1>2. PICK at : WrittenAt(h, lines, at)
  BY FormatHeadersFacts
<1> HIDE DEF lines
<1>3. /\ N \in Nat /\ DOMAIN h = 1..N
      /\ \A n \in 1..N : h[n].key \in Names /\ h[n].value \in Values
  <2>1. N \in Nat /\ DOMAIN h = 1..N /\ \A n \in 1..N : h[n] \in Headers
    OBVIOUS
  <2> QED
    BY <2>1 DEF Headers
<1>4. L \in Nat /\ DOMAIN lines = 1..L /\ \A i \in 1..L : lines[i] \in Lines
  BY <1>1
<1>5. x \in [1..L -> Int] /\ \A i \in 1..L : x[i] = LineSize(lines[i]) /\ x[i] \in Int
  <2>1. ASSUME NEW line \in Lines PROVE LineSize(line) \in Int
    BY SizeType DEF Lines, LineSize, Field, More
  <2> QED
    BY <1>4, <2>1
<1>6. PICK f \in [0..L -> Int] : /\ f[0] = 0 /\ SumSeq(x) = f[L]
                                 /\ \A n \in 1..L : f[n] = f[n - 1] + x[n]
  <2> HIDE DEF x, L
  <2> QED
    BY <1>4, <1>5, SumOf
<1> HIDE DEF x, L
<1>7. ASSUME NEW n \in 1..N
      PROVE  /\ f[at[n]] = f[at[n - 1]] + (Size[h[n].key] + 2 + ValueSize(h[n].value) + 2)
             /\ ValueSize(h[n].value) \in Int
             /\ Size[h[n].key] \in Int
  <2> DEFINE o == at[n - 1]
             k == h[n].key
             v == h[n].value
             s == [j \in 0..Len(v) |-> f[o + j]]
  <2>1. k \in Names /\ v \in Values /\ Len(v) \in Nat /\ Size[k] \in Int
    BY <1>3, SizeType DEF Values
  <2>2. /\ o \in Nat /\ at[n] = o + Len(v) /\ at[n] <= L
        /\ \A j \in 1..Len(v) : lines[o + j] = LineOf(k, v, j)
    <3>1. n - 1 \in 0..N
      OBVIOUS
    <3> QED
      BY <1>2, <3>1 DEF WrittenAt, L
  <2> HIDE DEF o, k, v
  <2>3. \A j \in 0..Len(v) : o + j \in 0..L /\ s[j] = f[o + j]
    BY <1>4, <2>1, <2>2
  <2>4. s \in [0..Len(v) -> Int]
    BY <1>6, <2>3
  <2>5. ASSUME NEW j \in 1..Len(v) PROVE s[j] = s[j - 1] + LineSize(LineOf(k, v, j))
    <3>1. o + j \in 1..L /\ (o + j) - 1 = o + (j - 1) /\ j \in 0..Len(v) /\ j - 1 \in 0..Len(v)
      BY <1>4, <2>1, <2>2
    <3>2. f[o + j] = f[(o + j) - 1] + x[o + j]
      BY <1>6, <3>1
    <3>3. x[o + j] = LineSize(LineOf(k, v, j))
      BY <1>5, <2>2, <3>1
    <3> QED
      BY <2>3, <3>1, <3>2, <3>3
  <2> HIDE DEF s
  <2>6. s[Len(v)] = s[0] + (Size[k] + 2 + ValueSize(v) + 2) /\ ValueSize(v) \in Int
    BY <2>1, <2>4, <2>5, HeaderSize
  <2>7. s[Len(v)] = f[at[n]] /\ s[0] = f[o]
    BY <2>1, <2>2, <2>3
  <2> QED
    BY <2>1, <2>6, <2>7 DEF o, k, v
<1>8. y \in [1..N -> Int] /\ \A n \in 1..N : f[at[n]] = f[at[n - 1]] + y[n]
  <2>1. ASSUME NEW n \in 1..N
        PROVE  /\ y[n] = Size[h[n].key] + 2 + ValueSize(h[n].value) + 2
               /\ Size[h[n].key] + 2 + ValueSize(h[n].value) + 2 \in Int
    <3>1. y[n] = Size[h[n].key] + 2 + ValueSize(h[n].value) + 2
      BY <1>3
    <3>2. ValueSize(h[n].value) \in Int /\ Size[h[n].key] \in Int
      BY <1>7
    <3> QED
      BY <3>1, <3>2
  <2>2. y \in [1..N -> Int]
    BY <1>3, <2>1
  <2> HIDE DEF y
  <2> QED
    BY <1>7, <2>1, <2>2
<1>9. PICK g \in [0..N -> Int] : /\ g[0] = 0 /\ SumSeq(y) = g[N]
                                 /\ \A n \in 1..N : g[n] = g[n - 1] + y[n]
  <2> HIDE DEF y, N
  <2> QED
    BY <1>3, <1>8, SumOf
<1>10. GetTotalLength(h) = g[N]
  BY <1>9 DEF GetTotalLength
<1> HIDE DEF y
<1> DEFINE c == [n \in 0..N |-> f[at[n]]]
<1>11. c[N] = g[N]
  <2>1. c[0] = g[0] /\ \A n \in 1..N : c[n] = c[n - 1] + y[n]
    BY <1>2, <1>3, <1>6, <1>8, <1>9 DEF WrittenAt
  <2> HIDE DEF c, N
  <2>2. \A n \in 1..N : c[n - 1] = g[n - 1] => c[n] = g[n]
    BY <1>9, <2>1
  <2> QED
    BY <1>3, <2>1, <2>2, SameLoop
<1>12. c[N] = f[L]
  BY <1>2, <1>3 DEF WrittenAt, L
<1> QED
  BY <1>6, <1>10, <1>11, <1>12 DEF x, lines
=============================================================================
