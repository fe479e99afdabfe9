------------------------- MODULE HttpExchangeProofs -------------------------
(***************************************************************************)
(* Proofs about what travels on the sockets of a connection thread, for    *)
(* any requests, responses, names and texts, however the streams are cut.  *)
(***************************************************************************)
EXTENDS HttpExchange, HttpHeadersProofs, SequenceTheorems, FiniteSetTheorems

----------------------------------------------------------------------------
(* The inductive invariant. *)

\* u is line j of the request r, or what is left of that line when its start was
\* dropped; of the empty line at the end nothing is left that reads as a request.
IsOf(u, r, j) ==
  \/ u = r[j]
  \/ u = Lf
  \/ j < Len(r) /\ u \in {Torn} \cup ReadsAsRequest

\* The stream q has at its i-th unit line j of the request r, or what is left of
\* it, and behind that all the lines of r that follow.
TailAt(q, i, r, j) ==
  /\ IsOf(q[i], r, j)
  /\ i + (Len(r) - j) <= Len(q)
  /\ \A n \in j+1..Len(r) : q[i + (n - j)] = r[n]

\* Every unit on the stream q begins the rest of one of the requests s.  What is
\* cut off or dropped is always at the start of the stream.
WholeRequests(q, s) ==
  \A i \in DOMAIN q : \E m \in DOMAIN s : \E j \in DOMAIN s[m] : TailAt(q, i, s[m], j)

StreamOK == WholeRequests(IF pc = "request" THEN data \o cin ELSE cin, sent)

\* As far as both go, d is the request r from line j on.
Agree(d, r, j) ==
  /\ IsOf(d[1], r, j)
  /\ \A n \in j+1..Len(r) : 1 + (n - j) \in DOMAIN d => d[1 + (n - j)] = r[n]

\* What was read for a request is the rest of what the client sent, from some
\* line on, as far as it goes.
HeadOK ==
  /\ pc \in {"requestLine", "requestHeaders", "forward"}
  /\ data # << >>
  => \E m \in DOMAIN sent : \E j \in DOMAIN sent[m] : Agree(data, sent[m], j)

\* Nothing of the origin's response gets lost or out of order.
ResponseOK ==
  /\ pc \in {"header", "statusLine", "responseHeaders", "body", "answer"} =>
       origin \in Responses /\ origin = (data \o body) \o rin
  /\ pc \in {"request", "requestLine", "requestHeaders", "forward", "header",
             "statusLine", "responseHeaders"} => body = << >>
  /\ pc \in {"statusLine", "responseHeaders", "body", "answer"} => HasEnd(data)

Parsing == {"requestHeaders", "forward", "responseHeaders", "body", "answer"}

\* ParseHeaders has passed header lines only, behind the first line.
PosOK ==
  /\ pc \in Parsing =>
       /\ pos >= 2 /\ pos <= Len(data) + 1
       /\ \A n \in Consumed : data[n].kind \in {"field", "more"}
  /\ pc \in {"requestHeaders", "forward"} => IsRequestLine(data[1])
  /\ pc \in {"forward", "body", "answer"} => HeaderEnd

\* Locals that nothing has set yet.
UnsetOK ==
  /\ pc \in {"request", "requestLine"} => m_host = NoHost
  /\ pc \in {"header", "statusLine"} => parser = NewParser(<< >>)

\* recv_nth counts down from Content-Length.
CountOK ==
  pc \in {"body", "answer"} =>
    /\ Number[FindHeader(parser.headers, "Content-Length")[1]]
         \in {length + Len(body), NotANumber}
    /\ pc = "body" <=> length > 0

\* Line n is a field of the name k; line i is the last one.
IsField(k, n) == data[n].kind = "field" /\ data[n].name = k
IsLastField(k, i) ==
  i \in Consumed /\ IsField(k, i) /\ \A n \in Consumed : IsField(k, n) => n <= i

\* The lines up to j, and no more, continue line i.
IsEnd(i, j) ==
  /\ j \in Consumed /\ j >= i
  /\ Continues(i, j)
  /\ \A n \in Consumed : n > j => ~Continues(i, n)

\* The texts of lines i to j.
TextOf(i, j) == [n \in 1..j-i+1 |-> data[i+n-1].text]

\* The list has for the name k what the lines say.
Reads(k) ==
  \/ /\ \A n \in Consumed : ~IsField(k, n)
     /\ FindHeader(parser.headers, k) = DefaultOf(k)
  \/ \E i, j \in Consumed :
       /\ IsLastField(k, i) /\ IsEnd(i, j)
       /\ FindHeader(parser.headers, k) = TextOf(i, j)

\* key and value are those of the header that the next line may continue.
Current ==
  /\ Consumed = {} => parser.key = ""
  /\ Consumed # {} => \E i \in Consumed : /\ IsLastField(parser.key, i)
                                          /\ Continues(i, pos - 1)
                                          /\ parser.value = TextOf(i, pos - 1)

ParseOK == pc \in Parsing => Current /\ \A k \in Names : Reads(k)

\* The inductive invariant.
IInv ==
  /\ TypeOK
  /\ KeysUnique
  /\ StreamOK
  /\ HeadOK
  /\ ResponseOK
  /\ PosOK
  /\ UnsetOK
  /\ CountOK
  /\ ParseOK

----------------------------------------------------------------------------
(* Messages and streams are sequences of units. *)

\* A request is a sequence of units: a first line, header lines, and an empty
\* line at its end.
LEMMA RequestFacts ==
  ASSUME NEW r \in Requests
  PROVE  /\ r \in Seq(Units) /\ Len(r) >= 2
         /\ r[1].kind = "request" => r[1].host \in Hosts /\ r[1].port \in Ports
         /\ r[1].kind # "reads"
         /\ \A i \in 2..Len(r) : /\ IsHeaderLine(r[i])
                                 /\ ~IsRequestLine(r[i])
                                 /\ r[i].kind = "blank" <=> i = Len(r)
<1>1. IsRequest(r)
  BY MessagesAssumption
<1>2. Range(r) \subseteq Units
  BY DEF Units
<1>3. r \in Seq(Units)
  BY <1>1, <1>2, SeqMonotonic DEF IsRequest
<1> QED
  BY <1>1, <1>3 DEF IsRequest, IsHeaderLine, IsRequestLine

\* So is a response.
LEMMA ResponseFacts ==
  ASSUME NEW r \in Responses
  PROVE  /\ r \in Seq(Units)
         /\ \A i \in 2..Len(r) : IsHeaderLine(r[i]) \/ r[i].kind = "piece"
         /\ \A i, j \in DOMAIN r : r[i].kind = "blank" => (r[j].kind = "piece" <=> j > i)
<1>1. IsResponse(r)
  BY MessagesAssumption
<1>2. Range(r) \subseteq Units
  BY DEF Units
<1>3. r \in Seq(Units)
  BY <1>1, <1>2, SeqMonotonic DEF IsResponse
<1> QED
  BY <1>1, <1>3 DEF IsResponse

\* The units of two sequences put together.
LEMMA ConcatUnits ==
  ASSUME NEW S, NEW d \in Seq(S), NEW c \in Seq(S)
  PROVE  /\ d \o c \in Seq(S) /\ Len(d \o c) = Len(d) + Len(c)
         /\ \A i \in DOMAIN d : i \in DOMAIN (d \o c) /\ (d \o c)[i] = d[i]
         /\ \A i \in DOMAIN c : (d \o c)[Len(d) + i] = c[i]
         /\ \A i \in DOMAIN (d \o c) : i \in DOMAIN d \/ i - Len(d) \in DOMAIN c
<1>1. Len(d) \in Nat /\ Len(c) \in Nat /\ DOMAIN d = 1..Len(d) /\ DOMAIN c = 1..Len(c)
  OBVIOUS
<1>2. /\ d \o c \in Seq(S) /\ Len(d \o c) = Len(d) + Len(c)
      /\ \A i \in 1..Len(d) + Len(c) :
           (d \o c)[i] = IF i <= Len(d) THEN d[i] ELSE c[i - Len(d)]
  BY ConcatProperties
<1>3. DOMAIN (d \o c) = 1..Len(d) + Len(c)
  BY <1>2
<1>4. ASSUME NEW i \in DOMAIN c PROVE (d \o c)[Len(d) + i] = c[i]
  BY <1>1, <1>2, <1>4
<1> QED
  BY <1>1, <1>2, <1>3, <1>4

\* The first of two streams is where it was.
LEMMA ConcatFirst ==
  ASSUME NEW d \in Seq(Units), NEW c \in Seq(Units), NEW e, e = d \o c
  PROVE  /\ e \in Seq(Units) /\ Len(e) = Len(d) + Len(c)
         /\ \A i \in DOMAIN d : i \in DOMAIN e /\ e[i] = d[i]
  BY ConcatUnits

\* Putting streams together is associative.
LEMMA Assoc ==
  ASSUME NEW a \in Seq(Units), NEW b \in Seq(Units), NEW c \in Seq(Units)
  PROVE  (a \o b) \o c = a \o (b \o c)
  BY ConcatAssociative

\* A recv splits the stream: what it returns and the rest are all of it.
LEMMA Split ==
  ASSUME NEW S, NEW c \in Seq(S), NEW n \in Nat, n <= Len(c)
  PROVE  LET got == SubSeq(c, 1, n)
             left == SubSeq(c, n + 1, Len(c))
         IN /\ got \in Seq(S) /\ left \in Seq(S)
            /\ Len(got) = n /\ Len(left) = Len(c) - n
            /\ \A i \in 1..(Len(c) - n) : left[i] = c[i + n]
            /\ got \o left = c
<1> DEFINE got == SubSeq(c, 1, n)
           left == SubSeq(c, n + 1, Len(c))
<1>1. Len(c) \in Nat /\ DOMAIN c = 1..Len(c)
  OBVIOUS
<1>2. /\ got \in Seq(S) /\ Len(got) = n
      /\ \A i \in 1..n : got[i] = c[i]
  <2>1. \A i \in 1..n : c[i] \in S
    BY <1>1, ElementOfSeq
  <2> QED
    BY <2>1, SubSeqProperties
<1>3. /\ left \in Seq(S) /\ Len(left) = Len(c) - n
      /\ \A i \in 1..(Len(c) - n) : left[i] = c[i + n]
  <2>1. \A i \in n + 1..Len(c) : c[i] \in S
    BY <1>1, ElementOfSeq
  <2>2. /\ left \in Seq(S)
        /\ Len(left) = IF n + 1 <= Len(c) THEN Len(c) - (n + 1) + 1 ELSE 0
        /\ \A i \in 1..(Len(c) - (n + 1) + 1) : left[i] = c[(n + 1) + i - 1]
    BY <1>1, <2>1, SubSeqProperties
  <2> HIDE DEF left
  <2>3. Len(left) = Len(c) - n /\ Len(c) - (n + 1) + 1 = Len(c) - n
    <3>1. ASSUME NEW a \in Nat, n <= a
          PROVE  /\ (IF n + 1 <= a THEN a - (n + 1) + 1 ELSE 0) = a - n
                 /\ a - (n + 1) + 1 = a - n
      BY <3>1
    <3> QED
      BY <1>1, <2>2, <3>1, Zenon
  <2>4. ASSUME NEW i \in 1..(Len(c) - n) PROVE left[i] = c[i + n]
    <3>1. (n + 1) + i - 1 = i + n
      BY <1>1
    <3> QED
      BY <2>2, <2>3, <3>1
  <2> QED
    BY <2>2, <2>3, <2>4
<1> HIDE DEF got, left
<1>4. /\ got \o left \in Seq(S) /\ Len(got \o left) = Len(c)
      /\ \A i \in 1..Len(c) : (got \o left)[i] = IF i <= n THEN got[i] ELSE left[i - n]
  <2>1. /\ got \o left \in Seq(S) /\ Len(got \o left) = Len(got) + Len(left)
        /\ \A i \in 1..Len(got) + Len(left) :
             (got \o left)[i] = IF i <= Len(got) THEN got[i] ELSE left[i - Len(got)]
    <3>1. got \in Seq(S) /\ left \in Seq(S)
      BY <1>2, <1>3
    <3> QED
      BY <3>1, ConcatProperties
  <2>2. Len(got) + Len(left) = Len(c)
    BY <1>1, <1>2, <1>3
  <2> QED
    BY <1>2, <2>1, <2>2
<1>5. \A i \in 1..Len(c) : (got \o left)[i] = c[i]
  BY <1>1, <1>2, <1>3, <1>4
<1>6. got \o left = c
  BY <1>1, <1>4, <1>5, SeqEqual
<1> QED
  BY <1>2, <1>3, <1>6 DEF got, left

----------------------------------------------------------------------------
(* What the client has sent, on its way. *)

\* What is left of a line, or of what was left of it already.
LEMMA RemainsOf ==
  ASSUME NEW r \in Requests, NEW j \in DOMAIN r, NEW u, NEW v,
         IsOf(u, r, j), v \in Remains(u)
  PROVE  IsOf(v, r, j)
<1>1. CASE v = Lf
  BY <1>1 DEF IsOf
<1>2. CASE v # Lf
  <2>1. u.kind # "lf" /\ u.kind # "blank" /\ v \in {Torn} \cup ReadsAsRequest
    BY <1>2 DEF Remains, ReadsAsRequest
  <2>2. u # Lf
    BY <2>1 DEF Lf
  <2>3. /\ Len(r) >= 2 /\ Len(r) \in Nat /\ DOMAIN r = 1..Len(r)
        /\ r[Len(r)].kind = "blank"
    BY RequestFacts
  <2>4. j < Len(r)
    BY <2>1, <2>2, <2>3 DEF IsOf
  <2> QED
    BY <2>1, <2>4 DEF IsOf
<1> QED
  BY <1>1, <1>2

\* What is behind the first k units of a stream, the start of its first unit
\* perhaps dropped, has every line followed by the rest of its request.
LEMMA WholeSuffix ==
  ASSUME NEW q \in Seq(Units), NEW c \in Seq(Units), NEW s \in Seq(Requests), NEW k \in Nat,
         WholeRequests(q, s),
         Len(q) = k + Len(c),
         \A i \in DOMAIN c : c[i] = q[k + i] \/ (i = 1 /\ c[i] \in Remains(q[k + i]))
  PROVE  WholeRequests(c, s)
<1> SUFFICES ASSUME NEW i \in DOMAIN c
             PROVE  \E m \in DOMAIN s : \E j \in DOMAIN s[m] : TailAt(c, i, s[m], j)
  BY DEF WholeRequests
<1>1. /\ Len(c) \in Nat /\ DOMAIN c = 1..Len(c)
      /\ Len(q) \in Nat /\ DOMAIN q = 1..Len(q)
  OBVIOUS
<1>2. k + i \in DOMAIN q
  BY <1>1
<1>3. PICK m \in DOMAIN s : \E j \in DOMAIN s[m] : TailAt(q, k + i, s[m], j)
  BY <1>2 DEF WholeRequests
<1>4. PICK j \in DOMAIN s[m] : TailAt(q, k + i, s[m], j)
  BY <1>3
<1>5. s[m] \in Requests /\ DOMAIN s[m] = 1..Len(s[m]) /\ Len(s[m]) \in Nat
  BY RequestFacts
<1>6. i + (Len(s[m]) - j) <= Len(c)
  BY <1>1, <1>4, <1>5 DEF TailAt
<1>7. IsOf(c[i], s[m], j)
  <2>1. IsOf(q[k + i], s[m], j)
    BY <1>4 DEF TailAt
  <2> QED
    BY <1>5, <2>1, RemainsOf
<1>8. ASSUME NEW n \in j+1..Len(s[m]) PROVE c[i + (n - j)] = s[m][n]
  <2>1. q[(k + i) + (n - j)] = s[m][n]
    BY <1>4 DEF TailAt
  <2>2. /\ i + (n - j) \in 1..Len(c) /\ i + (n - j) # 1
        /\ k + (i + (n - j)) = (k + i) + (n - j)
    <3>1. i \in Nat /\ i >= 1 /\ j \in Nat /\ n \in Nat /\ n >= j + 1 /\ n <= Len(s[m])
      BY <1>1, <1>5
    <3> QED
      BY <1>1, <1>5, <1>6, <3>1
  <2> QED
    BY <1>1, <2>1, <2>2
<1> QED
  BY <1>6, <1>7, <1>8 DEF TailAt

\* A request is sent as a whole.
LEMMA WholeAppend ==
  ASSUME NEW q \in Seq(Units), NEW s \in Seq(Requests), NEW r \in Requests,
         WholeRequests(q, s)
  PROVE  WholeRequests(q \o r, Append(s, r))
<1> DEFINE t == q \o r
           a == Append(s, r)
<1>1. r \in Seq(Units) /\ Len(r) \in Nat /\ DOMAIN r = 1..Len(r)
  BY RequestFacts
<1>2. Len(q) \in Nat /\ DOMAIN q = 1..Len(q) /\ Len(s) \in Nat /\ DOMAIN s = 1..Len(s)
  OBVIOUS
<1>3. /\ t \in Seq(Units) /\ Len(t) = Len(q) + Len(r)
      /\ \A i \in DOMAIN q : t[i] = q[i]
      /\ \A i \in DOMAIN r : t[Len(q) + i] = r[i]
      /\ \A i \in DOMAIN t : i \in DOMAIN q \/ i - Len(q) \in DOMAIN r
  BY <1>1, ConcatUnits
<1>4. /\ \A m \in DOMAIN s : m \in DOMAIN a /\ a[m] = s[m]
      /\ Len(s) + 1 \in DOMAIN a /\ a[Len(s) + 1] = r
  BY <1>2, AppendProperties
<1> HIDE DEF t, a
<1> SUFFICES ASSUME NEW i \in DOMAIN t
             PROVE  \E m \in DOMAIN a : \E j \in DOMAIN a[m] : TailAt(t, i, a[m], j)
  BY DEF WholeRequests, t, a
<1>5. CASE i \in DOMAIN q
  <2>1. PICK m \in DOMAIN s : \E j \in DOMAIN s[m] : TailAt(q, i, s[m], j)
    BY <1>3, <1>5 DEF WholeRequests
  <2>2. PICK j \in DOMAIN s[m] : TailAt(q, i, s[m], j)
    BY <2>1
  <2>3. s[m] \in Seq(Units) /\ DOMAIN s[m] = 1..Len(s[m]) /\ Len(s[m]) \in Nat
    BY RequestFacts
  <2>4. \A n \in j+1..Len(s[m]) : i + (n - j) \in DOMAIN q
    BY <1>2, <1>5, <2>2, <2>3 DEF TailAt
  <2>5. t[i] = q[i] /\ Len(q) <= Len(t) /\ \A n \in j+1..Len(s[m]) : t[i + (n - j)] = s[m][n]
    BY <1>1, <1>2, <1>3, <1>5, <2>2, <2>4 DEF TailAt
  <2>6. i + (Len(s[m]) - j) <= Len(t)
    <3>1. i + (Len(s[m]) - j) <= Len(q)
      BY <2>2 DEF TailAt
    <3>2. i \in Nat /\ j \in Nat
      BY <1>2, <1>5, <2>3
    <3> QED
      BY <1>1, <1>2, <1>3, <2>3, <2>5, <3>1, <3>2
  <2>7. TailAt(t, i, s[m], j)
    BY <2>2, <2>5, <2>6 DEF TailAt
  <2> QED
    BY <1>4, <2>7
<1>6. CASE i - Len(q) \in DOMAIN r
  <2> DEFINE j == i - Len(q)
  <2>1. i \in Nat
    BY <1>3
  <2>2. i = Len(q) + j /\ j \in DOMAIN r /\ j \in Nat
    BY <1>1, <1>2, <1>6, <2>1
  <2> HIDE DEF j
  <2>3. t[i] = r[j]
    BY <1>3, <2>2
  <2>4. i + (Len(r) - j) <= Len(t)
    BY <1>1, <1>2, <1>3, <2>1, <2>2
  <2>5. ASSUME NEW n \in j+1..Len(r) PROVE t[i + (n - j)] = r[n]
    <3>1. n \in DOMAIN r /\ i + (n - j) = Len(q) + n
      BY <1>1, <1>2, <2>1, <2>2
    <3> QED
      BY <1>3, <3>1
  <2>6. TailAt(t, i, r, j)
    BY <2>3, <2>4, <2>5 DEF TailAt, IsOf
  <2> QED
    BY <1>4, <2>2, <2>6
<1> QED
  BY <1>3, <1>5, <1>6

\* What a recv leaves on the stream.
LEMMA RestFacts ==
  ASSUME NEW c \in Seq(Units), NEW n \in Nat, NEW cut \in Cuts, MayTake(c, n, cut)
  PROVE  /\ SubSeq(c, 1, n) \in Seq(Units)
         /\ SubSeq(c, n + 1, Len(c)) \in Seq(Units)
         /\ SubSeq(c, 1, n) \o SubSeq(c, n + 1, Len(c)) = c
         /\ Rest(c, n, cut) \in Seq(Units)
         /\ cut = Whole => Rest(c, n, cut) = SubSeq(c, n + 1, Len(c))
         /\ \A s \in Seq(Requests) : WholeRequests(c, s) => WholeRequests(Rest(c, n, cut), s)
<1> DEFINE left == SubSeq(c, n + 1, Len(c))
           rest == Rest(c, n, cut)
<1>1. Len(c) \in Nat /\ n <= Len(c) /\ DOMAIN c = 1..Len(c)
  BY DEF MayTake
<1>2. /\ SubSeq(c, 1, n) \in Seq(Units) /\ left \in Seq(Units)
      /\ Len(left) = Len(c) - n
      /\ SubSeq(c, 1, n) \o left = c
  BY <1>1, Split
<1>3. \A i \in DOMAIN left : left[i] = c[n + i]
  <2>1. /\ DOMAIN left = 1..(Len(c) - n)
        /\ \A i \in 1..(Len(c) - n) : left[i] = c[i + n] /\ i + n = n + i
    <3>1. \A i \in 1..(Len(c) - n) : left[i] = c[i + n]
      BY <1>1, Split
    <3> HIDE DEF left
    <3> QED
      BY <1>1, <1>2, <3>1
  <2> QED
    BY <2>1
<1> HIDE DEF left
<1>4. /\ rest \in Seq(Units) /\ Len(rest) = Len(left)
      /\ \A i \in DOMAIN rest : rest[i] = left[i] \/ (i = 1 /\ rest[i] \in Remains(left[i]))
      /\ cut = Whole => rest = left
  <2>1. CASE cut = Whole
    BY <1>2, <2>1 DEF Rest, left
  <2>2. CASE cut # Whole
    <3>1. n < Len(c) /\ cut \in Remains(c[n + 1])
      BY <2>2 DEF MayTake
    <3>2. left # << >> /\ 1 \in DOMAIN left /\ Len(left) \in Nat
      BY <1>1, <1>2, <3>1, LenProperties
    <3>3. /\ Tail(left) \in Seq(Units) /\ Len(Tail(left)) = Len(left) - 1
          /\ \A i \in 1..Len(Tail(left)) : Tail(left)[i] = left[i + 1]
      BY <1>2, <3>2, HeadTailProperties
    <3>4. cut \in Units /\ cut \in Remains(left[1])
      <4>1. cut \in Units
        BY <2>2 DEF Cuts, Units
      <4> QED
        BY <1>3, <3>1, <3>2, <4>1
    <3>5. rest = <<cut>> \o Tail(left)
      BY <2>2 DEF Rest, left
    <3>6. <<cut>> \in Seq(Units) /\ Len(<<cut>>) = 1 /\ <<cut>>[1] = cut
      BY <3>4
    <3>7. /\ rest \in Seq(Units) /\ Len(rest) = 1 + Len(Tail(left))
          /\ \A i \in 1..1 + Len(Tail(left)) :
               rest[i] = IF i <= 1 THEN <<cut>>[i] ELSE Tail(left)[i - 1]
      BY <3>3, <3>5, <3>6, ConcatProperties
    <3> HIDE DEF rest
    <3>8. DOMAIN rest = 1..Len(rest) /\ Len(rest) = Len(left)
      BY <3>2, <3>3, <3>7, LenProperties
    <3>9. ASSUME NEW i \in DOMAIN rest
          PROVE  rest[i] = left[i] \/ (i = 1 /\ rest[i] \in Remains(left[i]))
      <4>1. CASE i = 1
        BY <3>2, <3>4, <3>6, <3>7, <3>8, <4>1
      <4>2. CASE i # 1
        <5>1. i - 1 \in 1..Len(Tail(left)) /\ i \in 1..1 + Len(Tail(left)) /\ (i - 1) + 1 = i
          BY <3>2, <3>3, <3>8, <4>2
        <5>2. ~(i <= 1)
          BY <3>2, <3>8, <4>2
        <5>3. rest[i] = Tail(left)[i - 1]
          BY <3>7, <5>1, <5>2
        <5> QED
          BY <3>3, <5>1, <5>3
      <4> QED
        BY <4>1, <4>2
    <3> QED
      BY <2>2, <3>7, <3>8, <3>9
  <2> QED
    BY <2>1, <2>2
<1> HIDE DEF rest
<1>5. ASSUME NEW s \in Seq(Requests), WholeRequests(c, s) PROVE WholeRequests(rest, s)
  <2>1. Len(c) = n + Len(rest) /\ DOMAIN rest = DOMAIN left
    BY <1>1, <1>2, <1>4
  <2>2. \A i \in DOMAIN rest :
          rest[i] = c[n + i] \/ (i = 1 /\ rest[i] \in Remains(c[n + i]))
    <3>1. ASSUME NEW i \in DOMAIN rest
          PROVE  rest[i] = c[n + i] \/ (i = 1 /\ rest[i] \in Remains(c[n + i]))
      <4>1. left[i] = c[n + i]
        BY <1>3, <2>1
      <4>2. rest[i] = left[i] \/ (i = 1 /\ rest[i] \in Remains(left[i]))
        BY <1>4
      <4> QED
        BY <4>1, <4>2
    <3> QED
      BY <3>1
  <2> QED
    BY <1>4, <1>5, <2>1, <2>2, WholeSuffix
<1> QED
  BY <1>2, <1>4, <1>5 DEF left, rest

\* What was read agrees with the rest of a request.
LEMMA AgreeStart ==
  ASSUME NEW d \in Seq(Units), NEW c \in Seq(Units), NEW s \in Seq(Requests),
         WholeRequests(d \o c, s), d # << >>
  PROVE  \E m \in DOMAIN s : \E j \in DOMAIN s[m] : Agree(d, s[m], j)
<1> DEFINE q == d \o c
<1>1. Len(d) \in Nat /\ DOMAIN d = 1..Len(d) /\ 1 \in DOMAIN d
  BY EmptySeq
<1>2. \A i \in DOMAIN d : i \in DOMAIN q /\ q[i] = d[i]
  BY ConcatUnits
<1> HIDE DEF q
<1>3. PICK m \in DOMAIN s : \E j \in DOMAIN s[m] : TailAt(q, 1, s[m], j)
  BY <1>1, <1>2 DEF WholeRequests, q
<1>4. PICK j \in DOMAIN s[m] : TailAt(q, 1, s[m], j)
  BY <1>3
<1>5. IsOf(d[1], s[m], j)
  BY <1>1, <1>2, <1>4 DEF TailAt
<1>6. ASSUME NEW n \in j+1..Len(s[m]), 1 + (n - j) \in DOMAIN d
      PROVE  d[1 + (n - j)] = s[m][n]
  BY <1>2, <1>4, <1>6 DEF TailAt
<1> QED
  BY <1>5, <1>6 DEF Agree

\* A stream whose start was read.
LEMMA WholeBehind ==
  ASSUME NEW d \in Seq(Units), NEW c \in Seq(Units), NEW s \in Seq(Requests),
         WholeRequests(d \o c, s)
  PROVE  WholeRequests(c, s)
<1>1. d \o c \in Seq(Units) /\ Len(d \o c) = Len(d) + Len(c) /\ Len(d) \in Nat
  BY ConcatUnits
<1>2. \A i \in DOMAIN c : c[i] = (d \o c)[Len(d) + i]
  BY ConcatUnits
<1>3. ASSUME NEW q \in Seq(Units), NEW k \in Nat, WholeRequests(q, s),
             Len(q) = k + Len(c), \A i \in DOMAIN c : c[i] = q[k + i]
      PROVE  WholeRequests(c, s)
  <2>1. \A i \in DOMAIN c : c[i] = q[k + i] \/ (i = 1 /\ c[i] \in Remains(q[k + i]))
    BY <1>3
  <2>2. WholeRequests(q, s) /\ Len(q) = k + Len(c)
    BY <1>3
  <2> HIDE <1>3
  <2> QED
    BY <2>1, <2>2, WholeSuffix
<1> QED
  BY <1>1, <1>2, <1>3, Zenon

----------------------------------------------------------------------------
(* The steps. *)

\* A request ends: the locals of the loop's body are gone.
Finishes ==
  /\ Reset
  /\ pc' \in {"request", "closed", "terminated"}
  /\ UNCHANGED <<sent, cin, persistent>>

\* Only the way out is chosen.
Stops ==
  /\ pc' \in {"error", "terminated"}
  /\ answer' \in {"none", "400", "408", "501"}
  /\ UNCHANGED <<sent, cin, origin, rin, persistent, data, parser, pos, reqVars,
                 length, body>>

\* Every step is one of these.
LEMMA Steps ==
  ASSUME TypeOK, Next
  PROVE  \/ \E r \in Requests : ClientSends(r)
         \/ \E n \in Nat, cut \in Cuts : RecvRequest(n, cut) \/ RecvRequestEagain(n, cut)
         \/ \E n \in Nat : RecvHeader(n) \/ RecvBody(n)
         \/ Finishes
         \/ Stops
         \/ RequestLine
         \/ \E from \in {"requestHeaders", "responseHeaders"} : HeaderLine(from)
         \/ RequestHeadersDone
         \/ \E r \in Responses : Forward(r)
         \/ StatusLine
         \/ ResponseHeadersDone
<1>1. MaxChunk \in Nat
  BY HttpExchangeAssumption
<1>2. ASSUME NEW from, Abandon(from) PROVE Finishes
  BY <1>2 DEF Abandon, Finishes
<1>3. ASSUME NEW from, NEW status \in {"400", "408", "501"}, Refuse(from, status) PROVE Stops
  BY <1>3 DEF Refuse, Stops
<1>4. CASE Proceed
  <2>1. CASE RequestLineBad
    BY <1>3, <2>1 DEF RequestLineBad
  <2>2. CASE RequestLineBadPort
    BY <2>2 DEF RequestLineBadPort, Stops, TypeOK
  <2>3. CASE RequestHeadersBad
    BY <1>3, <2>3 DEF RequestHeadersBad
  <2>4. CASE StatusLineBad \/ ResponseHeadersBad \/ MissingLength
    BY <1>2, <2>4 DEF StatusLineBad, ResponseHeadersBad, MissingLength
  <2>5. CASE Answer \/ AnswerError
    BY <2>5 DEF Answer, AnswerError, LoopEnd, Finishes
  <2> QED
    BY <1>1, <1>4, <2>1, <2>2, <2>3, <2>4, <2>5 DEF Proceed
<1>5. CASE Environment
  <2>1. CASE RecvEagain
    BY <1>3, <2>1 DEF RecvEagain
  <2>2. CASE RecvFails \/ ForwardFails \/ AnswerFails
    BY <1>2, <2>2 DEF RecvFails, ForwardFails, AnswerFails
  <2>3. CASE AnswerErrorFails
    BY <2>3 DEF AnswerErrorFails, Finishes
  <2> QED
    BY <1>1, <1>5, <2>1, <2>2, <2>3 DEF Environment
<1> QED
  BY <1>4, <1>5 DEF Next

\* A type for each variable.
LEMMA Types ==
  ASSUME TypeOK
  PROVE  /\ sent \in Seq(Requests) /\ cin \in Seq(Units) /\ rin \in Seq(Units)
         /\ data \in Seq(Units) /\ body \in Seq(Units)
         /\ parser \in Parsers /\ parser.headers \in Seq(Headers)
         /\ pos \in Nat /\ length \in Int
         /\ Len(data) \in Nat /\ DOMAIN data = 1..Len(data)
  BY DEF TypeOK, Parsers

\* The client's bytes that were not received yet.
LEMMA CinWhole ==
  ASSUME TypeOK, StreamOK
  PROVE  WholeRequests(cin, sent)
<1> USE Types
<1>1. CASE pc = "request"
  BY <1>1, WholeBehind DEF StreamOK
<1>2. CASE pc # "request"
  BY <1>2 DEF StreamOK
<1> QED
  BY <1>1, <1>2

\* A new list has one header per name.
LEMMA StartParser ==
  NewParser(<< >>) \in Parsers /\ Unique(NewParser(<< >>).headers)
  BY NoHeaders, NewParserFacts

\* The lines stay what they are.
LEMMA SameLines ==
  ASSUME data' = data
  PROVE  /\ \A k, n : IsField(k, n)' <=> IsField(k, n)
         /\ \A i, j : Continues(i, j)' <=> Continues(i, j)
         /\ \A i, j : TextOf(i, j)' = TextOf(i, j)
  BY DEF IsField, Continues, TextOf

\* What has been parsed stays parsed.
LEMMA ParseFrame ==
  ASSUME ParseOK, UNCHANGED <<data, pos, parser, m_host, m_port>>,
         pc' \in Parsing =>
           /\ pc \in Parsing
           /\ pc \in {"requestHeaders", "forward"} <=> pc' \in {"requestHeaders", "forward"}
  PROVE  ParseOK'
<1> SUFFICES ASSUME pc' \in Parsing
             PROVE  Current' /\ \A k \in Names : Reads(k)'
  BY DEF ParseOK
<1>1. Consumed' = Consumed
  BY DEF Consumed
<1>2. \A k : DefaultOf(k)' = DefaultOf(k)
  BY DEF DefaultOf
<1>3. \A k, i : IsLastField(k, i)' <=> IsLastField(k, i)
  BY <1>1, SameLines DEF IsLastField
<1>4. \A i, j : IsEnd(i, j)' <=> IsEnd(i, j)
  BY <1>1, SameLines DEF IsEnd
<1>5. Current'
  BY <1>1, <1>3, SameLines DEF ParseOK, Current
<1>6. ASSUME NEW k \in Names PROVE Reads(k)'
  BY <1>1, <1>2, <1>3, <1>4, SameLines DEF ParseOK, Reads
<1> QED
  BY <1>5, <1>6

\* In the first state.
LEMMA InitIInv ==
  ASSUME Init
  PROVE  IInv
<1>1. TypeOK
  BY StartParser DEF Init, TypeOK, Alive, Parsers
<1>2. KeysUnique
  BY StartParser DEF Init, KeysUnique, Unique
<1>3. StreamOK
  <2>1. << >> \o << >> = << >>
    BY ConcatEmptySeq, EmptySeq
  <2> QED
    BY <2>1 DEF Init, StreamOK, WholeRequests
<1>4. HeadOK /\ ResponseOK /\ PosOK /\ UnsetOK /\ CountOK /\ ParseOK
  BY DEF Init, HeadOK, ResponseOK, PosOK, UnsetOK, CountOK, ParseOK, Parsing
<1> QED
  BY <1>1, <1>2, <1>3, <1>4 DEF IInv

\* The client writes a request.
LEMMA ClientSendsKeeps ==
  ASSUME IInv, NEW r \in Requests, ClientSends(r)
  PROVE  IInv'
<1> USE Types DEF IInv
<1>1. r \in Seq(Units)
  BY RequestFacts
<1>2. UNCHANGED <<origin, rin, pc, persistent, data, parser, pos, m_host, m_port,
                  length, body, answer>>
  BY DEF ClientSends, reqVars
<1>3. sent' = Append(sent, r) /\ cin' = cin \o r
  BY DEF ClientSends
<1>4. /\ sent' \in Seq(Requests)
      /\ \A m \in DOMAIN sent : m \in DOMAIN sent' /\ sent'[m] = sent[m]
  BY <1>3, AppendProperties, LenProperties
<1>5. TypeOK'
  BY <1>1, <1>2, <1>3, <1>4, ConcatUnits DEF TypeOK
<1>6. StreamOK'
  <2>1. CASE pc = "request"
    <3>1. data \o cin \in Seq(Units) /\ (data \o cin) \o r = data \o cin'
      <4>1. data \o cin \in Seq(Units)
        BY ConcatUnits
      <4>2. (data \o cin) \o r = data \o (cin \o r)
        <5>1. data \in Seq(Units) /\ cin \in Seq(Units)
          BY Types
        <5>2. r \in Seq(Units)
          BY <1>1
        <5> HIDE DEF IInv
        <5> QED
          BY <5>1, <5>2, Assoc
      <4> QED
        BY <1>3, <4>1, <4>2
    <3>2. WholeRequests((data \o cin) \o r, sent')
      BY <1>3, <2>1, <3>1, WholeAppend DEF StreamOK
    <3> QED
      BY <1>2, <2>1, <3>1, <3>2 DEF StreamOK
  <2>2. CASE pc # "request"
    BY <1>2, <1>3, <2>2, CinWhole, WholeAppend DEF StreamOK
  <2> QED
    BY <2>1, <2>2
<1>7. HeadOK'
  <2>1. ASSUME NEW m \in DOMAIN sent, NEW j \in DOMAIN sent[m], Agree(data, sent[m], j)
        PROVE  m \in DOMAIN sent' /\ j \in DOMAIN sent'[m] /\ Agree(data', sent'[m], j)
    BY <1>2, <1>4, <2>1 DEF Agree, IsOf
  <2>2. ASSUME \E m \in DOMAIN sent : \E j \in DOMAIN sent[m] : Agree(data, sent[m], j)
        PROVE  \E m \in DOMAIN sent' : \E j \in DOMAIN sent'[m] : Agree(data', sent'[m], j)
    BY <2>1, <2>2
  <2> QED
    BY <1>2, <2>2 DEF HeadOK
<1>8. KeysUnique' /\ ResponseOK' /\ PosOK' /\ UnsetOK' /\ CountOK'
  <2>1. KeysUnique' /\ UnsetOK'
    BY <1>2 DEF KeysUnique, UnsetOK
  <2>2. ResponseOK'
    BY <1>2 DEF ResponseOK
  <2>3. PosOK'
    BY <1>2 DEF PosOK, Consumed, HeaderEnd
  <2>4. CountOK'
    BY <1>2 DEF CountOK
  <2> QED
    BY <2>1, <2>2, <2>3, <2>4
<1>9. ParseOK'
  BY <1>2, ParseFrame
<1> QED
  BY <1>5, <1>6, <1>7, <1>8, <1>9

\* A request ends.
LEMMA FinishesKeeps ==
  ASSUME IInv, Finishes
  PROVE  IInv'
<1> USE DEF IInv
<1>1. /\ data' = << >> /\ body' = << >> /\ parser' = NewParser(<< >>) /\ pos' = 1
      /\ m_host' = NoHost /\ m_port' = 0 /\ origin' = << >> /\ rin' = << >>
      /\ length' = 0 /\ answer' = "none"
      /\ pc' \in {"request", "closed", "terminated"}
      /\ UNCHANGED <<sent, cin, persistent>>
  BY DEF Finishes, Reset
<1>2. TypeOK'
  BY <1>1, StartParser DEF TypeOK, Alive, Parsers
<1>3. KeysUnique'
  BY <1>1, StartParser DEF KeysUnique, Unique
<1>4. StreamOK'
  <2>1. << >> \o cin = cin
    BY Types, ConcatEmptySeq
  <2> QED
    BY <1>1, <2>1, CinWhole DEF StreamOK
<1>5. HeadOK' /\ ResponseOK' /\ PosOK' /\ UnsetOK' /\ CountOK' /\ ParseOK'
  BY <1>1 DEF HeadOK, ResponseOK, PosOK, UnsetOK, CountOK, ParseOK, Parsing
<1> QED
  BY <1>2, <1>3, <1>4, <1>5

\* An error response is to be sent, or the process ends.
LEMMA StopsKeeps ==
  ASSUME IInv, Stops
  PROVE  IInv'
<1> USE DEF IInv
<1>1. /\ UNCHANGED <<sent, cin, origin, rin, persistent, data, parser, pos, m_host, m_port,
                     length, body>>
      /\ pc' \in {"error", "terminated"}
      /\ answer' \in {"none", "400", "408", "501"}
  BY DEF Stops, reqVars
<1>2. TypeOK' /\ KeysUnique'
  BY <1>1 DEF TypeOK, Alive, KeysUnique
<1>3. StreamOK'
  BY <1>1, CinWhole DEF StreamOK
<1>4. HeadOK' /\ ResponseOK' /\ PosOK' /\ UnsetOK' /\ CountOK' /\ ParseOK'
  BY <1>1 DEF HeadOK, ResponseOK, PosOK, UnsetOK, CountOK, ParseOK, Parsing
<1> QED
  BY <1>2, <1>3, <1>4

\* The client's bytes arrive.
LEMMA RecvRequestKeeps ==
  ASSUME IInv, NEW n \in Nat, NEW cut \in Cuts, RecvRequest(n, cut)
  PROVE  IInv'
<1> DEFINE got == SubSeq(cin, 1, n)
           left == SubSeq(cin, n + 1, Len(cin))
<1> USE DEF IInv
<1>1. /\ UNCHANGED <<sent, origin, rin, persistent, parser, pos, m_host, m_port,
                     length, body, answer>>
      /\ pc = "request"
      /\ data' = data \o got
      /\ cin' = Rest(cin, n, cut)
      /\ pc' \in {"request", "requestLine"}
      /\ cut # Whole => pc' = "requestLine"
      /\ MayTake(cin, n, cut)
  BY DEF RecvRequest, RecvUntil, reqVars
<1>2. cin \in Seq(Units) /\ data \in Seq(Units) /\ sent \in Seq(Requests)
  BY Types
<1>3. /\ got \in Seq(Units) /\ left \in Seq(Units)
      /\ got \o left = cin
      /\ cin' \in Seq(Units)
      /\ cut = Whole => cin' = left
      /\ \A s \in Seq(Requests) : WholeRequests(cin, s) => WholeRequests(cin', s)
  BY <1>1, <1>2, RestFacts
<1> HIDE DEF got, left
<1>4. data' \in Seq(Units)
  BY <1>1, <1>2, <1>3, ConcatUnits
<1>5. WholeRequests(data' \o left, sent)
  <2>1. (data \o got) \o left = data \o (got \o left)
    BY <1>2, <1>3, Assoc
  <2>2. data' \o left = data \o cin
    BY <1>1, <1>3, <2>1
  <2> QED
    BY <1>1, <2>2 DEF StreamOK
<1>6. TypeOK'
  BY <1>1, <1>3, <1>4 DEF TypeOK, Alive
<1>7. StreamOK'
  <2>1. CASE pc' = "request"
    BY <1>1, <1>3, <1>5, <2>1 DEF StreamOK
  <2>2. CASE pc' # "request"
    BY <1>1, <1>2, <1>3, <2>2, CinWhole DEF StreamOK
  <2> QED
    BY <2>1, <2>2
<1>8. HeadOK'
  BY <1>1, <1>2, <1>3, <1>4, <1>5, AgreeStart DEF HeadOK
<1>9. KeysUnique' /\ ResponseOK' /\ PosOK' /\ UnsetOK' /\ CountOK' /\ ParseOK'
  BY <1>1 DEF KeysUnique, ResponseOK, PosOK, UnsetOK, CountOK, ParseOK, Parsing
<1> QED
  BY <1>6, <1>7, <1>8, <1>9

\* Some of them are lost in the EAGAIN test.
LEMMA RecvRequestEagainKeeps ==
  ASSUME IInv, NEW n \in Nat, NEW cut \in Cuts, RecvRequestEagain(n, cut)
  PROVE  IInv'
<1> USE DEF IInv
<1>1. /\ UNCHANGED <<sent, origin, rin, persistent, data, parser, pos, m_host, m_port,
                     length, body, answer>>
      /\ pc = "request" /\ pc' = "requestLine"
      /\ cin' = Rest(cin, n, cut)
      /\ MayTake(cin, n, cut)
  BY DEF RecvRequestEagain, reqVars
<1>2. cin \in Seq(Units) /\ data \in Seq(Units) /\ sent \in Seq(Requests)
  BY Types
<1>3. /\ cin' \in Seq(Units)
      /\ \A s \in Seq(Requests) : WholeRequests(cin, s) => WholeRequests(cin', s)
  BY <1>1, <1>2, RestFacts
<1>4. TypeOK'
  BY <1>1, <1>3 DEF TypeOK, Alive
<1>5. StreamOK'
  BY <1>1, <1>2, <1>3, CinWhole DEF StreamOK
<1>6. HeadOK'
  BY <1>1, <1>2, AgreeStart DEF HeadOK, StreamOK
<1>7. KeysUnique' /\ ResponseOK' /\ PosOK' /\ UnsetOK' /\ CountOK' /\ ParseOK'
  BY <1>1 DEF KeysUnique, ResponseOK, PosOK, UnsetOK, CountOK, ParseOK, Parsing
<1> QED
  BY <1>4, <1>5, <1>6, <1>7

\* The origin's bytes arrive: the header ...
LEMMA RecvHeaderKeeps ==
  ASSUME IInv, NEW n \in Nat, RecvHeader(n)
  PROVE  IInv'
<1> DEFINE got == SubSeq(rin, 1, n)
           left == SubSeq(rin, n + 1, Len(rin))
<1> USE DEF IInv
<1>1. /\ UNCHANGED <<sent, cin, origin, persistent, parser, pos, m_host, m_port,
                     length, body, answer>>
      /\ pc = "header"
      /\ data' = data \o got /\ rin' = left
      /\ n <= Len(rin)
      /\ pc' \in {"header", "statusLine"}
      /\ pc' = "statusLine" => HasEnd(data')
  BY DEF RecvHeader, RecvUntil, reqVars
<1>2. rin \in Seq(Units) /\ data \in Seq(Units)
  BY Types
<1>3. got \in Seq(Units) /\ left \in Seq(Units) /\ got \o left = rin
  BY <1>1, <1>2, Split
<1> HIDE DEF got, left
<1>4. data' \in Seq(Units)
  BY <1>1, <1>2, <1>3, ConcatUnits
<1>5. TypeOK'
  BY <1>1, <1>3, <1>4 DEF TypeOK, Alive
<1>6. StreamOK'
  BY <1>1, CinWhole DEF StreamOK
<1>7. ResponseOK'
  <2>1. (data \o got) \o left = data \o (got \o left)
    BY <1>2, <1>3, Assoc
  <2>2. data \o << >> = data /\ data' \o << >> = data'
    BY <1>2, <1>4, ConcatEmptySeq
  <2>3. (data' \o << >>) \o rin' = (data \o << >>) \o rin
    BY <1>1, <1>3, <2>1, <2>2
  <2> QED
    BY <1>1, <2>3 DEF ResponseOK
<1>8. KeysUnique' /\ HeadOK' /\ PosOK' /\ UnsetOK' /\ CountOK' /\ ParseOK'
  BY <1>1 DEF KeysUnique, HeadOK, PosOK, UnsetOK, CountOK, ParseOK, Parsing
<1> QED
  BY <1>5, <1>6, <1>7, <1>8

\* The bytes a read of the body moves keep their place in the response.
LEMMA BodyMoves ==
  ASSUME data \in Seq(Units), body \in Seq(Units), NEW g \in Seq(Units), NEW l \in Seq(Units)
  PROVE  (data \o body) \o (g \o l) = (data \o (body \o g)) \o l
<1> DEFINE db == data \o body
<1>1. db \in Seq(Units)
  BY ConcatUnits
<1>2. db \o g = data \o (body \o g)
  BY Assoc, Zenon
<1> HIDE DEF db
<1>3. (db \o g) \o l = db \o (g \o l)
  BY <1>1, Assoc, Zenon
<1> QED
  BY <1>2, <1>3, Zenon DEF db

\* ... and the body.
LEMMA RecvBodyKeeps ==
  ASSUME IInv, NEW n \in Nat, RecvBody(n)
  PROVE  IInv'
<1> DEFINE got == SubSeq(rin, 1, n)
           left == SubSeq(rin, n + 1, Len(rin))
<1> USE DEF IInv
<1>1. /\ UNCHANGED <<sent, cin, origin, persistent, data, parser, pos, m_host, m_port, answer>>
      /\ pc = "body"
      /\ body' = body \o got /\ rin' = left
      /\ n <= Len(rin)
      /\ length' = length - n
      /\ pc' = IF length' > 0 THEN "body" ELSE "answer"
  BY DEF RecvBody, reqVars
<1>2. rin \in Seq(Units) /\ data \in Seq(Units) /\ body \in Seq(Units) /\ length \in Int
  BY Types
<1>3. got \in Seq(Units) /\ left \in Seq(Units) /\ got \o left = rin /\ Len(got) = n
  BY <1>1, <1>2, Split
<1> HIDE DEF got, left
<1>4. body' \in Seq(Units) /\ Len(body') = Len(body) + n /\ Len(body) \in Nat
  <2>1. body \o got \in Seq(Units) /\ Len(body \o got) = Len(body) + Len(got)
    BY <1>2, <1>3, ConcatUnits
  <2> QED
    BY <1>1, <1>2, <1>3, <2>1
<1>5. TypeOK'
  BY <1>1, <1>2, <1>3, <1>4 DEF TypeOK, Alive
<1>6. StreamOK'
  BY <1>1, CinWhole DEF StreamOK
<1>7. ResponseOK'
  <2>1. data \in Seq(Units) /\ body \in Seq(Units) /\ got \in Seq(Units) /\ left \in Seq(Units)
    BY <1>2, <1>3
  <2>2. (data \o body) \o (got \o left) = (data \o (body \o got)) \o left
    BY <2>1, BodyMoves
  <2>3. (data \o body) \o rin = (data \o body') \o rin'
    BY <1>1, <1>3, <2>2
  <2> QED
    BY <1>1, <2>3 DEF ResponseOK
<1>8. CountOK'
  BY <1>1, <1>2, <1>4 DEF CountOK
<1>9. KeysUnique' /\ HeadOK' /\ PosOK' /\ UnsetOK'
  BY <1>1 DEF KeysUnique, HeadOK, PosOK, UnsetOK, Parsing, Consumed, HeaderEnd
<1>10. ParseOK'
  BY <1>1, ParseFrame DEF Parsing
<1> QED
  BY <1>5, <1>6, <1>7, <1>8, <1>9, <1>10

----------------------------------------------------------------------------
(* Parsing. *)

\* A line of the request that is parsed, and the line of the client's request it is.
LineAt(m, j) ==
  /\ sent[m] \in Requests
  /\ Agree(data, sent[m], j)
  /\ j < Len(sent[m])
  /\ pos <= Len(data) => /\ j + (pos - 1) \in 2..Len(sent[m])
                         /\ data[pos] = sent[m][j + (pos - 1)]

\* The request that is parsed: the loop of ParseHeaders is not behind its end.
LEMMA ParsedRequest ==
  ASSUME IInv, pc \in {"requestHeaders", "forward"}
  PROVE  \E m \in DOMAIN sent : \E j \in DOMAIN sent[m] : LineAt(m, j)
<1> USE DEF IInv
<1>1. /\ pos \in Nat /\ pos >= 2 /\ pos <= Len(data) + 1
      /\ \A n \in Consumed : data[n].kind \in {"field", "more"}
      /\ IsRequestLine(data[1])
      /\ data \in Seq(Units) /\ Len(data) \in Nat /\ DOMAIN data = 1..Len(data)
      /\ sent \in Seq(Requests)
  BY Types DEF PosOK, Parsing
<1>2. data # << >>
  BY <1>1
<1>3. PICK m \in DOMAIN sent : \E j \in DOMAIN sent[m] : Agree(data, sent[m], j)
  BY <1>2 DEF HeadOK
<1>4. PICK j \in DOMAIN sent[m] : Agree(data, sent[m], j)
  BY <1>3
<1> DEFINE r == sent[m]
<1>5. r \in Requests
  BY <1>1
<1>6. Agree(data, r, j) /\ j \in DOMAIN r
  BY <1>4
<1> HIDE DEF r
<1>7. /\ Len(r) \in Nat /\ Len(r) >= 2 /\ DOMAIN r = 1..Len(r)
      /\ r[Len(r)].kind = "blank"
  BY <1>5, RequestFacts
<1>8. j \in Nat /\ j >= 1 /\ j <= Len(r)
  BY <1>6, <1>7
<1>9. j < Len(r)
  <2>1. IsOf(data[1], r, j)
    BY <1>6 DEF Agree
  <2>2. data[1].kind # "blank" /\ data[1] # Lf
    BY <1>1 DEF IsRequestLine, Lf
  <2> QED
    BY <1>7, <1>8, <2>1, <2>2 DEF IsOf
<1>10. ASSUME NEW i \in 2..Len(r) - j + 1, i \in DOMAIN data
       PROVE  data[i] = r[j + (i - 1)]
  <2>1. j + (i - 1) \in j+1..Len(r) /\ 1 + ((j + (i - 1)) - j) = i
    BY <1>7, <1>8
  <2> QED
    BY <1>6, <1>10, <2>1 DEF Agree
<1>11. ASSUME pos <= Len(data), j + (pos - 1) > Len(r) PROVE FALSE
  <2> DEFINE i == Len(r) - j + 1
  <2>1. i \in 2..Len(r) - j + 1 /\ i \in 2..pos - 1 /\ j + (i - 1) = Len(r) /\ i \in 1..Len(data)
    BY <1>1, <1>7, <1>8, <1>9, <1>11
  <2>2. data[i] = r[Len(r)]
    BY <1>1, <1>10, <2>1
  <2> QED
    BY <1>1, <1>7, <2>1, <2>2 DEF Consumed
<1>12. ASSUME pos <= Len(data)
       PROVE  j + (pos - 1) \in 2..Len(r) /\ data[pos] = r[j + (pos - 1)]
  <2>1. j + (pos - 1) <= Len(r)
    BY <1>1, <1>7, <1>8, <1>11, <1>12
  <2>2. /\ j + (pos - 1) \in 2..Len(r) /\ pos \in 2..Len(r) - j + 1
        /\ pos \in 1..Len(data)
    BY <1>1, <1>7, <1>8, <1>12, <2>1
  <2> QED
    BY <1>1, <1>10, <2>2
<1>13. LineAt(m, j)
  BY <1>5, <1>6, <1>9, <1>12 DEF LineAt, r
<1> QED
  BY <1>13

\* What was read of the origin's response.
LEMMA ReadResponse ==
  ASSUME IInv, pc \in {"statusLine", "responseHeaders"}
  PROVE  /\ origin \in Responses
         /\ \A i \in DOMAIN data : i \in DOMAIN origin /\ origin[i] = data[i]
<1> USE DEF IInv
<1>1. origin \in Responses /\ origin = (data \o body) \o rin /\ body = << >>
  BY DEF ResponseOK
<1>2. data \in Seq(Units) /\ rin \in Seq(Units)
  BY Types
<1>3. origin = data \o rin
  BY <1>1, <1>2, ConcatEmptySeq
<1> QED
  BY <1>1, <1>2, <1>3, ConcatUnits

\* The loop of ParseHeaders meets header lines only.
LEMMA LineFacts ==
  ASSUME IInv, NEW from \in {"requestHeaders", "responseHeaders"}, pc = from,
         pos <= Len(data), data[pos].kind # "blank"
  PROVE  IsHeaderLine(data[pos])
<1> USE DEF IInv
<1>1. /\ pos \in Nat /\ pos >= 2
      /\ \A n \in Consumed : data[n].kind \in {"field", "more"}
      /\ Len(data) \in Nat /\ DOMAIN data = 1..Len(data)
  BY Types DEF PosOK, Parsing
<1>2. CASE from = "requestHeaders"
  <2>1. PICK m \in DOMAIN sent : \E j \in DOMAIN sent[m] : LineAt(m, j)
    BY <1>2, ParsedRequest
  <2>2. PICK j \in DOMAIN sent[m] : LineAt(m, j)
    BY <2>1
  <2>3. /\ sent[m] \in Requests /\ j + (pos - 1) \in 2..Len(sent[m])
        /\ data[pos] = sent[m][j + (pos - 1)]
    BY <2>2 DEF LineAt
  <2>4. \A i \in 2..Len(sent[m]) : IsHeaderLine(sent[m][i])
    BY <2>3, RequestFacts
  <2> QED
    BY <2>3, <2>4
<1>3. CASE from = "responseHeaders"
  <2>1. /\ origin \in Responses
        /\ \A i \in DOMAIN data : i \in DOMAIN origin /\ origin[i] = data[i]
    BY <1>3, ReadResponse
  <2>2. PICK b \in DOMAIN data : b > 1 /\ data[b].kind = "blank"
    BY <1>3 DEF ResponseOK, HasEnd
  <2>3. /\ DOMAIN origin = 1..Len(origin) /\ Len(origin) \in Nat
        /\ \A i \in 2..Len(origin) : IsHeaderLine(origin[i]) \/ origin[i].kind = "piece"
        /\ \A i, j \in DOMAIN origin :
             origin[i].kind = "blank" => (origin[j].kind = "piece" <=> j > i)
    BY <2>1, ResponseFacts
  <2>4. pos \in DOMAIN data /\ pos \in DOMAIN origin /\ origin[pos] = data[pos]
    BY <1>1, <2>1
  <2>5. ASSUME origin[pos].kind = "piece" PROVE FALSE
    <3>1. b \in Consumed
      BY <1>1, <2>1, <2>2, <2>3, <2>4, <2>5 DEF Consumed
    <3> QED
      BY <1>1, <2>2, <3>1
  <2> QED
    BY <1>1, <2>3, <2>4, <2>5
<1> QED
  BY <1>2, <1>3

\* What ParseLine makes of the parser at a line "name: text".
LEMMA FieldRead ==
  ASSUME parser \in Parsers, Unique(parser.headers),
         NEW u, u.kind = "field", u.name \in Names, u.text \in Texts,
         parser' = ParseLine(parser, u)
  PROVE  /\ parser'.key = u.name /\ parser'.value = <<u.text>>
         /\ FindHeader(parser'.headers, u.name) = parser'.value
         /\ \A k : k # u.name => FindHeader(parser'.headers, k) = FindHeader(parser.headers, k)
  BY ParseFieldFacts, Zenon

\* The loop of ParseHeaders reads a line with a name: from now on that name's
\* value is the line's text.
LEMMA FieldKeeps ==
  ASSUME Current, \A k \in Names : Reads(k),
         parser \in Parsers, Unique(parser.headers),
         NEW at \in Nat, at >= 2, pos = at, pos' = at + 1,
         NEW key, NEW x,
         UNCHANGED <<pc, data, m_host, m_port>>,
         data[at].kind = "field", data[at].name = key, data[at].text = x,
         IsHeaderLine(data[at]),
         parser' = ParseLine(parser, data[at])
  PROVE  Current' /\ \A k \in Names : Reads(k)'
<1>1. Consumed' = Consumed \cup {at} /\ pos' - 1 = at /\ \A n \in Consumed : n \in Nat /\ n < at
  BY DEF Consumed
<1>2. \A k : DefaultOf(k)' = DefaultOf(k)
  BY DEF DefaultOf
<1>3. /\ parser'.key = key /\ parser'.value = <<x>>
      /\ FindHeader(parser'.headers, key) = <<x>>
      /\ \A k : k # key => FindHeader(parser'.headers, k) = FindHeader(parser.headers, k)
  <2>1. key \in Names /\ x \in Texts
    BY DEF IsHeaderLine
  <2>2. /\ parser'.key = data[at].name /\ parser'.value = <<data[at].text>>
        /\ FindHeader(parser'.headers, data[at].name) = parser'.value
        /\ \A k : k # data[at].name =>
                    FindHeader(parser'.headers, k) = FindHeader(parser.headers, k)
    BY <2>1, FieldRead
  <2> QED
    BY <2>2, Zenon
<1>4. IsField(key, at) /\ \A k : IsField(k, at) => k = key
  BY DEF IsField
<1>5. IsLastField(key, at)'
  BY <1>1, <1>4, SameLines DEF IsLastField
<1>6. Continues(at, at) /\ IsEnd(at, at)'
  <2>1. Continues(at, at)
    BY DEF Continues
  <2> QED
    BY <1>1, <2>1, SameLines DEF IsEnd
<1>7. TextOf(at, at)' = <<x>>
  <2>1. at - at + 1 = 1 /\ at + 1 - 1 = at
    OBVIOUS
  <2>2. TextOf(at, at) = <<x>>
    BY <2>1 DEF TextOf
  <2> QED
    BY <2>2, SameLines
<1>8. Current'
  BY <1>1, <1>3, <1>5, <1>6, <1>7, SameLines DEF Current
<1>9. ASSUME NEW k \in Names PROVE Reads(k)'
  <2>1. CASE k = key
    BY <1>1, <1>3, <1>5, <1>6, <1>7, <2>1 DEF Reads
  <2>2. CASE k # key
    <3>1. CASE /\ \A n \in Consumed : ~IsField(k, n)
               /\ FindHeader(parser.headers, k) = DefaultOf(k)
      BY <1>1, <1>2, <1>3, <1>4, <2>2, <3>1, SameLines DEF Reads
    <3>2. CASE \E i, j \in Consumed : /\ IsLastField(k, i) /\ IsEnd(i, j)
                                      /\ FindHeader(parser.headers, k) = TextOf(i, j)
      <4>1. PICK i, j \in Consumed : /\ IsLastField(k, i) /\ IsEnd(i, j)
                                     /\ FindHeader(parser.headers, k) = TextOf(i, j)
        BY <3>2
      <4>2. IsLastField(k, i)'
        BY <1>1, <1>4, <2>2, <4>1, SameLines DEF IsLastField
      <4>3. ~Continues(i, at)
        BY <1>1 DEF Continues
      <4>4. IsEnd(i, j)'
        BY <1>1, <4>1, <4>3, SameLines DEF IsEnd
      <4> QED
        BY <1>1, <1>3, <2>2, <4>1, <4>2, <4>4, SameLines DEF Reads
    <3> QED
      BY <3>1, <3>2 DEF Reads
  <2> QED
    BY <2>1, <2>2
<1> QED
  BY <1>8, <1>9

\* It reads a continuation line: its text is added to the value of the name
\* above it, and to no other.
LEMMA MoreKeeps ==
  ASSUME Current, \A k \in Names : Reads(k),
         parser \in Parsers, Unique(parser.headers),
         NEW at \in Nat, at >= 2, pos = at, pos' = at + 1,
         NEW key, NEW x \in Texts,
         UNCHANGED <<pc, data, m_host, m_port>>,
         data[at].kind = "more", data[at].text = x,
         parser.key = key, Consumed # {},
         parser' = ParseLine(parser, data[at])
  PROVE  Current' /\ \A k \in Names : Reads(k)'
<1>1. Consumed' = Consumed \cup {at} /\ pos' - 1 = at /\ \A n \in Consumed : n \in Nat /\ n < at
  BY DEF Consumed
<1>2. \A k : DefaultOf(k)' = DefaultOf(k)
  BY DEF DefaultOf
<1>3. /\ parser'.key = key
      /\ FindHeader(parser'.headers, key) = parser'.value
      /\ \A k : k # key => FindHeader(parser'.headers, k) = FindHeader(parser.headers, k)
  BY ParseMoreFacts
<1>4. \A k : ~IsField(k, at)
  BY DEF IsField
<1>5. PICK i \in Consumed : /\ IsLastField(key, i)
                            /\ Continues(i, at - 1)
                            /\ parser.value = TextOf(i, at - 1)
  BY DEF Current
<1>6. IsLastField(key, i)'
  BY <1>1, <1>4, <1>5, SameLines DEF IsLastField
<1>7. Continues(i, at)
  BY <1>1, <1>5 DEF Continues
<1>8. IsEnd(i, at)'
  BY <1>1, <1>5, <1>7, SameLines DEF IsEnd
<1>9. TextOf(i, at)' = parser'.value
  <2> DEFINE l == at - i
             f == TextOf(i, at - 1)
             g == TextOf(i, at)
  <2>1. /\ l \in Nat /\ (at - 1) - i + 1 = l /\ at - i + 1 = l + 1
        /\ i + (l + 1) - 1 = at
    BY <1>1, <1>5
  <2>2. DOMAIN f = 1..l /\ \A n \in 1..l : f[n] = data[i + n - 1].text
    BY <2>1 DEF TextOf
  <2>3. g = [n \in 1..(l + 1) |-> data[i + n - 1].text]
    BY <2>1 DEF TextOf
  <2>4. f \in Seq(Texts)
    BY <1>5 DEF Parsers, Values
  <2>5. parser'.value = Append(f, x)
    BY <1>5, ParseMoreFacts
  <2> HIDE DEF f, g, l
  <2>6. Len(f) = l
    BY <2>1, <2>2, <2>4, LenProperties
  <2>7. /\ Append(f, x) \in Seq(Texts) /\ Len(Append(f, x)) = l + 1
        /\ \A n \in 1..l : Append(f, x)[n] = f[n]
        /\ Append(f, x)[l + 1] = x
    BY <2>4, <2>6, AppendProperties
  <2>8. DOMAIN Append(f, x) = 1..(l + 1)
    BY <2>7, LenProperties
  <2>9. ASSUME NEW n \in 1..(l + 1) PROVE Append(f, x)[n] = data[i + n - 1].text
    <3>1. CASE n = l + 1
      BY <2>1, <2>7, <3>1
    <3>2. CASE n # l + 1
      <4>1. n \in 1..l
        BY <2>1, <3>2
      <4> QED
        BY <2>2, <2>7, <4>1
    <3> QED
      BY <3>1, <3>2
  <2>10. Append(f, x) = g
    <3> DEFINE a == Append(f, x)
    <3>1. a = [n \in DOMAIN a |-> a[n]]
      BY <2>7, LenProperties
    <3> HIDE DEF a
    <3> QED
      BY <2>3, <2>8, <2>9, <3>1 DEF a
  <2> QED
    BY <2>5, <2>10, SameLines DEF g
<1>10. Current'
  BY <1>1, <1>3, <1>5, <1>6, <1>7, <1>9, SameLines DEF Current
<1>11. ASSUME NEW k \in Names PROVE Reads(k)'
  <2>1. CASE k = key
    BY <1>1, <1>3, <1>5, <1>6, <1>8, <1>9, <2>1 DEF Reads
  <2>2. CASE k # key
    <3>1. CASE /\ \A n \in Consumed : ~IsField(k, n)
               /\ FindHeader(parser.headers, k) = DefaultOf(k)
      BY <1>1, <1>2, <1>3, <1>4, <2>2, <3>1, SameLines DEF Reads
    <3>2. CASE \E a, j \in Consumed : /\ IsLastField(k, a) /\ IsEnd(a, j)
                                      /\ FindHeader(parser.headers, k) = TextOf(a, j)
      <4>1. PICK a, j \in Consumed : /\ IsLastField(k, a) /\ IsEnd(a, j)
                                     /\ FindHeader(parser.headers, k) = TextOf(a, j)
        BY <3>2
      <4>2. IsLastField(k, a)'
        BY <1>1, <1>4, <4>1, SameLines DEF IsLastField
      <4>3. ~Continues(a, at)
        <5>1. /\ data[a].kind = "field" /\ data[i].kind = "field"
              /\ data[a].name = k /\ data[i].name = key
          BY <1>5, <4>1 DEF IsLastField, IsField
        <5>2. a # i /\ a \in Nat /\ i \in Nat /\ a < at /\ i < at
          BY <1>1, <1>5, <2>2, <4>1, <5>1
        <5>3. CASE a < i
          BY <5>1, <5>2, <5>3 DEF Continues
        <5>4. CASE i < a
          BY <1>5, <5>1, <5>2, <5>4 DEF Continues
        <5> QED
          BY <5>2, <5>3, <5>4
      <4>4. IsEnd(a, j)'
        BY <1>1, <4>1, <4>3, SameLines DEF IsEnd
      <4> QED
        BY <1>1, <1>3, <2>2, <4>1, <4>2, <4>4, SameLines DEF Reads
    <3> QED
      BY <3>1, <3>2 DEF Reads
  <2> QED
    BY <2>1, <2>2
<1> QED
  BY <1>10, <1>11

\* One turn of the loop of ParseHeaders.
LEMMA HeaderLineKeeps ==
  ASSUME IInv, NEW from \in {"requestHeaders", "responseHeaders"}, HeaderLine(from)
  PROVE  IInv'
<1> DEFINE line == data[pos]
<1> USE DEF IInv
<1>1. /\ pc = from
      /\ UNCHANGED <<sent, cin, origin, rin, pc, persistent, data, m_host, m_port, length,
                     body, answer>>
      /\ pos <= Len(data) /\ line.kind # "blank"
      /\ parser' = ParseLine(parser, line) /\ pos' = pos + 1
  BY DEF HeaderLine, reqVars
<1>2. /\ parser \in Parsers /\ Unique(parser.headers)
      /\ pos \in Nat /\ pos >= 2 /\ Len(data) \in Nat
      /\ \A n \in Consumed : data[n].kind \in {"field", "more"}
  BY <1>1, Types DEF PosOK, Parsing, KeysUnique, Unique
<1>3. IsHeaderLine(line)
  BY <1>1, LineFacts
<1>4. line.kind # "nocolon" /\ ~(line.kind = "more" /\ parser.key = "")
  BY DEF HeaderLine, BadLine
<1>5. \/ line.kind = "field" /\ line.name \in Names /\ line.text \in Texts
      \/ line.kind = "more" /\ line.text \in Texts
  BY <1>1, <1>3, <1>4 DEF IsHeaderLine
<1>6. Current /\ \A k \in Names : Reads(k)
  BY <1>1 DEF ParseOK, Parsing
<1>7. line.kind = "more" => Consumed # {}
  BY <1>4, <1>6, Zenon DEF Current
<1>8. Current' /\ \A k \in Names : Reads(k)'
  <2>1. CASE line.kind = "field"
    BY <1>1, <1>2, <1>3, <1>6, <2>1, FieldKeeps
  <2>2. CASE line.kind = "more"
    <3>1. line.text \in Texts
      BY <1>5, <2>2
    <3> QED
      BY <1>1, <1>2, <1>6, <1>7, <2>2, <3>1, MoreKeeps
  <2> QED
    BY <1>5, <2>1, <2>2
<1>9. parser' \in Parsers /\ Unique(parser'.headers)
  BY <1>1, <1>2, <1>5, ParseLineFacts
<1>10. TypeOK' /\ KeysUnique'
  BY <1>1, <1>2, <1>9 DEF TypeOK, Parsers, KeysUnique, Unique
<1>11. StreamOK'
  BY <1>1, CinWhole DEF StreamOK
<1>12. HeadOK' /\ ResponseOK'
  BY <1>1 DEF HeadOK, ResponseOK
<1>13. PosOK'
  <2>1. Consumed' = Consumed \cup {pos}
    BY <1>1, <1>2 DEF Consumed
  <2>2. \A n \in Consumed' : data'[n].kind \in {"field", "more"}
    BY <1>1, <1>2, <1>5, <2>1
  <2> QED
    BY <1>1, <1>2, <2>2 DEF PosOK, Parsing
<1>14. UnsetOK' /\ CountOK' /\ ParseOK'
  BY <1>1, <1>8 DEF UnsetOK, CountOK, ParseOK
<1> QED
  BY <1>10, <1>11, <1>12, <1>13, <1>14

\* SetPort and SetHost leave one Host header, and no other.
LEMMA HostFacts ==
  ASSUME NEW host \in Hosts, NEW port \in Ports
  PROVE  LET h == SetHostAndPort(<< >>, host, port)
         IN /\ h \in Seq(Headers) /\ Unique(h)
            /\ \A k : FindHeader(h, k) = IF k = "Host" THEN <<HostText[<<host, port>>]>>
                                         ELSE Empty
<1> DEFINE v == <<HostText[<<NoHost, port>>]>>
           w == <<HostText[<<host, port>>]>>
           h1 == ModifyHeader(<< >>, "Host", v)
           h2 == ModifyHeader(h1, "Host", w)
<1>1. HostText[<<NoHost, port>>] \in Texts /\ HostText[<<host, port>>] \in Texts
  BY HttpExchangeAssumption
<1>2. v \in Values /\ w \in Values
  BY <1>1, ValueFacts
<1>3. "Host" \in Names
  BY HttpHeadersAssumption
<1> HIDE DEF v, w
<1>4. /\ h1 \in Seq(Headers) /\ Unique(h1)
      /\ \A k : k # "Host" => FindHeader(h1, k) = Empty
  <2>1. ASSUME NEW h0 \in Seq(Headers), Unique(h0)
        PROVE  LET h == ModifyHeader(h0, "Host", v)
               IN /\ h \in Seq(Headers) /\ Unique(h)
                  /\ \A k : k # "Host" => FindHeader(h, k) = FindHeader(h0, k)
    BY <1>2, <1>3, <2>1, ModifyHeaderFacts
  <2> QED
    BY <2>1, NoHeaders, Zenon
<1> HIDE DEF h1
<1>5. /\ h2 \in Seq(Headers) /\ Unique(h2) /\ FindHeader(h2, "Host") = w
      /\ \A k : k # "Host" => FindHeader(h2, k) = FindHeader(h1, k)
  BY <1>2, <1>3, <1>4, ModifyHeaderFacts
<1> QED
  BY <1>4, <1>5 DEF SetHostAndPort, h1, v, w

\* ParseHeaders starts behind the first line: no header line is behind it.
LEMMA StartConsumed ==
  ASSUME pos' = 2
  PROVE  Consumed' = {}
  BY DEF Consumed

\* The list is the one that the first line of the message made.
LEMMA StartKeeps ==
  ASSUME pos' = 2, parser'.key = "",
         \A k \in Names : FindHeader(parser'.headers, k) = DefaultOf(k)'
  PROVE  Consumed' = {} /\ ParseOK'
<1>1. Consumed' = {}
  BY StartConsumed
<1>2. Current'
  BY <1>1, Zenon DEF Current
<1>3. ASSUME NEW k \in Names PROVE Reads(k)'
  BY <1>1 DEF Reads
<1> QED
  BY <1>1, <1>2, <1>3 DEF ParseOK

\* What is taken for a request line is the first line of a request or what is
\* left of one of its lines.
LEMMA HeadOf ==
  ASSUME NEW r \in Requests, NEW j \in DOMAIN r, NEW d, Agree(d, r, j), IsRequestLine(d[1])
  PROVE  /\ d[1].host \in Hosts /\ d[1].port \in Ports
         /\ \/ d[1].kind = "request" /\ j = 1 /\ d[1] = r[1]
            \/ d[1].kind = "reads" /\ j < Len(r)
<1>1. /\ Len(r) \in Nat /\ DOMAIN r = 1..Len(r)
      /\ r[1].kind = "request" => r[1].host \in Hosts /\ r[1].port \in Ports
      /\ r[1].kind # "reads"
      /\ \A i \in 2..Len(r) : ~IsRequestLine(r[i])
  BY RequestFacts
<1>2. IsOf(d[1], r, j)
  BY DEF Agree
<1>3. CASE d[1] = r[j]
  <2>1. j = 1
    BY <1>1, <1>3
  <2> QED
    BY <1>1, <1>3, <2>1 DEF IsRequestLine
<1>4. CASE d[1] # r[j]
  <2>1. j < Len(r) /\ d[1] \in ReadsAsRequest
    BY <1>2, <1>4 DEF IsOf, IsRequestLine, Lf, Torn
  <2> QED
    BY <2>1, RemaindersAssumption
<1> QED
  BY <1>3, <1>4

\* The host and the port of a request line that is accepted.
LEMMA LineHost ==
  ASSUME IInv, RequestLine
  PROVE  data[1].host \in Hosts /\ data[1].port \in Ports
<1> USE DEF IInv
<1>1. pc = "requestLine" /\ data # << >> /\ IsRequestLine(data[1])
  BY DEF RequestLine
<1>2. PICK m \in DOMAIN sent : \E j \in DOMAIN sent[m] : Agree(data, sent[m], j)
  BY <1>1 DEF HeadOK
<1>3. PICK j \in DOMAIN sent[m] : Agree(data, sent[m], j)
  BY <1>2
<1>4. sent[m] \in Requests
  BY Types
<1> QED
  BY <1>1, <1>3, <1>4, HeadOf

\* The request line is parsed.
LEMMA RequestLineKeeps ==
  ASSUME IInv, RequestLine
  PROVE  IInv'
<1> DEFINE l == data[1]
<1> USE DEF IInv
<1>1. /\ pc = "requestLine" /\ pc' = "requestHeaders"
      /\ UNCHANGED <<sent, cin, origin, rin, persistent, data, length, body, answer>>
      /\ data # << >> /\ IsRequestLine(l) /\ pos' = 2
      /\ m_host = NoHost
  BY DEF RequestLine, UnsetOK
<1>2. data \in Seq(Units) /\ Len(data) \in Nat /\ DOMAIN data = 1..Len(data) /\ 1 \in DOMAIN data
  BY <1>1, Types, EmptySeq
<1>3. l.host \in Hosts /\ l.port \in Ports
  BY LineHost
<1>4. /\ parser' \in Parsers /\ Unique(parser'.headers) /\ parser'.key = ""
      /\ \A k \in Names : FindHeader(parser'.headers, k) = DefaultOf(k)'
      /\ m_host' \in Hosts \cup {NoHost} /\ m_port' \in Ports \cup {0}
  <2>1. CASE parser' = NewParser(<< >>) /\ UNCHANGED reqVars
    <3>1. m_host' = NoHost /\ m_port' = m_port
      BY <1>1, <2>1 DEF reqVars
    <3>2. \A k : DefaultOf(k)' = Empty
      BY <3>1 DEF DefaultOf
    <3>3. /\ parser'.headers = << >> /\ parser'.key = ""
          /\ parser' \in Parsers /\ Unique(parser'.headers)
      BY <2>1, NoHeaders, NewParserFacts
    <3> QED
      BY <3>1, <3>2, <3>3, NoHeaders DEF TypeOK
  <2>2. CASE /\ m_host' = l.host /\ m_port' = l.port
             /\ parser' = NewParser(SetHostAndPort(<< >>, l.host, l.port))
    <3> DEFINE h == SetHostAndPort(<< >>, l.host, l.port)
    <3>1. /\ h \in Seq(Headers) /\ Unique(h)
          /\ \A k : FindHeader(h, k) = IF k = "Host" THEN <<HostText[<<l.host, l.port>>]>>
                                       ELSE Empty
      BY <1>3, HostFacts
    <3> HIDE DEF h
    <3>2. parser'.headers = h /\ parser'.key = "" /\ parser' \in Parsers
      BY <2>2, <3>1, NewParserFacts DEF h
    <3>3. m_host' # NoHost
      BY <1>3, <2>2, HttpExchangeAssumption
    <3>4. ASSUME NEW k \in Names
          PROVE  DefaultOf(k)' = IF k = "Host" THEN <<HostText[<<l.host, l.port>>]>> ELSE Empty
      BY <1>1, <2>2, <3>3 DEF DefaultOf
    <3> QED
      BY <1>3, <2>2, <3>1, <3>2, <3>4
  <2> QED
    BY <2>1, <2>2 DEF RequestLine
<1>5. Consumed' = {} /\ ParseOK'
  BY <1>1, <1>4, StartKeeps
<1>6. TypeOK' /\ KeysUnique'
  BY <1>1, <1>4 DEF TypeOK, Alive, Parsers, KeysUnique, Unique
<1>7. StreamOK'
  BY <1>1, CinWhole DEF StreamOK
<1>8. HeadOK' /\ ResponseOK' /\ UnsetOK' /\ CountOK'
  BY <1>1 DEF HeadOK, ResponseOK, UnsetOK, CountOK
<1>9. PosOK'
  BY <1>1, <1>2, <1>5 DEF PosOK
<1> QED
  BY <1>5, <1>6, <1>7, <1>8, <1>9

\* The request is parsed.
LEMMA RequestHeadersDoneKeeps ==
  ASSUME IInv, RequestHeadersDone
  PROVE  IInv'
<1> USE DEF IInv
<1>1. /\ pc = "requestHeaders" /\ pc' = "forward" /\ HeaderEnd
      /\ UNCHANGED <<sent, cin, origin, rin, data, parser, pos, m_host, m_port, length,
                     body, answer>>
      /\ persistent' \in BOOLEAN
  BY DEF RequestHeadersDone, reqVars
<1>2. TypeOK' /\ KeysUnique'
  BY <1>1 DEF TypeOK, Alive, KeysUnique
<1>3. StreamOK'
  BY <1>1, CinWhole DEF StreamOK
<1>4. HeadOK' /\ ResponseOK' /\ UnsetOK' /\ CountOK'
  BY <1>1 DEF HeadOK, ResponseOK, UnsetOK, CountOK
<1>5. PosOK'
  BY <1>1 DEF PosOK, Parsing, Consumed, HeaderEnd
<1>6. ParseOK'
  BY <1>1, ParseFrame DEF Parsing
<1> QED
  BY <1>2, <1>3, <1>4, <1>5, <1>6

\* The request is sent to the origin.
LEMMA ForwardKeeps ==
  ASSUME IInv, NEW r \in Responses, Forward(r)
  PROVE  IInv'
<1> USE DEF IInv
<1>1. /\ pc = "forward" /\ pc' = "header"
      /\ origin' = r /\ rin' = r /\ data' = << >> /\ parser' = NewParser(<< >>) /\ pos' = 1
      /\ UNCHANGED <<sent, cin, persistent, m_host, m_port, length, body, answer>>
  BY DEF Forward, reqVars
<1>2. r \in Seq(Units)
  BY ResponseFacts
<1>3. TypeOK' /\ KeysUnique'
  BY <1>1, <1>2, StartParser DEF TypeOK, Alive, Parsers, KeysUnique, Unique
<1>4. StreamOK'
  BY <1>1, CinWhole DEF StreamOK
<1>5. ResponseOK'
  <2>1. (<< >> \o << >>) \o r = r
    <3>1. << >> \o << >> = << >> /\ << >> \o r = r
      BY <1>2, EmptySeq, ConcatEmptySeq
    <3> QED
      BY <3>1
  <2> QED
    BY <1>1, <2>1 DEF ResponseOK
<1>6. HeadOK' /\ PosOK' /\ UnsetOK' /\ CountOK' /\ ParseOK'
  BY <1>1 DEF HeadOK, PosOK, UnsetOK, CountOK, ParseOK, Parsing
<1> QED
  BY <1>3, <1>4, <1>5, <1>6

\* The status line is parsed.
LEMMA StatusLineKeeps ==
  ASSUME IInv, StatusLine
  PROVE  IInv'
<1> USE DEF IInv
<1>1. /\ pc = "statusLine" /\ pc' = "responseHeaders" /\ pos' = 2
      /\ UNCHANGED <<sent, cin, origin, rin, persistent, data, parser, m_host, m_port,
                     length, body, answer>>
      /\ parser = NewParser(<< >>)
  BY DEF StatusLine, reqVars, UnsetOK
<1>2. Len(data) \in Nat /\ Len(data) >= 1
  <2>1. PICK i \in DOMAIN data : i > 1
    BY <1>1 DEF ResponseOK, HasEnd
  <2> QED
    BY <2>1, Types
<1>3. parser'.headers = << >> /\ parser'.key = ""
  BY <1>1, NoHeaders, NewParserFacts
<1>4. \A k \in Names : FindHeader(parser'.headers, k) = DefaultOf(k)'
  BY <1>1, <1>3, NoHeaders DEF DefaultOf
<1>5. Consumed' = {} /\ ParseOK'
  BY <1>1, <1>3, <1>4, StartKeeps
<1>6. TypeOK' /\ KeysUnique'
  BY <1>1 DEF TypeOK, Alive, KeysUnique
<1>7. StreamOK'
  BY <1>1, CinWhole DEF StreamOK
<1>8. HeadOK' /\ ResponseOK' /\ UnsetOK' /\ CountOK'
  BY <1>1 DEF HeadOK, ResponseOK, UnsetOK, CountOK
<1>9. PosOK'
  BY <1>1, <1>2, <1>5 DEF PosOK
<1> QED
  BY <1>5, <1>6, <1>7, <1>8, <1>9

\* The header of the response is parsed: recv_nth starts to count.
LEMMA ResponseHeadersDoneKeeps ==
  ASSUME IInv, ResponseHeadersDone
  PROVE  IInv'
<1> USE DEF IInv
<1>1. PICK n \in BodySizes :
        /\ Number[FindHeader(parser.headers, "Content-Length")[1]] \in {n, NotANumber}
        /\ length' = n
        /\ pc' = IF n > 0 THEN "body" ELSE "answer"
  BY DEF ResponseHeadersDone
<1>2. /\ pc = "responseHeaders" /\ HeaderEnd /\ body' = << >>
      /\ UNCHANGED <<sent, cin, origin, rin, persistent, data, parser, pos, m_host, m_port,
                     answer>>
  BY DEF ResponseHeadersDone, reqVars
<1>3. n \in Int /\ pc' \in {"body", "answer"}
  BY <1>1, HttpExchangeAssumption
<1>4. TypeOK' /\ KeysUnique'
  BY <1>1, <1>2, <1>3 DEF TypeOK, Alive, KeysUnique
<1>5. StreamOK'
  BY <1>2, <1>3, CinWhole DEF StreamOK
<1>6. HeadOK' /\ ResponseOK' /\ UnsetOK'
  BY <1>2, <1>3 DEF HeadOK, ResponseOK, UnsetOK
<1>7. PosOK'
  BY <1>2, <1>3 DEF PosOK, Parsing, Consumed, HeaderEnd
<1>8. CountOK'
  <2>1. n + Len(body') = n
    BY <1>2, <1>3
  <2> QED
    BY <1>1, <1>2, <1>3, <2>1 DEF CountOK
<1>9. ParseOK'
  BY <1>2, <1>3, ParseFrame DEF Parsing
<1> QED
  BY <1>4, <1>5, <1>6, <1>7, <1>8, <1>9

----------------------------------------------------------------------------
(* The theorems. *)

\* Every step preserves the inductive invariant.
LEMMA NextIInv ==
  ASSUME IInv, [Next]_vars
  PROVE  IInv'
<1>1. CASE Next
  <2>1. TypeOK
    BY DEF IInv
  <2> QED
    BY <1>1, <2>1, Steps, ClientSendsKeeps, RecvRequestKeeps, RecvRequestEagainKeeps,
       RecvHeaderKeeps, RecvBodyKeeps, FinishesKeeps, StopsKeeps, RequestLineKeeps,
       HeaderLineKeeps, RequestHeadersDoneKeeps, ForwardKeeps, StatusLineKeeps,
       ResponseHeadersDoneKeeps
<1>2. CASE UNCHANGED vars
  <2>1. UNCHANGED <<sent, cin, origin, rin, pc, persistent, data, parser, pos, m_host, m_port,
                    length, body, answer>>
    BY <1>2 DEF vars, reqVars
  <2>2. TypeOK' /\ KeysUnique' /\ StreamOK' /\ HeadOK'
    BY <2>1 DEF IInv, TypeOK, KeysUnique, StreamOK, HeadOK
  <2>3. ResponseOK' /\ UnsetOK' /\ CountOK'
    BY <2>1 DEF IInv, ResponseOK, UnsetOK, CountOK
  <2>4. PosOK'
    BY <2>1 DEF IInv, PosOK, Consumed, HeaderEnd
  <2>5. ParseOK'
    BY <2>1, ParseFrame DEF IInv
  <2> QED
    BY <2>2, <2>3, <2>4, <2>5 DEF IInv
<1> QED
  BY <1>1, <1>2

\* Every variable of the exchange keeps its type: no chunk, no parsed line and
\* no counted body ever leaves what the two sockets carry.
THEOREM TypeCorrect == Spec => []TypeOK
<1>1. IInv => TypeOK
  BY DEF IInv
<1> QED
  BY <1>1, InitIInv, NextIInv, PTL DEF Spec

\* However many lines repeat a name, however long the messages are, ParseRequest
\* and ParseResponse leave one header per name.
THEOREM OneHeaderPerName == Spec => []KeysUnique
<1>1. IInv => KeysUnique
  BY DEF IInv
<1> QED
  BY <1>1, InitIInv, NextIInv, PTL DEF Spec

\* A sequence that goes on as another one does has it as a prefix.
LEMMA PrefixOf ==
  ASSUME NEW a \in Seq(Units), NEW d \in Seq(Units), Len(a) <= Len(d),
         \A n \in 1..Len(a) : d[n] = a[n]
  PROVE  IsPrefix(a, d)
<1> DEFINE b == SubSeq(d, 1, Len(a))
<1>1. Len(a) \in Nat /\ Len(d) \in Nat /\ DOMAIN d = 1..Len(d)
  OBVIOUS
<1>2. b \in Seq(Units) /\ Len(b) = Len(a) /\ \A n \in 1..Len(a) : b[n] = d[n]
  <2>1. \A n \in 1..Len(a) : d[n] \in Units
    BY <1>1, ElementOfSeq
  <2> QED
    BY <1>1, <2>1, SubSeqProperties
<1> HIDE DEF b
<1>3. a = b
  BY <1>1, <1>2, SeqEqual
<1>4. SubSeq(a, 1, Len(a)) = a
  BY SubSeqFull
<1> QED
  BY <1>3, <1>4 DEF IsPrefix, b

\* What getHttpRequest accepts begins with a whole request, or with what is left
\* of one.
LEMMA AcceptedFollows ==
  ASSUME IInv
  PROVE  AcceptedIsSent
<1> SUFFICES ASSUME pc = "forward"
             PROVE  \E i \in DOMAIN sent :
                      \/ IsPrefix(sent[i], data)
                      \/ /\ data[1].kind = "reads"
                         /\ \E j \in 1..Len(sent[i])-1 : GoesOn(sent[i], j)
  BY DEF AcceptedIsSent
<1>1. /\ pos <= Len(data) /\ data[pos].kind = "blank" /\ pos \in Nat /\ pos >= 2
      /\ data \in Seq(Units) /\ Len(data) \in Nat /\ DOMAIN data = 1..Len(data)
      /\ IsRequestLine(data[1])
  BY Types DEF IInv, PosOK, Parsing, HeaderEnd
<1>2. PICK m \in DOMAIN sent : \E j \in DOMAIN sent[m] : LineAt(m, j)
  BY ParsedRequest
<1>3. PICK j \in DOMAIN sent[m] : LineAt(m, j)
  BY <1>2
<1> DEFINE r == sent[m]
<1>4. r \in Requests /\ Agree(data, r, j) /\ j \in DOMAIN r
  BY <1>3 DEF LineAt
<1>5. j < Len(r) /\ j + (pos - 1) \in 2..Len(r) /\ data[pos] = r[j + (pos - 1)]
  BY <1>1, <1>3 DEF LineAt
<1> HIDE DEF r
<1>6. r \in Seq(Units) /\ Len(r) \in Nat /\ DOMAIN r = 1..Len(r)
  BY <1>4, RequestFacts
<1>7. j \in Nat /\ j >= 1 /\ j < Len(r) /\ j + (pos - 1) = Len(r)
  <2>1. j \in Nat /\ j >= 1
    BY <1>4, <1>6
  <2>2. \A i \in 2..Len(r) : r[i].kind = "blank" <=> i = Len(r)
    BY <1>4, RequestFacts
  <2> QED
    BY <1>1, <1>5, <2>1, <2>2
<1>8. ASSUME NEW n \in j+1..Len(r) PROVE 1 + (n - j) \in 1..Len(data) /\ data[1 + (n - j)] = r[n]
  <2>1. 1 + (n - j) \in 1..Len(data)
    BY <1>1, <1>6, <1>7
  <2> QED
    BY <1>1, <1>4, <2>1 DEF Agree
<1>9. CASE data[1].kind = "request"
  <2>1. j = 1 /\ data[1] = r[1]
    BY <1>1, <1>4, <1>9, HeadOf
  <2>2. ASSUME NEW n \in 1..Len(r) PROVE data[n] = r[n]
    <3>1. CASE n = 1
      BY <2>1, <3>1
    <3>2. CASE n # 1
      <4>1. n \in j+1..Len(r) /\ 1 + (n - j) = n
        BY <1>6, <2>1, <3>2
      <4> QED
        BY <1>8, <4>1
    <3> QED
      BY <3>1, <3>2
  <2>3. Len(r) <= Len(data)
    BY <1>1, <1>6, <1>7, <2>1
  <2>4. IsPrefix(r, data)
    BY <1>1, <1>6, <2>2, <2>3, PrefixOf
  <2> QED
    BY <2>4 DEF r
<1>10. CASE data[1].kind = "reads"
  <2> DEFINE a == SubSeq(r, j + 1, Len(r))
             t == Tail(data)
  <2>1. /\ a \in Seq(Units) /\ Len(a) = Len(r) - j
        /\ \A i \in 1..(Len(r) - j) : a[i] = r[i + j]
    BY <1>4, <1>6, <1>7, Split
  <2>2. /\ t \in Seq(Units) /\ Len(t) = Len(data) - 1
        /\ \A i \in 1..Len(t) : t[i] = data[i + 1]
    <3>1. data # << >>
      BY <1>1
    <3> QED
      BY <1>1, <3>1, HeadTailProperties
  <2> HIDE DEF a, t
  <2>3. Len(a) <= Len(t)
    BY <1>1, <1>6, <1>7, <2>1, <2>2
  <2>4. ASSUME NEW i \in 1..Len(a) PROVE t[i] = a[i]
    <3>1. /\ i \in 1..(Len(r) - j) /\ i + j \in j+1..Len(r) /\ 1 + ((i + j) - j) = i + 1
          /\ i \in 1..Len(t)
      BY <1>1, <1>6, <1>7, <2>1, <2>2, <2>3
    <3>2. data[1 + ((i + j) - j)] = r[i + j]
      BY <1>8, <3>1
    <3> QED
      BY <2>1, <2>2, <3>1, <3>2
  <2>5. IsPrefix(a, t)
    BY <2>1, <2>2, <2>3, <2>4, PrefixOf
  <2>6. GoesOn(r, j) /\ j \in 1..Len(r)-1
    BY <1>4, <1>6, <1>7, <2>5 DEF GoesOn, a, t
  <2> QED
    BY <1>10, <2>6 DEF r
<1> QED
  BY <1>1, <1>9, <1>10 DEF IsRequestLine

\* However the client's bytes are cut, dropped and lost, no request is put
\* together from parts of two: what is accepted is a whole request, or the rest of
\* one from what was left of a line that reads as a request line: the property
\* AcceptedIsSent of getHttpRequest.
THEOREM AcceptedWasSent == Spec => []AcceptedIsSent
  BY InitIInv, NextIInv, AcceptedFollows, PTL DEF Spec

\* The greatest element of a set.
LEMMA MaxIs ==
  ASSUME NEW S \in SUBSET Int, NEW x \in S, \A y \in S : y <= x
  PROVE  Max(S) = x
<1>1. \A y \in S : x >= y
  OBVIOUS
<1>2. ASSUME NEW z \in S, \A y \in S : z >= y PROVE z = x
  <2>1. z >= x /\ z <= x /\ z \in Int /\ x \in Int
    BY <1>2
  <2> QED
    BY <2>1
<1> QED
  BY <1>1, <1>2, Zenon DEF Max

\* The reference of ParsedMatches.
LEMMA ParsedFollows ==
  ASSUME IInv
  PROVE  ParsedMatches
<1> SUFFICES ASSUME pc \in Parsing, NEW k \in Names
             PROVE  FindHeader(parser.headers, k) = Reference(k, DefaultOf(k))
  BY DEF ParsedMatches, Parsing
<1> DEFINE fields == {i \in Consumed : data[i].kind = "field" /\ data[i].name = k}
<1>1. pos \in Nat /\ \A n \in Consumed : n \in Nat /\ n >= 2
  BY Types DEF IInv, Consumed
<1>2. Reads(k)
  BY DEF IInv, ParseOK
<1>3. CASE /\ \A n \in Consumed : ~IsField(k, n)
           /\ FindHeader(parser.headers, k) = DefaultOf(k)
  <2>1. {0} \cup fields = {0}
    BY <1>3 DEF IsField
  <2>2. Max({0}) = 0
    BY MaxIs
  <2>3. LastField(k) = 0
    BY <2>1, <2>2 DEF LastField
  <2> QED
    BY <1>3, <2>3 DEF Reference
<1>4. CASE \E i, j \in Consumed : /\ IsLastField(k, i) /\ IsEnd(i, j)
                                  /\ FindHeader(parser.headers, k) = TextOf(i, j)
  <2>1. PICK i, j \in Consumed : /\ IsLastField(k, i) /\ IsEnd(i, j)
                                 /\ FindHeader(parser.headers, k) = TextOf(i, j)
    BY <1>4
  <2>2. LastField(k) = i
    <3>1. i \in {0} \cup fields /\ {0} \cup fields \subseteq Int
      BY <1>1, <2>1 DEF IsLastField, IsField
    <3>2. \A y \in {0} \cup fields : y <= i
      BY <1>1, <2>1 DEF IsLastField, IsField
    <3> QED
      BY <3>1, <3>2, MaxIs DEF LastField
  <2> DEFINE ends == {n \in {i} \cup Consumed : n >= i /\ Continues(i, n)}
  <2>3. Max(ends) = j
    <3>1. j \in ends /\ ends \subseteq Int
      BY <1>1, <2>1 DEF IsEnd
    <3>2. \A y \in ends : y <= j
      BY <1>1, <2>1 DEF IsEnd
    <3> HIDE DEF ends
    <3> QED
      BY <3>1, <3>2, MaxIs
  <2>4. i # 0
    BY <1>1
  <2> QED
    BY <2>1, <2>2, <2>3, <2>4 DEF Reference, TextOf
<1> QED
  BY <1>2, <1>3, <1>4 DEF Reads

\* At every line of ParseHeaders, for any number of lines, names and texts, the
\* list answers for every name what the lines read so far say last.
THEOREM ParseHeadersCorrect == Spec => []ParsedMatches
  BY InitIInv, NextIInv, ParsedFollows, PTL DEF Spec

\* A header without a name has no continuation lines.
NamelessIsPlain == Len(FindHeader(parser.headers, "")) = 1

\* So it is in an empty list.
LEMMA StartPlain ==
  Len(FindHeader(NewParser(<< >>).headers, "")) = 1
<1>1. NewParser(<< >>).headers = << >>
  BY NoHeaders, NewParserFacts
<1>2. FindHeader(<< >>, "") = Empty
  BY NoHeaders, Zenon
<1>3. Len(Empty) = 1
  BY DEF Empty
<1> QED
  BY <1>1, <1>2, <1>3, Zenon

\* A continuation line without a name before it is refused, so no step of
\* ParseHeaders gives one to a header without a name.
LEMMA NamelessInvariance == Spec => []NamelessIsPlain
<1>1. Init => NamelessIsPlain
  BY StartPlain DEF Init, NamelessIsPlain
<1>2. IInv /\ NamelessIsPlain /\ [Next]_vars => NamelessIsPlain'
  <2> SUFFICES ASSUME IInv, NamelessIsPlain, [Next]_vars PROVE NamelessIsPlain'
    OBVIOUS
  <2>1. CASE parser' = parser
    BY <2>1 DEF NamelessIsPlain
  <2>2. CASE parser' = NewParser(<< >>)
    BY <2>2, StartPlain DEF NamelessIsPlain
  <2>3. CASE RequestLine /\ data[1].form = "absolute"
    <3> DEFINE h == SetHostAndPort(<< >>, data[1].host, data[1].port)
    <3>1. data[1].host \in Hosts /\ data[1].port \in Ports
      BY <2>3, LineHost
    <3>2. parser' = NewParser(h)
      BY <2>3 DEF RequestLine
    <3>3. h \in Seq(Headers) /\ FindHeader(h, "") = Empty
      BY <3>1, HostFacts
    <3> HIDE DEF h
    <3>4. FindHeader(parser'.headers, "") = Empty
      BY <3>2, <3>3, NewParserFacts
    <3> QED
      BY <3>4 DEF NamelessIsPlain, Empty
  <2>4. CASE \E from \in {"requestHeaders", "responseHeaders"} : HeaderLine(from)
    <3> DEFINE line == data[pos]
    <3>1. /\ pc \in {"requestHeaders", "responseHeaders"}
          /\ pos <= Len(data) /\ line.kind # "blank" /\ ~BadLine(parser, line)
          /\ parser' = ParseLine(parser, line)
      BY <2>4 DEF HeaderLine
    <3>2. parser \in Parsers /\ Unique(parser.headers)
      BY Types DEF IInv, KeysUnique, Unique
    <3>3. IsHeaderLine(line)
      BY <3>1, LineFacts
    <3>4. CASE line.kind = "more"
      <4>1. parser.key # "" /\ line.text \in Texts
        BY <3>1, <3>3, <3>4 DEF BadLine, IsHeaderLine
      <4>2. FindHeader(ParseLine(parser, line).headers, "") = FindHeader(parser.headers, "")
        <5>1. \A k : k # parser.key =>
                FindHeader(ParseLine(parser, line).headers, k) = FindHeader(parser.headers, k)
          BY <3>2, <3>4, <4>1, ParseMoreFacts, Zenon
        <5> QED
          BY <4>1, <5>1, Zenon
      <4> QED
        BY <3>1, <4>2 DEF NamelessIsPlain
    <3>5. CASE line.kind # "more"
      <4>1. line.kind = "field" /\ line.name \in Names /\ line.text \in Texts
        BY <3>1, <3>3, <3>5 DEF BadLine, IsHeaderLine
      <4>2. \/ FindHeader(ParseLine(parser, line).headers, "") = <<line.text>>
            \/ FindHeader(ParseLine(parser, line).headers, "") = FindHeader(parser.headers, "")
        <5>1. LET q == ParseLine(parser, line)
              IN /\ q.key = line.name /\ q.value = <<line.text>>
                 /\ FindHeader(q.headers, line.name) = q.value
                 /\ \A k : k # line.name => FindHeader(q.headers, k) = FindHeader(parser.headers, k)
          BY <3>2, <4>1, ParseFieldFacts, Zenon
        <5> QED
          BY <5>1, Zenon
      <4>3. Len(<<line.text>>) = 1
        OBVIOUS
      <4> QED
        BY <3>1, <4>2, <4>3 DEF NamelessIsPlain
    <3> QED
      BY <3>4, <3>5
  <2>5. CASE Next
    <3>1. CASE RequestLine /\ data[1].form # "absolute"
      BY <2>2, <3>1 DEF RequestLine
    <3>2. CASE Finishes \/ \E r \in Responses : Forward(r)
      BY <2>2, <3>2 DEF Finishes, Reset, Forward
    <3>3. CASE \/ \E r \in Requests : ClientSends(r)
               \/ \E n \in Nat, cut \in Cuts : RecvRequest(n, cut) \/ RecvRequestEagain(n, cut)
               \/ \E n \in Nat : RecvHeader(n) \/ RecvBody(n)
      BY <2>1, <3>3 DEF ClientSends, RecvRequest, RecvRequestEagain, RecvHeader, RecvBody
    <3>4. CASE Stops \/ RequestHeadersDone \/ StatusLine \/ ResponseHeadersDone
      BY <2>1, <3>4 DEF Stops, RequestHeadersDone, StatusLine, ResponseHeadersDone
    <3>5. TypeOK
      BY DEF IInv
    <3> QED
      BY <2>3, <2>4, <2>5, <3>1, <3>2, <3>3, <3>4, <3>5, Steps
  <2>6. CASE UNCHANGED vars
    BY <2>1, <2>6 DEF vars
  <2> QED
    BY <2>5, <2>6
<1> QED
  BY <1>1, <1>2, InitIInv, NextIInv, PTL DEF Spec

\* The header that FormatRequest writes for the origin is read there as the
\* list the proxy had, without a refused line, and fits the buffer exactly: the
\* property ForwardRoundTrip of FormatHeaders and GetTotalLength, for requests of
\* any length.
THEOREM ForwardedUnchanged == Spec => []ForwardRoundTrip
<1>1. IInv /\ NamelessIsPlain => ForwardRoundTrip
  <2> SUFFICES ASSUME IInv, NamelessIsPlain PROVE ForwardRoundTrip
    OBVIOUS
  <2>1. parser.headers \in Seq(Headers) /\ Unique(parser.headers)
    BY Types DEF IInv, Parsers, KeysUnique, Unique
  <2>2. /\ ParseLines(FormatHeaders(parser.headers)).headers = parser.headers
        /\ SumSeq([i \in DOMAIN FormatHeaders(parser.headers) |->
                     LineSize(FormatHeaders(parser.headers)[i])])
             = GetTotalLength(parser.headers)
    BY <2>1, HeadersRoundTrip, TotalLengthIsWritten, Zenon
  <2> QED
    BY <2>2, Zenon DEF ForwardRoundTrip, NamelessIsPlain
<1> QED
  BY <1>1, InitIInv, NextIInv, NamelessInvariance, PTL DEF Spec

\* The pieces of a message are all the units behind its empty line.
LEMMA PiecesBehind ==
  ASSUME NEW s \in Seq(Units), NEW b \in DOMAIN s,
         \A i \in DOMAIN s : s[i].kind = "piece" <=> i > b
  PROVE  /\ Pieces(s) = Len(s) - b
         /\ b \in Nat /\ b <= Len(s)
<1>1. DOMAIN s = 1..Len(s) /\ Len(s) \in Nat
  BY LenProperties
<1>2. b \in Nat /\ b <= Len(s)
  BY <1>1
<1>3. {i \in DOMAIN s : s[i].kind = "piece"} = b + 1..Len(s)
  BY <1>1, <1>2
<1>4. Cardinality(b + 1..Len(s)) = IF b + 1 > Len(s) THEN 0 ELSE Len(s) - (b + 1) + 1
  <2>1. b + 1 \in Int /\ Len(s) \in Int
    BY <1>1, <1>2
  <2> QED
    BY <2>1, FS_Interval, Zenon
<1>5. Pieces(s) = Cardinality(b + 1..Len(s))
  BY <1>3 DEF Pieces
<1>6. (IF b + 1 > Len(s) THEN 0 ELSE Len(s) - (b + 1) + 1) = Len(s) - b
  BY <1>1, <1>2
<1> QED
  BY <1>2, <1>4, <1>5, <1>6

\* The arithmetic of the next lemma, by itself.
LEMMA Balance ==
  ASSUME NEW d \in Nat, NEW y \in Nat, NEW r \in Nat, NEW b \in Nat,
         NEW l \in Int, NEW o \in Int, NEW p \in Int,
         o = (d + y) + r, l + y = o - b, p = d - b
  PROVE  l = r + p
  OBVIOUS

\* What recv_nth still waits for, and what is still to come.
LEMMA MissingFollows ==
  ASSUME IInv
  PROVE  MissingIsOverRead
<1> SUFFICES ASSUME pc \in {"body", "answer"},
                    Number[FindHeader(parser.headers, "Content-Length")[1]] = Pieces(origin)
             PROVE  length = Len(rin) + Pieces(data)
  BY DEF MissingIsOverRead
<1>1. origin \in Responses /\ origin = entire \o rin /\ HasEnd(data)
  BY DEF IInv, ResponseOK, entire
<1>2. data \in Seq(Units) /\ body \in Seq(Units) /\ rin \in Seq(Units) /\ length \in Int
  BY Types DEF IInv
<1>3. /\ entire \in Seq(Units) /\ Len(entire) = Len(data) + Len(body)
      /\ \A i \in DOMAIN data : i \in DOMAIN entire /\ entire[i] = data[i]
  BY <1>2, ConcatUnits DEF entire
<1>4. /\ origin \in Seq(Units) /\ Len(origin) = Len(entire) + Len(rin)
      /\ \A i \in DOMAIN entire : i \in DOMAIN origin /\ origin[i] = entire[i]
  BY <1>1, <1>2, <1>3, ConcatFirst
<1>5. \A i \in DOMAIN data : i \in DOMAIN origin /\ origin[i] = data[i]
  BY <1>3, <1>4
<1>6. PICK b \in DOMAIN data : data[b].kind = "blank"
  BY <1>1 DEF HasEnd
<1>7. \A j \in DOMAIN origin : origin[j].kind = "piece" <=> j > b
  BY <1>1, <1>5, <1>6, ResponseFacts
<1>8. Pieces(origin) = Len(origin) - b
  BY <1>4, <1>5, <1>6, <1>7, PiecesBehind
<1>9. Pieces(data) = Len(data) - b /\ b \in Nat
  <2>1. \A j \in DOMAIN data : data[j].kind = "piece" <=> j > b
    BY <1>5, <1>7
  <2> QED
    BY <1>2, <1>6, <2>1, PiecesBehind
<1>10. Len(data) \in Nat /\ Len(body) \in Nat /\ Len(rin) \in Nat
  BY <1>2
<1>11. Pieces(origin) = length + Len(body)
  <2>1. Pieces(origin) \in Int
    BY <1>3, <1>4, <1>8, <1>9, <1>10
  <2> QED
    BY <2>1, HttpExchangeAssumption DEF IInv, CountOK
<1>12. Len(origin) = (Len(data) + Len(body)) + Len(rin)
  BY <1>3, <1>4
<1>13. length + Len(body) = Len(origin) - b
  BY <1>8, <1>11
<1>14. Len(origin) \in Int /\ Pieces(data) \in Int
  BY <1>9, <1>10, <1>12
<1> QED
  BY <1>2, <1>9, <1>10, <1>12, <1>13, <1>14, Balance

\* recv_nth waits for as much more than the origin has still to deliver as
\* recv_until read with the header, for any response, any chunks and any limit:
\* a response with the right Content-Length is read to its end unless a piece
\* of its body came with the header, which ResponseRead shows can happen.
THEOREM OverReadIsMissing == Spec => []MissingIsOverRead
  BY InitIInv, NextIInv, MissingFollows, PTL DEF Spec

\* What is sent to the client and saved.
LEMMA WholeFollows ==
  ASSUME IInv
  PROVE  WholeResponse
<1> SUFFICES ASSUME pc = "answer"
             PROVE  /\ IsPrefix(entire, origin)
                    /\ Number[FindHeader(parser.headers, "Content-Length")[1]] = Pieces(origin)
                         => entire = origin
  BY DEF WholeResponse
<1>1. origin \in Responses /\ origin = entire \o rin /\ HasEnd(data)
  BY DEF IInv, ResponseOK, entire
<1>2. data \in Seq(Units) /\ body \in Seq(Units) /\ rin \in Seq(Units) /\ length \in Int
  BY Types DEF IInv
<1>3. /\ entire \in Seq(Units) /\ Len(entire) = Len(data) + Len(body)
      /\ \A i \in DOMAIN data : i \in DOMAIN entire /\ entire[i] = data[i]
  BY <1>2, ConcatUnits DEF entire
<1>4. /\ Len(data) \in Nat /\ Len(body) \in Nat /\ Len(rin) \in Nat
      /\ DOMAIN data = 1..Len(data) /\ DOMAIN entire = 1..Len(entire)
  BY <1>2, <1>3
<1>5. /\ origin \in Seq(Units) /\ Len(origin) = Len(entire) + Len(rin)
      /\ \A i \in DOMAIN entire : i \in DOMAIN origin /\ origin[i] = entire[i]
  BY <1>1, <1>2, <1>3, ConcatUnits
<1>6. IsPrefix(entire, origin)
  <2> DEFINE n == Len(entire)
             b == SubSeq(origin, 1, n)
  <2>1. n \in Nat /\ \A i \in 1..n : origin[i] \in Units /\ origin[i] = entire[i]
    BY <1>3, <1>4, <1>5
  <2>2. SubSeq(entire, 1, n) = entire
    BY <1>3, SubSeqFull
  <2>3. /\ b \in Seq(Units)
        /\ Len(b) = IF 1 <= n THEN n - 1 + 1 ELSE 0
        /\ \A i \in 1..n - 1 + 1 : b[i] = origin[1 + i - 1]
    BY <2>1, SubSeqProperties
  <2> HIDE DEF b
  <2>4. n - 1 + 1 = n /\ \A i \in 1..n : 1 + i - 1 = i
    BY <2>1
  <2>5. Len(b) = n /\ \A i \in 1..n : entire[i] = b[i]
    BY <2>1, <2>3, <2>4
  <2>6. entire = b
    BY <1>3, <2>3, <2>5, SeqEqual
  <2> QED
    BY <1>4, <1>5, <2>2, <2>6 DEF IsPrefix, b
<1>7. ASSUME Number[FindHeader(parser.headers, "Content-Length")[1]] = Pieces(origin)
      PROVE  entire = origin
  <2>1. length = Len(rin) + Pieces(data) /\ ~(length > 0)
    BY <1>7, MissingFollows DEF MissingIsOverRead, IInv, CountOK
  <2>2. Pieces(data) \in Nat
    <3>1. {i \in DOMAIN data : data[i].kind = "piece"} \subseteq 1..Len(data)
      BY <1>4
    <3>2. IsFiniteSet(1..Len(data))
      <4>1. 1 \in Int /\ Len(data) \in Int
        BY <1>4
      <4> QED
        BY <4>1, FS_Interval, Zenon
    <3>3. IsFiniteSet({i \in DOMAIN data : data[i].kind = "piece"})
      BY <3>1, <3>2, FS_Subset, Zenon
    <3> QED
      BY <3>3, FS_CardinalityType, Zenon DEF Pieces
  <2>3. Len(rin) = 0
    BY <1>2, <1>4, <2>1, <2>2
  <2>4. rin = << >>
    BY <1>2, <2>3, EmptySeq
  <2> QED
    BY <1>1, <1>3, <2>4, ConcatEmptySeq
<1> QED
  BY <1>6, <1>7

\* A response with the right Content-Length is sent to the client, and saved,
\* whole or not at all, however it is cut into chunks and however much of its
\* body recv_until reads with the header; of any other, a part from its start.
THEOREM ResponseIsWhole == Spec => []WholeResponse
  BY InitIInv, NextIInv, WholeFollows, PTL DEF Spec
=============================================================================
