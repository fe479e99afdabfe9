--------------------------- MODULE HttpExchange ----------------------------
(***************************************************************************)
(* What travels on the two sockets of one connection thread when its       *)
(* requests go to the origin: getHttpRequest and sendHttpResponse of       *)
(* src/src/proxy-server.cc, sendHttpRequest and getHttpResponse of         *)
(* src/src/proxy-server-client.cc, recv_until and recv_nth of              *)
(* src/src/common.cc, ParseRequest and ParseResponse.  The cache is in     *)
(* module OnConnect, whose FetchOk and GotRequest abstract this module;    *)
(* which descriptor the origin socket is, in ProxyServerClient.            *)
(*                                                                         *)
(* A socket is the sequence of units still to be received: lines, and      *)
(* pieces of a body.  recv returns any number of them, up to its buffer,   *)
(* whatever message they belong to.  recv returning 0 after the peer       *)
(* closed changes nothing and is called again: it is a stuttering step.    *)
(***************************************************************************)
EXTENDS HttpHeaders

CONSTANTS
  Requests,     \* what the client may send: sequences of lines
  Responses,    \* what the origin may answer: sequences of lines and pieces
  Remainders,   \* pairs of a line and of the request line that the end of it
                \* reads as, when a recv has cut off its start
  Hosts, Ports, \* of a URL; NoHost is the empty m_host of a new HttpRequest
  NoHost,
  HostText,     \* the text "host" or "host:port" of the Host header
  Number,       \* what operator>> reads from a text, or NotANumber
  NotANumber,
  BodySizes,    \* the values the variable body_size may have
  MaxRequests,  \* the client sends so many requests (a bound of the model)
  MaxChunk      \* recv returns at most so many units (its buffer)

ASSUME HttpExchangeAssumption ==
  /\ HostText \in [(Hosts \cup {NoHost}) \X Ports -> Texts]
  /\ NoHost \notin Hosts
  /\ BodySizes \subseteq Int
  /\ Number \in [Texts -> BodySizes \cup {NotANumber}]
  /\ NotANumber \notin Int
  /\ MaxRequests \in Nat
  /\ MaxChunk \in Nat \ {0}

ASSUME PortsAssumption == 80 \in Ports /\ Ports \subseteq 0..65535

\* The lines behind the first one of a message.
IsHeaderLine(u) ==
  \/ u.kind = "field" /\ u.name \in Names /\ u.text \in Texts
  \/ u.kind = "more" /\ u.text \in Texts
  \/ u.kind \in {"nocolon", "blank"}

\* A request ends at its empty line; a GET has no body.
IsRequest(r) ==
  /\ r \in Seq(Range(r))
  /\ Len(r) >= 2
  /\ r[1].kind = "request" => r[1].host \in Hosts /\ r[1].port \in Ports
  /\ r[1].kind # "reads"
  /\ \A i \in 2..Len(r) : IsHeaderLine(r[i]) /\ (r[i].kind = "blank" <=> i = Len(r))

\* If a response has an empty line, it is followed by the body and by nothing else.
IsResponse(r) ==
  /\ r \in Seq(Range(r))
  /\ \A i \in 2..Len(r) : IsHeaderLine(r[i]) \/ r[i].kind = "piece"
  /\ \A i, j \in DOMAIN r : r[i].kind = "blank" => (r[j].kind = "piece" <=> j > i)

ASSUME MessagesAssumption ==
  /\ \A r \in Requests : IsRequest(r)
  /\ \A r \in Responses : IsResponse(r)

\* A recv may cut a line: of that one remains only its "\n", or some text (or all
\* of it, when the recv ended right before it), which may happen to read as a
\* request line.
Lf == [kind |-> "lf"]
Torn == [kind |-> "torn"]
ReadsAsRequest == {pair[2] : pair \in Remainders}

ASSUME RemaindersAssumption ==
  \A l \in ReadsAsRequest : l.kind = "reads" /\ l.host \in Hosts /\ l.port \in Ports

Units == (UNION {Range(r) : r \in Requests \cup Responses})
           \cup {Torn, Lf} \cup ReadsAsRequest

VARIABLES
  sent,       \* the requests the client has sent
  cin,        \* the client's bytes that were not received yet
  origin,     \* the response of the origin server to the current request
  rin,        \* its bytes that were not received yet
  pc,
  persistent,
  data,       \* what recv_until has put together
  parser,     \* ParseHeaders and the header list it fills
  pos,        \* the line ParseHeaders is at
  m_host, m_port,
  length,     \* of recv_nth: what is still missing
  body,       \* of recv_nth: what it has put together
  answer      \* the status of the error response to be sent

reqVars == <<m_host, m_port>>
vars == <<sent, cin, origin, rin, pc, persistent, data, parser, pos, reqVars,
          length, body, answer>>

Alive == {"request", "requestLine", "requestHeaders", "forward", "header",
          "statusLine", "responseHeaders", "body", "answer", "error"}

TypeOK ==
  /\ sent \in Seq(Requests)
  /\ cin \in Seq(Units) /\ rin \in Seq(Units)
  /\ data \in Seq(Units) /\ body \in Seq(Units)
  /\ origin \in Responses \cup {<< >>}
  /\ pc \in Alive \cup {"closed", "terminated"}
  /\ persistent \in BOOLEAN
  /\ parser \in [headers : Seq(Headers), key : Names, value : Values]
  /\ pos \in Nat
  /\ m_host \in Hosts \cup {NoHost}
  /\ m_port \in Ports \cup {0}
  /\ length \in Int
  /\ answer \in {"none", "400", "408", "501"}

Init ==
  /\ sent = << >> /\ cin = << >>
  /\ origin = << >> /\ rin = << >>
  /\ pc = "request"
  /\ persistent = TRUE
  /\ data = << >>
  /\ parser = NewParser(<< >>)
  /\ pos = 1
  /\ m_host = NoHost /\ m_port = 0
  /\ length = 0 /\ body = << >>
  /\ answer = "none"

----------------------------------------------------------------------------
(* The two receive loops. *)

\* The client writes its next request, without waiting for an answer.
ClientSends(r) ==
  /\ pc \in Alive
  /\ Len(sent) < MaxRequests
  /\ sent' = Append(sent, r)
  /\ cin' = cin \o r
  /\ UNCHANGED <<origin, rin, pc, persistent, data, parser, pos, reqVars,
                 length, body, answer>>

\* memmem finds "\r\n\r\n": a line, not just the "\n" of one, and an empty line.
HasEnd(d) ==
  \E i \in DOMAIN d :
    i > 1 /\ d[i].kind = "blank" /\ d[i-1].kind \notin {"piece", "lf"}

\* What a recv that ends in the line u may leave of it.
Remains(u) ==
  CASE u.kind = "lf" -> {}
    [] u.kind = "blank" -> {Lf}
    [] OTHER -> {Lf, Torn} \cup {l \in ReadsAsRequest : <<u, l>> \in Remainders}

\* A recv takes n whole units, and maybe a part of the next.
Whole == [kind |-> "whole"]
Cuts == {Whole, Lf, Torn} \cup ReadsAsRequest
MayTake(stream, n, cut) ==
  IF cut = Whole THEN n <= Len(stream)
  ELSE n < Len(stream) /\ cut \in Remains(stream[n + 1])
Rest(stream, n, cut) ==
  LET left == SubSeq(stream, n + 1, Len(stream))
  IN IF cut = Whole THEN left ELSE <<cut>> \o Tail(left)

\* recv_until appends the next n units that arrived on the stream.
RecvUntil(stream, n, from, to) ==
  /\ pc = from
  /\ data' = data \o SubSeq(stream, 1, n)
  /\ pc' = IF HasEnd(data') THEN to ELSE from

\* When the header is complete, what was received behind it is lost with data:
\* the next request may start in the middle of a line.
RecvRequest(n, cut) ==
  /\ MayTake(cin, n, cut)
  /\ RecvUntil(cin, n, "request", "requestLine")
  /\ cut # Whole => pc' = "requestLine"
  /\ cin' = Rest(cin, n, cut)
  /\ UNCHANGED <<sent, origin, rin, persistent, parser, pos, reqVars,
                 length, body, answer>>

\* A chunk of exactly EAGAIN (11) characters is dropped and recv_until returns
\* EAGAIN.  getHttpRequest takes that for success: it parses what had arrived
\* before.
RecvRequestEagain(n, cut) ==
  /\ pc = "request"
  /\ MayTake(cin, n, cut)
  /\ n > 0 \/ cut # Whole
  /\ cin' = Rest(cin, n, cut)
  /\ pc' = "requestLine"
  /\ UNCHANGED <<sent, origin, rin, persistent, data, parser, pos, reqVars,
                 length, body, answer>>

RecvHeader(n) ==
  /\ n <= Len(rin)
  /\ RecvUntil(rin, n, "header", "statusLine")
  /\ rin' = SubSeq(rin, n + 1, Len(rin))
  /\ UNCHANGED <<sent, cin, origin, persistent, parser, pos, reqVars,
                 length, body, answer>>

\* Mutant: a chunk of exactly the missing size does not end the loop.
RecvBodyNotEnough(n) ==
  /\ pc = "body"
  /\ n <= Len(rin)
  /\ body' = body \o SubSeq(rin, 1, n)
  /\ rin' = SubSeq(rin, n + 1, Len(rin))
  /\ length' = length - n
  /\ pc' = IF length' >= 0 THEN "body" ELSE "answer"
  /\ UNCHANGED <<sent, cin, origin, persistent, data, parser, pos, reqVars, answer>>

\* Mutant: recv is called once.
RecvBodyOnce(n) ==
  /\ pc = "body"
  /\ n <= Len(rin)
  /\ body' = body \o SubSeq(rin, 1, n)
  /\ rin' = SubSeq(rin, n + 1, Len(rin))
  /\ length' = length - n
  /\ pc' = "answer"
  /\ UNCHANGED <<sent, cin, origin, persistent, data, parser, pos, reqVars, answer>>

\* Mutant: the size of the buffer is counted, not what recv returned.
RecvBodyCountsBuffer(n) ==
  /\ pc = "body"
  /\ n <= Len(rin)
  /\ body' = body \o SubSeq(rin, 1, n)
  /\ rin' = SubSeq(rin, n + 1, Len(rin))
  /\ length' = length - MaxChunk
  /\ pc' = IF length' > 0 THEN "body" ELSE "answer"
  /\ UNCHANGED <<sent, cin, origin, persistent, data, parser, pos, reqVars, answer>>

\* recv_nth: body_size is counted from here on, although pieces of the body
\* may have arrived, and be in data, with the end of the header.
RecvBody(n) ==
  /\ pc = "body"
  /\ n <= Len(rin)
  /\ body' = body \o SubSeq(rin, 1, n)
  /\ rin' = SubSeq(rin, n + 1, Len(rin))
  /\ length' = length - n
  /\ pc' = IF length' > 0 THEN "body" ELSE "answer"
  /\ UNCHANGED <<sent, cin, origin, persistent, data, parser, pos, reqVars, answer>>

----------------------------------------------------------------------------
(* How a request ends. *)

Reset ==
  /\ data' = << >> /\ body' = << >> /\ length' = 0
  /\ parser' = NewParser(<< >>) /\ pos' = 1
  /\ m_host' = NoHost /\ m_port' = 0
  /\ origin' = << >> /\ rin' = << >>
  /\ answer' = "none"

\* catch (ProxyServerException&): break, then close the client's socket.
Abandon(from) ==
  /\ pc = from
  /\ pc' = "closed"
  /\ Reset
  /\ UNCHANGED <<sent, cin, persistent>>

\* catch (ProxyServerErrorResponseException&): an error response is sent.
Refuse(from, status) ==
  /\ pc = from
  /\ pc' = "error"
  /\ answer' = status
  /\ UNCHANGED <<sent, cin, origin, rin, persistent, data, parser, pos, reqVars,
                 length, body>>

\* recv returns -1: an error, or the client's SO_RCVTIMEO has passed.
RecvFails == \E from \in {"request", "header", "body"} : Abandon(from)

\* The response's chunk of EAGAIN characters: 408, whatever had arrived.
RecvEagain ==
  /\ rin # << >>
  /\ Refuse("header", "408") \/ Refuse("body", "408")

----------------------------------------------------------------------------
(* ParseRequest and ParseHeaders. *)

\* What is taken for a request line: one, or the end of another line.
IsRequestLine(u) == u.kind \in {"request", "reads"}

\* A request line's first word is not GET, or it cannot be read as three words,
\* or its URL has a host and no path.
RequestLineBad ==
  /\ pc = "requestLine"
  /\ \/ data = << >> /\ Refuse("requestLine", "400")
     \/ /\ data # << >>
        /\ \/ data[1].kind = "blank" /\ Refuse("requestLine", "400")
           \/ data[1].kind \in {"torn", "lf"}
              /\ \E s \in {"400", "501"} : Refuse("requestLine", s)
           \/ data[1].kind \in {"field", "more", "nocolon"}
              /\ Refuse("requestLine", "501")
           \/ /\ IsRequestLine(data[1])
              /\ \/ data[1].method # "GET" /\ Refuse("requestLine", "501")
                 \/ /\ data[1].method = "GET"
                    /\ data[1].form # "badport"
                    /\ data[1].form \in {"none", "noslash"} \/ ~data[1].version
                    /\ Refuse("requestLine", "400")

\* lexical_cast<unsigned short> throws, and nobody catches that.
RequestLineBadPort ==
  /\ pc = "requestLine"
  /\ data # << >>
  /\ IsRequestLine(data[1])
  /\ data[1].method = "GET" /\ data[1].form = "badport"
  /\ pc' = "terminated"
  /\ UNCHANGED <<sent, cin, origin, rin, persistent, data, parser, pos, reqVars,
                 length, body, answer>>

\* The Host header that SetPort and SetHost leave behind.
SetHostAndPort(h, host, port) ==
  ModifyHeader(ModifyHeader(h, "Host", <<HostText[<<NoHost, port>>]>>),
               "Host", <<HostText[<<host, port>>]>>)

\* Mutant: the port is kept in a signed short.
RequestLineShort ==
  LET l == data[1]
  IN /\ pc = "requestLine"
     /\ data # << >>
     /\ IsRequestLine(l)
     /\ l.method = "GET" /\ l.version
     /\ l.form = "absolute"
     /\ m_host' = l.host
     /\ m_port' = IF l.port < 2^15 THEN l.port ELSE l.port - 2^16
     /\ parser' = NewParser(SetHostAndPort(<< >>, l.host, l.port))
     /\ pos' = 2
     /\ pc' = "requestHeaders"
     /\ UNCHANGED <<sent, cin, origin, rin, persistent, data, length, body, answer>>

\* A good request line: an absolute URL sets host, port and the Host header, a
\* bare path none of them.
RequestLine ==
  LET l == data[1]
  IN /\ pc = "requestLine"
     /\ data # << >>
     /\ IsRequestLine(l)
     /\ l.method = "GET" /\ l.version
     /\ \/ /\ l.form = "path"
           /\ parser' = NewParser(<< >>)
           /\ UNCHANGED reqVars
        \/ /\ l.form = "absolute"
           /\ m_host' = l.host /\ m_port' = l.port
           /\ parser' = NewParser(SetHostAndPort(<< >>, l.host, l.port))
     /\ pos' = 2
     /\ pc' = "requestHeaders"
     /\ UNCHANGED <<sent, cin, origin, rin, persistent, data, length, body, answer>>

\* The while loop of ParseHeaders takes the next line ...
HeaderLine(from) ==
  /\ pc = from
  /\ pos <= Len(data)
  /\ data[pos].kind # "blank"
  /\ ~BadLine(parser, data[pos])
  /\ parser' = ParseLine(parser, data[pos])
  /\ pos' = pos + 1
  /\ UNCHANGED <<sent, cin, origin, rin, pc, persistent, data, reqVars, length,
                 body, answer>>

\* ... is at its end ...
HeaderEnd == pos <= Len(data) /\ data[pos].kind = "blank"

\* ... or throws a ParseException: the line, or no empty line at the end.
HeaderBad ==
  \/ pos > Len(data)
  \/ pos <= Len(data) /\ data[pos].kind # "blank" /\ BadLine(parser, data[pos])

RequestHeadersBad ==
  /\ HeaderBad
  /\ Refuse("requestHeaders", "400")

\* Mutant: no empty line is needed.
RequestHeadersDoneEarly ==
  /\ pc = "requestHeaders"
  /\ HeaderEnd \/ pos > Len(data)
  /\ persistent' = (FindHeader(parser.headers, "Connection") # <<"close">>)
  /\ pc' = "forward"
  /\ UNCHANGED <<sent, cin, origin, rin, data, parser, pos, reqVars, length,
                 body, answer>>

\* The request is parsed; the rest of data, another request maybe, is dropped.
RequestHeadersDone ==
  /\ pc = "requestHeaders"
  /\ HeaderEnd
  /\ persistent' = (FindHeader(parser.headers, "Connection") # <<"close">>)
  /\ pc' = "forward"
  /\ UNCHANGED <<sent, cin, origin, rin, data, parser, pos, reqVars, length,
                 body, answer>>

----------------------------------------------------------------------------
(* The origin: sendHttpRequest, and getHttpResponse with ParseResponse. *)

\* connectServer and send succeed and the origin answers with r.  Without a
\* host getaddrinfo fails, and no request is sent on a socket of its own.
Forward(r) ==
  /\ pc = "forward"
  /\ m_host # NoHost
  /\ pc' = "header"
  /\ origin' = r /\ rin' = r
  /\ data' = << >>
  /\ parser' = NewParser(<< >>) /\ pos' = 1
  /\ UNCHANGED <<sent, cin, persistent, reqVars, length, body, answer>>

ForwardFails == Abandon("forward")

StatusLine ==
  /\ pc = "statusLine"
  /\ data[1].kind = "status"
  /\ pos' = 2
  /\ pc' = "responseHeaders"
  /\ UNCHANGED <<sent, cin, origin, rin, persistent, data, parser, reqVars,
                 length, body, answer>>

\* Fewer than three words, or not "HTTP/".
StatusLineBad ==
  /\ pc = "statusLine"
  /\ data[1].kind # "status"
  /\ Abandon("statusLine")

ResponseHeadersBad ==
  /\ HeaderBad
  /\ Abandon("responseHeaders")

\* The header is parsed.  A Content-Length that is no number leaves body_size
\* unset; an empty one is taken for a missing one.
ResponseHeadersDone ==
  LET cl == FindHeader(parser.headers, "Content-Length")
  IN /\ pc = "responseHeaders"
     /\ HeaderEnd
     /\ cl # Empty
     /\ \E n \in BodySizes :
          /\ Number[cl[1]] \in {n, NotANumber}
          /\ length' = n
          /\ pc' = IF n > 0 THEN "body" ELSE "answer"
     /\ body' = << >>
     /\ UNCHANGED <<sent, cin, origin, rin, persistent, data, parser, pos,
                    reqVars, answer>>

MissingLength ==
  /\ pc = "responseHeaders"
  /\ HeaderEnd
  /\ FindHeader(parser.headers, "Content-Length") = Empty
  /\ Abandon("responseHeaders")

----------------------------------------------------------------------------
(* sendHttpResponse, and the end of the loop. *)

\* What is sent to the client, and saved: resp.entire.
entire == data \o body

LoopEnd == IF persistent THEN "request" ELSE "closed"

Answer ==
  /\ pc = "answer"
  /\ pc' = LoopEnd
  /\ Reset
  /\ UNCHANGED <<sent, cin, persistent>>

AnswerFails == Abandon("answer")

AnswerError ==
  /\ pc = "error"
  /\ pc' = LoopEnd
  /\ Reset
  /\ UNCHANGED <<sent, cin, persistent>>

\* The exception leaves the handler, and with it the thread function.
AnswerErrorFails ==
  /\ pc = "error"
  /\ pc' = "terminated"
  /\ Reset
  /\ UNCHANGED <<sent, cin, persistent>>

\* recv, when bytes are there, and what the thread does without waiting.
Proceed ==
  \/ \E n \in 1..MaxChunk :
       \/ \E cut \in Cuts : RecvRequest(n, cut)
       \/ RecvHeader(n)
       \/ RecvBody(n)
  \/ RequestLineBad
  \/ RequestLineBadPort
  \/ RequestLine
  \/ HeaderLine("requestHeaders")
  \/ RequestHeadersBad
  \/ RequestHeadersDone
  \/ StatusLine
  \/ StatusLineBad
  \/ HeaderLine("responseHeaders")
  \/ ResponseHeadersBad
  \/ ResponseHeadersDone
  \/ MissingLength
  \/ Answer
  \/ AnswerError

Environment ==
  \/ \E r \in Requests : ClientSends(r)
  \/ \E n \in 0..MaxChunk, cut \in Cuts : RecvRequestEagain(n, cut)
  \/ RecvEagain
  \/ RecvFails
  \/ \E r \in Responses : Forward(r)
  \/ ForwardFails
  \/ AnswerFails
  \/ AnswerErrorFails

Next == Proceed \/ Environment

Spec == Init /\ [][Next]_vars

\* The kernel schedules the thread and delivers what has arrived.  Nothing is
\* assumed of failures: the origin's socket has no timeout.
FairSpec == Spec /\ WF_vars(Proceed)

----------------------------------------------------------------------------
(* Safety. *)

\* Data goes on, behind its first line, as the request r does behind line j.
GoesOn(r, j) == IsPrefix(SubSeq(r, j + 1, Len(r)), Tail(data))

\* No request is put together from parts of two.  However the client's bytes are
\* cut into chunks, pipelined requests read and dropped with the one before
\* them, or a chunk lost to the EAGAIN test of recv_until, what getHttpRequest
\* accepts starts with a request the client sent, from its first line to its
\* empty line.  Or, when the start of it was dropped, with what was left of one
\* of its lines, if that reads as a request line, followed by all of its lines
\* behind that one: a request nobody sent, although no line of it is made up.
AcceptedIsSent ==
  pc = "forward" =>
    \E i \in DOMAIN sent :
      \/ IsPrefix(sent[i], data)
      \/ data[1].kind = "reads" /\ \E j \in 1..Len(sent[i])-1 : GoesOn(sent[i], j)

\* The reference for ParseHeaders: the value of the last line with that name
\* and of the continuation lines right below it; otherwise the default.
Consumed == 2..pos-1
LastField(k) ==
  Max({0} \cup {i \in Consumed : data[i].kind = "field" /\ data[i].name = k})
Continues(i, j) == \A n \in i+1..j : data[n].kind = "more"
Reference(k, default) ==
  LET i == LastField(k)
      j == Max({n \in {i} \cup Consumed : n >= i /\ Continues(i, n)})
  IN IF i = 0 THEN default ELSE [n \in 1..j-i+1 |-> data[i+n-1].text]

DefaultOf(k) ==
  IF k = "Host" /\ m_host # NoHost /\ pc \in {"requestHeaders", "forward"}
  THEN <<HostText[<<m_host, m_port>>]>> ELSE Empty

\* At every line of the loop of ParseHeaders, FindHeader answers for every name
\* what the lines read so far say last: a repeated header replaces the earlier
\* one, continuation lines belong to the header above them, and a Host line
\* replaces the Host taken from the URL.
ParsedMatches ==
  pc \in {"requestHeaders", "forward", "responseHeaders", "body", "answer"} =>
    \A k \in Names : FindHeader(parser.headers, k) = Reference(k, DefaultOf(k))

\* However often lines repeat a name, the list has one header of it: what
\* FormatRequest forwards cannot contradict what FindHeader answered.
KeysUnique ==
  \A i, j \in DOMAIN parser.headers :
    parser.headers[i].key = parser.headers[j].key => i = j

\* The origin reads from the header that FormatHeaders writes the header list
\* the proxy had: formatting loses no line of a value and adds none; the one kind
\* of written line that ParseHeaders refuses, a continuation of a header without
\* a name, is not there; and GetTotalLength, which sizes the buffer, counts what
\* is written.
ForwardRoundTrip ==
  pc = "forward" =>
    LET lines == FormatHeaders(parser.headers)
    IN /\ ParseLines(lines).headers = parser.headers
       /\ Len(FindHeader(parser.headers, "")) = 1
       /\ SumSeq([i \in DOMAIN lines |-> LineSize(lines[i])])
            = GetTotalLength(parser.headers)

Pieces(r) == Cardinality({i \in DOMAIN r : r[i].kind = "piece"})

\* A response whose Content-Length is the length of its body is sent to the
\* client (and saved) whole or not at all, whatever chunks it arrives in; of
\* any other, a part without gaps from its start.
WholeResponse ==
  pc = "answer" =>
    /\ IsPrefix(entire, origin)
    /\ Number[FindHeader(parser.headers, "Content-Length")[1]] = Pieces(origin)
         => entire = origin

\* When Content-Length is right, recv_nth is short of what the origin has still
\* to deliver by exactly the pieces recv_until read with the header: it waits in
\* vain if, and only if, there are any.
MissingIsOverRead ==
  /\ pc \in {"body", "answer"}
  /\ Number[FindHeader(parser.headers, "Content-Length")[1]] = Pieces(origin)
  => length = Len(rin) + Pieces(data)

----------------------------------------------------------------------------
(* Liveness, under FairSpec. *)

\* A body of which enough is on its way is received: recv_nth stops when it has
\* counted Content-Length bytes, also when the last chunk ends exactly there.
BodyArrives == pc = "body" /\ length <= Len(rin) ~> pc # "body"

\* README: the client "will connect to the remote server to make request and
\* read the response": once it started to arrive, a response is read or the
\* exchange is given up.
ResponseRead ==
  pc = "header" ~> pc \in {"answer", "error", "closed", "terminated"}
=============================================================================
