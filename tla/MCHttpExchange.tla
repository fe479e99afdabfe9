--------------------------- MODULE MCHttpExchange ---------------------------
(***************************************************************************)
(* The messages, names and texts of the TLC runs of HttpExchange: requests *)
(* and responses of every kind the code tells apart, few lines each.       *)
(***************************************************************************)
EXTENDS HttpExchange

MCNames == {"Host", "Connection", "connection", "Content-Length", ""}
AsText == "GET http://a/ HTTP/1.0"
MCTexts == {AsText, "", "a", "a:40000", ":40000", "b", "close", "0", "1", "2", "x"}
MCSize == [x \in MCNames \cup MCTexts |->
             CASE x = "" -> 0
               [] x \in {"a", "b", "0", "1", "2", "x"} -> 1
               [] x = "Host" -> 4
               [] x = "close" -> 5
               [] x = ":40000" -> 6
               [] x = "a:40000" -> 7
               [] x = AsText -> 22
               [] OTHER -> 10]
MCHostText == [hp \in {"a", "nohost"} \X {80, 40000} |->
                 CASE hp = <<"a", 80>> -> "a"
                   [] hp = <<"a", 40000>> -> "a:40000"
                   [] hp = <<"nohost", 80>> -> ""
                   [] OTHER -> ":40000"]
MCNumber == [x \in MCTexts |->
               CASE x = "0" -> 0 [] x = "1" -> 1 [] x = "2" -> 2 [] OTHER -> NotANumber]

Line(m, f, p, v) ==
  [kind |-> "request", method |-> m, form |-> f, host |-> "a", port |-> p, version |-> v]
Get == Line("GET", "absolute", 80, TRUE)

\* A persistent request, one that ends the connection after its header lines
\* were repeated and continued, and one of every kind the parser refuses.
GoodRequests ==
  {<<Get, Blank>>,
   <<Line("GET", "absolute", 40000, TRUE), Field("Host", "b"), Field("Connection", "x"),
     Field("Connection", "close"), Blank>>,
   <<Get, Field("connection", AsText), More("x"), More("b"), Field("", "x"), Blank>>}
BadRequests ==
  {<<Line("POST", "absolute", 80, TRUE), Blank>>,
   <<Line("GET", "badport", 80, TRUE), Blank>>,
   <<Line("GET", "noslash", 80, TRUE), Blank>>,
   <<Line("GET", "absolute", 80, FALSE), Blank>>,
   <<Line("GET", "path", 80, TRUE), Field("Host", "a"), Blank>>,
   <<Get, NoColon, Blank>>,
   <<Get, Field("", "x"), More("x"), Blank>>,
   <<Blank, Blank>>}
\* The value of a field, and the end of a line without a colon, that read as
\* request lines.
MCRemainders ==
  {<<Field("connection", AsText), [Get EXCEPT !.kind = "reads"]>>,
   <<NoColon, [Line("GET", "badport", 80, TRUE) EXCEPT !.kind = "reads"]>>}
MCRequests == GoodRequests \cup BadRequests

Status == [kind |-> "status"]
Piece(i) == [kind |-> "piece", at |-> i]
HonestResponses ==
  {<<Status, Field("Content-Length", "0"), Blank>>,
   <<Status, Field("Content-Length", "x"), Field("Content-Length", "2"), More("x"), Blank,
     Piece(1), Piece(2)>>}
MCResponses == HonestResponses \cup
  {<<Status, Field("Content-Length", "1"), Blank, Piece(1), Piece(2)>>,
   <<Status, Field("Content-Length", "x"), Blank, Piece(1)>>,
   <<Status, Field("Content-Length", ""), Blank, Piece(1)>>,
   <<Status, More("x"), Blank>>,
   <<NoColon, Blank>>}
=============================================================================
