---------------------------- MODULE HttpHeaders ----------------------------
(***************************************************************************)
(* The header list of a request or a response: class HttpHeaders of        *)
(* src/http-headers.cc.  A message is a sequence of lines, as the buffer   *)
(* holds them between two "\r\n"; names and texts are opaque.  A header's  *)
(* value is the sequence of its texts: the one after the ":", already      *)
(* trimmed, and one for every continuation line (a line that starts with a *)
(* blank), which the code glues on with "\r\n".  The empty string is the   *)
(* value <<"">>, which is also what FindHeader answers for no header.      *)
(***************************************************************************)
EXTENDS Integers, Sequences, SequencesExt

CONSTANTS
  Names,   \* header names, "" included: a line may start with its colon
  Texts,   \* the texts a value is made of, "" included
  Size     \* how many characters a name or a text has

ASSUME HttpHeadersAssumption ==
  /\ {"Host", "Connection", "Content-Length", ""} \subseteq Names
  /\ {"", "close"} \subseteq Texts
  /\ Size \in [Names \cup Texts -> Nat]
  /\ Size[""] = 0

Values == Seq(Texts) \ {<< >>}
Headers == [key : Names, value : Values]
Empty == <<"">>

\* Lines of a header: "name: text", a continuation line, a line without ":",
\* the empty line that ends the header.
Field(k, x) == [kind |-> "field", name |-> k, text |-> x]
More(x) == [kind |-> "more", text |-> x]
NoColon == [kind |-> "nocolon"]
Blank == [kind |-> "blank"]

----------------------------------------------------------------------------
(* The list. *)

\* Where std::find meets a header of that name.
Items(h, k) == {i \in DOMAIN h : h[i].key = k}

AddHeader(h, k, v) == Append(h, [key |-> k, value |-> v])

\* Mutant: a second header of the same name is added behind the first.
ModifyHeaderAdds(h, k, v) == AddHeader(h, k, v)

\* The first header of that name gets the value, or a header is added.
ModifyHeader(h, k, v) ==
  IF Items(h, k) = {} THEN AddHeader(h, k, v)
  ELSE [h EXCEPT ![Min(Items(h, k))].value = v]

FindHeader(h, k) ==
  IF Items(h, k) = {} THEN Empty ELSE h[Min(Items(h, k))].value

----------------------------------------------------------------------------
(* ParseHeaders, one line at a time: key and value are its local variables, *)
(* kept from one line to the next for the continuation lines.               *)

NewParser(h) == [headers |-> h, key |-> "", value |-> Empty]

ParseField(p, line) ==
  LET v == <<line.text>>
  IN [headers |-> ModifyHeader(p.headers, line.name, v), key |-> line.name, value |-> v]

\* Mutant: the value is not carried over to the next continuation line.
ParseMoreForgets(p, line) ==
  [p EXCEPT !.headers = ModifyHeader(@, p.key, Append(p.value, line.text))]

ParseMore(p, line) ==
  LET v == Append(p.value, line.text)
  IN [p EXCEPT !.headers = ModifyHeader(@, p.key, v), !.value = v]

\* The line ends in a ParseException: no ":", or a continuation of nothing.
BadLine(p, line) ==
  \/ line.kind = "nocolon"
  \/ line.kind = "more" /\ p.key = ""

ParseLine(p, line) ==
  IF line.kind = "more" THEN ParseMore(p, line) ELSE ParseField(p, line)

\* All the lines of a header, none of them bad.
ParseLines(lines) ==
  LET read[n \in 0..Len(lines)] ==
        IF n = 0 THEN NewParser(<< >>) ELSE ParseLine(read[n - 1], lines[n])
  IN read[Len(lines)]

----------------------------------------------------------------------------
(* FormatHeaders and GetTotalLength. *)

\* Mutant: only the first line of a value is written.
FormatHeaderShort(hd) == <<Field(hd.key, hd.value[1])>>

FormatHeader(hd) ==
  <<Field(hd.key, hd.value[1])>> \o [i \in 1..Len(hd.value)-1 |-> More(hd.value[i+1])]

FormatHeaders(h) ==
  LET written[n \in 0..Len(h)] ==
        IF n = 0 THEN << >> ELSE written[n - 1] \o FormatHeader(h[n])
  IN written[Len(h)]

SumSeq(s) ==
  LET sum[n \in 0..Len(s)] == IF n = 0 THEN 0 ELSE sum[n - 1] + s[n]
  IN sum[Len(s)]

\* The characters of a value: its texts and the "\r\n" between them.
ValueSize(v) == SumSeq([i \in DOMAIN v |-> Size[v[i]]]) + 2 * (Len(v) - 1)

GetTotalLength(h) ==
  SumSeq([i \in DOMAIN h |-> Size[h[i].key] + 2 + ValueSize(h[i].value) + 2])

\* The characters of a line as it is written, with its "\r\n".
LineSize(line) ==
  IF line.kind = "field" THEN Size[line.name] + 2 + Size[line.text] + 2
                         ELSE Size[line.text] + 2
=============================================================================
