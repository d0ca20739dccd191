--------------------------------- MODULE Http ---------------------------------
(***************************************************************************)
(* The HTTP server and the HTTP client over one connection: two parsers of *)
(* a byte stream that is cut at any place.                                 *)
(*                                                                         *)
(* The stream is a sequence of units: the text of a request or status line *)
(* or of a header without its end, EOL for CR and LF, and Octet for a byte *)
(* of a body.  A line that is more than one unit, or one Octet, is no      *)
(* request line and no header.  Of the headers only Connection and         *)
(* Content-Length are kept, of the request line the method, the version    *)
(* and a number that stands for the path.                                  *)
(*                                                                         *)
(* The response is made with closeConnection = close, which is what        *)
(* HttpServer::onRequest asks for (httpresponse.h has lost that            *)
(* constructor).  TcpConnection is external: after shutdown nothing is     *)
(* sent, and reads go on.                                                  *)
(***************************************************************************)
EXTENDS Integers, Sequences, SequencesExt

CONSTANTS HttpRequests,     \* [method, version, connection, body] a client may send
          MaxHttpRequests   \* bound: requests on the connection

ASSUME HttpAssumption == MaxHttpRequests \in Nat

EndOfLine == [unit |-> "eol"]
Octet == [unit |-> "octet"]

VARIABLES http,         \* the server's HttpContext, its input and the connection
          httpWire,     \* request bytes on their way
          httpSent,     \* requests sent
          httpServed,   \* what onRequest was called with
          pipelined,    \* a request was sent before the answer to the one before it
          backWire,     \* response bytes on their way
          fetch         \* the client's HttpContext and what its callback got

httpVars == <<http, httpWire, httpSent, httpServed, pipelined, backWire, fetch>>

NoRequest == [method |-> "kInvalid", version |-> "kUnknown", path |-> 0, query |-> 0, connection |-> ""]

HttpInit ==
    /\ http = [state |-> "kExpectRequestLine", request |-> NoRequest, buf |-> <<>>, pc |-> "idle",
               ok |-> TRUE, connected |-> TRUE]
    /\ httpWire = <<>> /\ httpSent = <<>> /\ httpServed = <<>> /\ pipelined = FALSE /\ backWire = <<>>
    /\ fetch = [state |-> "kExpectRequestLine", size |-> -1, buf |-> <<>>, pc |-> "idle", bodies |-> <<>>]

-----------------------------------------------------------------------------
(* The stream of lines.                                                    *)

FindCRLF(buf) == SelectInSeq(buf, LAMBDA u : u = EndOfLine)
RetrieveLine(buf) == SubSeq(buf, FindCRLF(buf) + 1, Len(buf))

\* The unit of a line that is one text of the given kind.
LineIs(buf, kind) == FindCRLF(buf) = 2 /\ Head(buf).unit = kind

IsRequestLine(buf) == LineIs(buf, "request") /\ Head(buf).version # "other"

\* What setMethod takes from the first word of the line.
Method(buf) == IF LineIs(buf, "request") THEN Head(buf).method ELSE "kInvalid"

\* The bytes of request number n, as HttpRequest::appendToBuffer writes them.
RequestUnits(r, n) ==
    <<[unit |-> "request", method |-> r.method, version |-> r.version, path |-> n], EndOfLine>>
    \o (IF r.connection = "" THEN <<>> ELSE <<[unit |-> "header", value |-> r.connection], EndOfLine>>)
    \o <<EndOfLine>> \o [i \in 1 .. r.body |-> Octet]

\* HttpResponse::appendToBuffer: a length, unless the connection is to close.
ResponseUnits(close, body) ==
    <<[unit |-> "status"], EndOfLine>>
    \o (IF close THEN <<[unit |-> "header", value |-> -1], EndOfLine>>
                 ELSE <<[unit |-> "header", value |-> body], EndOfLine>>)
    \o <<EndOfLine>> \o [i \in 1 .. body |-> Octet]

-----------------------------------------------------------------------------
(* The server: one call of onMessage for each read.                        *)

onMessageCalled(n) ==
    /\ http.pc = "idle" /\ n \in 1 .. Len(httpWire)
    /\ http' = [http EXCEPT !.buf = @ \o SubSeq(httpWire, 1, n), !.pc = "parse", !.ok = TRUE]
    /\ httpWire' = SubSeq(httpWire, n + 1, Len(httpWire))
    /\ UNCHANGED <<httpSent, httpServed, pipelined, backWire, fetch>>

\* parseRequest, first state.  A bad line stays in the buffer, and a method
\* it has set stays in the request: the next call fails setMethod's assert.
parseRequestLine ==
    LET line == Head(http.buf)
    IN  /\ http.pc = "parse" /\ http.state = "kExpectRequestLine" /\ FindCRLF(http.buf) > 0
        /\ http' =
             IF http.request.method # "kInvalid" THEN [http EXCEPT !.pc = "aborted"]
             ELSE IF Method(http.buf) # "kInvalid" /\ IsRequestLine(http.buf)
             THEN [http EXCEPT !.buf = RetrieveLine(@), !.state = "kExpectHeaders",
                               !.request.method = line.method, !.request.version = line.version,
                               !.request.path = line.path]
             ELSE [http EXCEPT !.ok = FALSE, !.pc = "answer", !.request.method = Method(http.buf)]
        /\ UNCHANGED <<httpWire, httpSent, httpServed, pipelined, backWire, fetch>>

\* Second state: a line with a colon is a header, any other ends the headers.
parseRequestHeader ==
    /\ http.pc = "parse" /\ http.state = "kExpectHeaders" /\ FindCRLF(http.buf) > 0
    /\ http' = IF LineIs(http.buf, "header")
               THEN [http EXCEPT !.buf = RetrieveLine(@), !.request.connection = Head(http.buf).value]
               ELSE [http EXCEPT !.buf = RetrieveLine(@), !.state = "kGotAll", !.pc = "answer"]
    /\ UNCHANGED <<httpWire, httpSent, httpServed, pipelined, backWire, fetch>>

parseRequestWaits ==
    /\ http.pc = "parse" /\ FindCRLF(http.buf) = 0
    /\ http' = [http EXCEPT !.pc = "answer"]
    /\ UNCHANGED <<httpWire, httpSent, httpServed, pipelined, backWire, fetch>>

\* Mutant: the headers are not swapped out of the request.
ResetLeavesHeaders(h) ==
    [h EXCEPT !.state = "kExpectRequestLine", !.request.method = "kInvalid", !.request.path = 0, !.request.query = 0]

\* HttpContext::reset: HttpRequest::swap leaves the version.
contextReset(h) ==
    [h EXCEPT !.state = "kExpectRequestLine", !.request = [NoRequest EXCEPT !.version = h.request.version]]

CloseAsked(request) ==
    \/ request.connection = "close"
    \/ request.version = "kHttp10" /\ request.connection # "Keep-Alive"

\* The rest of onMessage: 400 for a bad line; onRequest for a whole request,
\* with what the buffer holds as the query of a POST.  The callback gives a
\* body of the path's length and may ask for the connection to be closed.
onMessageAnswers(closes) ==
    LET request == IF http.request.method = "kPost" THEN [http.request EXCEPT !.query = Len(http.buf)] ELSE http.request
        close == CloseAsked(request) \/ closes
        gotAll == http.state = "kGotAll"
        down == ~http.ok \/ (gotAll /\ close)
    IN  /\ http.pc = "answer"
        /\ http' = [(IF gotAll THEN contextReset(http) ELSE http) EXCEPT !.pc = "idle", !.connected = @ /\ ~down]
        /\ httpServed' = IF gotAll THEN Append(httpServed, request) ELSE httpServed
        /\ backWire' = CASE ~http.connected -> backWire
                         [] http.connected /\ ~http.ok -> backWire \o <<[unit |-> "status"], EndOfLine, EndOfLine>>
                         [] http.connected /\ http.ok /\ gotAll -> backWire \o ResponseUnits(close, request.path)
                         [] OTHER -> backWire
        /\ UNCHANGED <<httpWire, httpSent, pipelined, fetch>>

-----------------------------------------------------------------------------
(* The client: HttpClient::getUrl and postUrl send one request and read    *)
(* one response; other clients send more.                                  *)

SendRequest(r) ==
    /\ Len(httpSent) < MaxHttpRequests /\ http.connected
    /\ httpSent' = Append(httpSent, r)
    /\ httpWire' = httpWire \o RequestUnits(r, Len(httpSent) + 1)
    /\ pipelined' = (pipelined \/ Len(httpServed) < Len(httpSent))
    /\ UNCHANGED <<http, httpServed, backWire, fetch>>

\* HttpClient::onMessage; parseResponse in state kGotAll never returns.
onResponse(n) ==
    /\ fetch.pc = "idle" /\ Len(httpSent) = 1 /\ n \in 1 .. Len(backWire)
    /\ fetch' = [fetch EXCEPT !.buf = @ \o SubSeq(backWire, 1, n),
                              !.pc = IF fetch.state = "kGotAll" THEN "hung" ELSE "parse"]
    /\ backWire' = SubSeq(backWire, n + 1, Len(backWire))
    /\ UNCHANGED <<http, httpWire, httpSent, httpServed, pipelined>>

parseResponseLine ==
    /\ fetch.pc = "parse" /\ fetch.state \in {"kExpectRequestLine", "kExpectHeaders"}
    /\ fetch' =
         IF FindCRLF(fetch.buf) = 0 THEN [fetch EXCEPT !.pc = "idle"]
         ELSE IF fetch.state = "kExpectRequestLine" THEN [fetch EXCEPT !.buf = RetrieveLine(@), !.state = "kExpectHeaders"]
         ELSE IF LineIs(fetch.buf, "header") THEN [fetch EXCEPT !.buf = RetrieveLine(@), !.size = Head(fetch.buf).value]
         ELSE [fetch EXCEPT !.buf = RetrieveLine(@), !.state = "kExpectBody"]
    /\ UNCHANGED <<http, httpWire, httpSent, httpServed, pipelined, backWire>>

\* The body is there when the buffer holds exactly its length; without
\* Content-Length getBodySize asserts.
parseResponseBody ==
    /\ fetch.pc = "parse" /\ fetch.state = "kExpectBody"
    /\ fetch' = CASE fetch.size = -1 -> [fetch EXCEPT !.pc = "aborted"]
                  [] fetch.size = Len(fetch.buf) ->
                       [fetch EXCEPT !.pc = "idle", !.state = "kGotAll", !.buf = <<>>, !.bodies = Append(@, Len(fetch.buf))]
                  [] OTHER -> [fetch EXCEPT !.pc = "idle"]
    /\ UNCHANGED <<http, httpWire, httpSent, httpServed, pipelined, backWire>>

HttpNext ==
    \/ \E r \in HttpRequests : SendRequest(r)
    \/ \E n \in {1, Len(httpWire)} : onMessageCalled(n)
    \/ parseRequestLine \/ parseRequestHeader \/ parseRequestWaits
    \/ \E closes \in BOOLEAN : onMessageAnswers(closes)
    \/ \E n \in {1, Len(backWire)} : onResponse(n)
    \/ parseResponseLine \/ parseResponseBody

-----------------------------------------------------------------------------
\* Requests whose bytes the server takes to their end: no body is left in
\* the buffer, and no line is bad.
Plain(r) == r.body = 0 /\ r.version # "other" /\ r.method # "kInvalid"

(* However the stream is cut, onRequest sees the requests in their order,  *)
(* each with its own method, version and headers and nothing of an earlier *)
(* one, up to the first that leaves a body or a bad line behind; a client  *)
(* that waits for each answer gets it; and HttpClient calls back once,     *)
(* with the whole body (HttpContext::parseRequest, parseResponse, reset).  *)
HttpServed ==
    /\ \A i \in DOMAIN httpServed :
          (\A j \in 1 .. i - 1 : Plain(httpSent[j])) =>
             LET served == httpServed[i] IN
             /\ i <= Len(httpSent) /\ served.path = i
             /\ served.method = httpSent[i].method /\ served.version = httpSent[i].version
             /\ served.connection = httpSent[i].connection
             /\ ~pipelined => served.query <= httpSent[i].body
    /\ http.pc = "idle" /\ httpWire = <<>> /\ ~pipelined /\ http.connected
          /\ (\A i \in DOMAIN httpSent : Plain(httpSent[i]))
       => Len(httpServed) = Len(httpSent)
    /\ Len(fetch.bodies) <= 1 /\ \A i \in DOMAIN fetch.bodies : fetch.bodies[i] = httpServed[i].path
    /\ fetch.pc # "hung"
=============================================================================
