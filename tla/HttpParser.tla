----------------------------- MODULE HttpParser -----------------------------
(***************************************************************************)
(* The HTTP/1.x parser (src/http_parser.c): one http_conn_t per flow, a    *)
(* list of transactions, and http_parser_parse, which is handed the whole  *)
(* reassembled buffer of one direction each time a packet arrives.         *)
(*                                                                         *)
(* The text of a buffer is abstracted to its complete lines and whether    *)
(* bytes without an end of line follow them.  A line is a record that says *)
(* what each of the three line parsers makes of it:                        *)
(*   uri     the URI parse_request_line finds, NoUri if it is not METHOD   *)
(*           URI followed by a space                                       *)
(*   colon   parse_header finds a name                                     *)
(*   status  the code parse_response_line finds, 0 if there is none        *)
(* The connection is a record, and the functions of the parser are         *)
(* operators from connections to connections, so that the packet bridge    *)
(* can keep one parser for each flow.                                      *)
(***************************************************************************)
EXTENDS Integers, Sequences, FiniteSetsExt

CONSTANTS
    HTTP_MAX_HEADERS,  \* header lines kept of one message
    NoUri              \* a null uri, and a line in which there is none

\* kinds of line a client and a server send
RequestLine(u) == [uri |-> u, colon |-> FALSE, status |-> 0]
ProxyRequestLine(u) == [uri |-> u, colon |-> TRUE, status |-> 0]
StatusLine(u, code) == [uri |-> u, colon |-> FALSE, status |-> code]
HeaderLine == [uri |-> NoUri, colon |-> TRUE, status |-> 0]
EmptyLine == [uri |-> NoUri, colon |-> FALSE, status |-> 0]

\* rte_zmalloc of http_request_t and http_response_t
NewRequest == [uri |-> NoUri, header_count |-> 0, complete |-> FALSE]
NoResponse == [status |-> 0, header_count |-> 0, complete |-> FALSE, null |-> TRUE]
NewResponse == [NoResponse EXCEPT !.null = FALSE]

\* http_parser_init: both allocations succeed or there is no parser
NewConn ==
    [state |-> "IDLE", transactions |-> << >>, current_tx |-> 0,
     requests_parsed |-> 0, responses_parsed |-> 0, parse_errors |-> 0]

(***************************************************************************)
(* The loop of parse_request_headers and parse_response_headers over the   *)
(* lines from number i on.  Stop is the first line that ends it: the empty *)
(* line, a line without a colon, a header for which there is no memory, or *)
(* the one that fills the table; without such a line more data is needed.  *)
(* The count of headers is the count of the message, which an earlier call *)
(* may have left above 0.                                                  *)
(***************************************************************************)

HeaderLoop(msg, lines, i, mem) ==
    LET Fills(k) == lines[k].colon /\ "header" \in mem
                        /\ msg.header_count + k - i + 1 >= HTTP_MAX_HEADERS
        Ends(k) == ~lines[k].colon \/ "header" \notin mem \/ Fills(k)
        stops == {k \in i .. Len(lines) : Ends(k)}
        stop == Min(stops)
        AddTo(n) == [msg EXCEPT !.header_count = @ + n]
    IN  IF stops = {}
        THEN [msg |-> AddTo(Max({Len(lines) - i + 1, 0})), ret |-> "ok"]
        ELSE IF Fills(stop)
             THEN [msg |-> [AddTo(stop - i + 1) EXCEPT !.complete = TRUE], ret |-> "ok"]
             ELSE [msg |-> [AddTo(stop - i) EXCEPT !.complete = lines[stop] = EmptyLine],
                   ret |-> IF lines[stop] = EmptyLine THEN "ok" ELSE "error"]

\* the open transaction; http_get_current_transaction
Current(conn) == conn.transactions[conn.current_tx]

Error(conn) == [conn EXCEPT !.parse_errors = @ + 1, !.state = "ERROR"]

(***************************************************************************)
(* The request half of http_parser_parse                                   *)
(***************************************************************************)
\* the transaction the request line belongs to: a new one if none is open
OpenTransaction_mut(conn) ==
    IF conn.transactions # << >>
    THEN [conn EXCEPT !.current_tx = Len(conn.transactions)]
    ELSE [conn EXCEPT
             !.transactions = Append(@, [request |-> NewRequest, response |-> NoResponse,
                                         state |-> "REQUEST_LINE"]),
             !.current_tx = Len(conn.transactions) + 1]

OpenTransaction(conn) ==
    IF conn.current_tx # 0
    THEN conn
    ELSE [conn EXCEPT
             !.transactions = Append(@, [request |-> NewRequest, response |-> NoResponse,
                                         state |-> "REQUEST_LINE"]),
             !.current_tx = Len(conn.transactions) + 1]

\* headers from line i on; the message counts as parsed when it is complete
RequestHeaders(conn, lines, i, mem) ==
    LET h == HeaderLoop(Current(conn).request, lines, i, mem)
        c == [conn EXCEPT !.transactions[conn.current_tx].request = h.msg]
    IN  IF h.ret = "error" THEN Error(c)
        ELSE IF h.msg.complete
             THEN [c EXCEPT !.requests_parsed = @ + 1, !.state = "RESPONSE_LINE"]
             ELSE c

\* parse_request_line: the URI is lost when there is no memory for it
ReadRequestLine(conn, line, mem) ==
    LET tx == conn.current_tx
    IN  [conn EXCEPT
            !.state = "REQUEST_HEADERS",
            !.transactions[tx].state = "REQUEST_HEADERS",
            !.transactions[tx].request.uri = IF "uri" \in mem THEN line.uri ELSE NoUri]

ParseRequest(conn, buf, mem) ==
    IF conn.state = "IDLE"
    THEN IF conn.current_tx = 0 /\ ~({"tx", "request"} \subseteq mem)
         THEN conn
         ELSE LET c == OpenTransaction(conn)
              IN  IF buf.units = << >> THEN c
                  ELSE IF Head(buf.units).uri = NoUri THEN Error(c)
                  ELSE RequestHeaders(ReadRequestLine(c, Head(buf.units), mem),
                                      buf.units, 2, mem)
    ELSE IF conn.state = "REQUEST_HEADERS"
         THEN RequestHeaders(conn, buf.units, 1, mem)
         ELSE conn

(***************************************************************************)
(* The response half of http_parser_parse                                  *)
(***************************************************************************)
ResponseHeaders_mut(conn, lines, i, mem) ==
    LET h == HeaderLoop(Current(conn).response, lines, i, mem)
        c == [conn EXCEPT !.transactions[conn.current_tx].response = h.msg]
    IN  IF h.ret = "error" THEN Error(c)
        ELSE IF h.msg.complete
             THEN [c EXCEPT !.responses_parsed = @ + 1, !.state = "IDLE",
                            !.transactions[conn.current_tx].state = "DONE"]
             ELSE c

ResponseHeaders(conn, lines, i, mem) ==
    LET h == HeaderLoop(Current(conn).response, lines, i, mem)
        c == [conn EXCEPT !.transactions[conn.current_tx].response = h.msg]
    IN  IF h.ret = "error" THEN Error(c)
        ELSE IF h.msg.complete
             THEN [c EXCEPT !.responses_parsed = @ + 1, !.state = "IDLE",
                            !.transactions[conn.current_tx].state = "DONE",
                            !.current_tx = 0]
             ELSE c

\* parse_response_line
ReadStatusLine(conn, line) ==
    LET tx == conn.current_tx
    IN  [conn EXCEPT
            !.state = "RESPONSE_HEADERS",
            !.transactions[tx].state = "RESPONSE_HEADERS",
            !.transactions[tx].response.status = line.status]

ParseResponse(conn, buf, mem) ==
    IF conn.state = "RESPONSE_LINE"
    THEN IF conn.current_tx = 0 \/ (Current(conn).response.null /\ "response" \notin mem)
         THEN conn
         ELSE LET c == IF Current(conn).response.null
                       THEN [conn EXCEPT !.transactions[conn.current_tx].response = NewResponse]
                       ELSE conn
              IN  IF buf.units = << >> THEN c
                  ELSE IF Head(buf.units).status = 0 THEN Error(c)
                  ELSE ResponseHeaders(ReadStatusLine(c, Head(buf.units)), buf.units, 2, mem)
    ELSE IF conn.state = "RESPONSE_HEADERS"
         THEN ResponseHeaders(conn, buf.units, 1, mem)
         ELSE conn

\* http_parser_parse; an empty buffer is refused
HttpParse(conn, buf, dir, mem) ==
    IF buf.units = << >> /\ ~buf.part THEN conn
    ELSE IF dir = "ts" THEN ParseRequest(conn, buf, mem)
    ELSE ParseResponse(conn, buf, mem)
=============================================================================
