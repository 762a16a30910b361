------------------------------ MODULE MCBridge ------------------------------
(***************************************************************************)
(* Instances of Bridge: a web flow to port 80 and a TLS flow to port 443.  *)
(***************************************************************************)
EXTENDS Bridge

CONSTANTS web, sec, l1

MCFlows == {web, sec}
MCPorts == [f \in MCFlows |-> [src |-> 40000, dst |-> IF f = web THEN 80 ELSE 443]]

\* rules of three kinds: a URI with two patterns, a warning, a server name
MCRules == SelectSeq(BuiltinRules, LAMBDA r : r.id \in {1001, 3002, 3004})

\* the first rule may lose its second condition
MCMayLose == {<<1001, 2>>}

\* both directions of a flow on one lcore
OneLcore(f, d) == l1

Benign == {"select"}
Suspect == {"union", "select"}

Reply == <<H!StatusLine(Benign, 200), H!HeaderLine, H!EmptyLine>>
Flow(ts, tc) == [d \in Dirs |-> IF d = "ts" THEN ts ELSE tc]
Silent == Flow(<< >>, << >>)

\* a web flow alone, and a TLS flow after one request
MCTraffic ==
    {[f \in MCFlows |-> IF f = web THEN Flow(ts, Reply) ELSE Silent] : ts \in
        {<<H!RequestLine(Suspect), H!HeaderLine, H!EmptyLine>>,
         <<H!ProxyRequestLine(Benign), H!HeaderLine, H!HeaderLine, H!HeaderLine>>}}
    \cup
    {[f \in MCFlows |-> IF f = web THEN Flow(<<H!RequestLine(Benign), H!EmptyLine>>, << >>)
                       ELSE Flow(<<T!Hello("client_hello", s[1], {".tk"}, FALSE),
                                   T!OtherRecord("app_data", "none")>>, s[2])] : s \in
        {<<13, <<T!Hello("server_hello", 12, {}, TRUE), T!Hello("server_hello", 13, {}, FALSE)>>>>,
         <<12, <<T!Hello("server_hello", 12, {}, FALSE)>>>>,
         <<13, <<T!BadLength(T!Hello("server_hello", 12, {}, TRUE)),
                 T!OtherRecord("handshake", "finished"),
                 T!OtherRecord("handshake", "certificate")>>>>,
         <<13, <<T!Oversize(T!OtherRecord("app_data", "none")),
                 T!Hello("server_hello", 12, {}, TRUE)>>>>}}

(***************************************************************************)
(* The start of a payload.  A whole HTTP line is long enough for its       *)
(* pattern; of a line or record that is cut there may be 3 bytes, too few  *)
(* for any detector, or 8.  The text in the middle of a line fails every   *)
(* prober.  The bytes of a hello are those of a record of 512 bytes.       *)
(***************************************************************************)
Text == [i \in 0 .. 11 |-> 97]
HelloBytes == [i \in 0 .. 11 |-> <<22, 3, 1, 2, 0, 1, 0, 1, 252, 3, 3, 97>>[i + 1]]

Payload(len, words, head) == [len |-> len, words |-> words, head |-> head, question |-> "bad"]

IsLine(u) == "uri" \in DOMAIN u
StartOf(u) ==
    IF IsLine(u)
    THEN Payload(40, IF u.status # 0 THEN {"version"}
                     ELSE IF u.uri # NoText THEN {"method"} ELSE {}, Text)
    ELSE Payload(517, {}, HelloBytes)

MCWire(u, mid, whole) ==
    IF mid THEN {Payload(20, {}, Text)}
    ELSE IF whole THEN {StartOf(u)}
    ELSE {[StartOf(u) EXCEPT !.len = 8],
          [StartOf(u) EXCEPT !.len = 3, !.words = {}]}
=============================================================================
