------------------------------- MODULE Bridge -------------------------------
(***************************************************************************)
(* process_packet (src/suricata_bridge.c) from flow_update on, for TCP:    *)
(* protocol detection, the parser of the flow, the detection systems an    *)
(* lcore creates when it first needs them, and the inspection of what was  *)
(* parsed.  It composes ProtoDetect, HttpParser, TlsParser and RuleEngine. *)
(*                                                                         *)
(* Two packets of one flow may be in process_packet at once when its two   *)
(* directions are received by different lcores (LcoreOf).  The lock of the *)
(* flow covers flow_update only, so a packet takes three steps: Receive,   *)
(* which also reads alproto, SetProto and Inspect.                         *)
(***************************************************************************)
EXTENDS RuleEngine

CONSTANTS
    Flows, Lcores,
    LcoreOf(_, _),      \* the lcore that receives a direction of a flow
    Ports,              \* [Flows -> [src, dst]]
    Traffic,            \* what each side of each flow may send
    Wire(_, _, _),      \* (unit, mid, whole): the payloads it may start
    BufferUnits,        \* units that fit in a stream_buffer_t
    FLOW_ALPROTO_MAX_ATTEMPTS,
    MayFail,            \* allocations that may fail,
    MayLose,            \* and those of the rules
    MaxPackets,         \* bound on the packets received,
    MaxFailures,        \* on the allocations that fail,
    MaxBehaved,         \* and on the alerts of the behavioral detector
    Sizes,              \* units that a packet completes
    HTTP_MAX_HEADERS, NoHello, TLS13, enable_port_detection, max_inspect_depth,
    NoParser            \* tcp->app_parser is null

ASSUME BridgeAssumption ==
    /\ enable_port_detection \in BOOLEAN /\ max_inspect_depth \in Nat
    /\ HTTP_MAX_HEADERS \in Nat \ {0} /\ FLOW_ALPROTO_MAX_ATTEMPTS \in Nat
    /\ Sizes \subseteq Nat

Dirs == {"ts", "tc"}

ASSUME TrafficAssumption ==
    \A s \in Traffic, f \in Flows, d \in Dirs : s[f][d] \in Seq(Range(s[f][d]))

H == INSTANCE HttpParser WITH NoUri <- NoText
T == INSTANCE TlsParser
D == INSTANCE ProtoDetect

VARIABLES
    stream,       \* what each side of a flow will send
    sent,         \* units of it that were sent
    buffer,       \* the reassembled data: [units, part]
    alproto, attempts, app_parser,    \* of flow_t and tcp_session_t
    work,         \* the packet an lcore is processing
    rule_engine, json_output, behavioral_detector,  \* one of each lcore
    packets,      \* packets received so far,
    failures,     \* allocations that failed,
    behaved,      \* and alerts of the behavioral detector
    seen,         \* transactions inspected with their request complete
    unwatched     \* transactions an lcore without rule engine handled

vars == <<stream, sent, buffer, alproto, attempts, app_parser, work, rule_engine,
          json_output, behavioral_detector, packets, failures, behaved, seen, unwatched>>

Idle == [at |-> "idle"]
NoEngine == [null |-> TRUE]       \* rule_engine is null

Init ==
    /\ stream \in Traffic
    /\ sent = [f \in Flows |-> [d \in Dirs |-> 0]]
    /\ buffer = [f \in Flows |-> [d \in Dirs |-> [units |-> << >>, part |-> FALSE]]]
    /\ alproto = [f \in Flows |-> "UNKNOWN"]
    /\ attempts = [f \in Flows |-> [d \in Dirs |-> 0]]
    /\ app_parser = [f \in Flows |-> NoParser]
    /\ work = [l \in Lcores |-> Idle]
    /\ rule_engine = [l \in Lcores |-> NoEngine]
    /\ json_output = [l \in Lcores |-> FALSE]
    /\ behavioral_detector = [l \in Lcores |-> FALSE]
    /\ packets = 0 /\ failures = 0 /\ behaved = 0 /\ seen = {} /\ unwatched = {}

\* the allocations of process_packet and those that succeed for one packet:
\* at most one fails, and MaxFailures in all
Allocs == {"ctx", "parser", "tx", "request", "uri", "header", "response", "client_hello",
           "sni", "server_hello", "certificate", "json", "engine", "behavioral"}
MemoriesFor(names) ==
    {Allocs} \cup {Allocs \ {a} : a \in IF failures < MaxFailures
                                       THEN MayFail \cap names ELSE {}}
CountFailure(mem, lost) == failures' = failures + Cardinality(lost) + Cardinality(Allocs \ mem)

(***************************************************************************)
(* flow_update inserts n more units of the stream, and the start of the    *)
(* next one if part.  A segment for which there is no room is refused, and *)
(* what is sent after it stays out of order.                               *)
(***************************************************************************)
Insert(f, d, n, part) ==
    LET b == buffer[f][d]
    IN  IF Len(b.units) = sent[f][d] /\ sent[f][d] + n <= BufferUnits
        THEN [units |-> b.units \o SubSeq(stream[f][d], sent[f][d] + 1, sent[f][d] + n),
              part |-> part]
        ELSE b

\* whether this packet is one the bridge tries to detect a protocol on, with
\* the state of the flow it reads after flow_update
Detects_again(f, d, payload) ==
    payload.len > 0 /\ attempts[f][d] < FLOW_ALPROTO_MAX_ATTEMPTS
Detects(f, d, payload) ==
    /\ alproto[f] = "UNKNOWN"
    /\ payload.len > 0
    /\ attempts[f][d] < FLOW_ALPROTO_MAX_ATTEMPTS

Receive(l, f, d, n, part, payload) ==
    /\ work[l] = Idle /\ LcoreOf(f, d) = l /\ packets < MaxPackets
    /\ sent[f][d] + n <= Len(stream[f][d])
    /\ part => sent[f][d] + n < Len(stream[f][d])
    /\ IF n = 0 /\ part = buffer[f][d].part
       THEN payload = [len |-> 0]
       ELSE payload \in Wire(stream[f][d][sent[f][d] + 1], buffer[f][d].part, n > 0)
    /\ n = 0 => (buffer[f][d].part => part)
    /\ buffer' = [buffer EXCEPT ![f][d] = Insert(f, d, n, part)]
    /\ sent' = [sent EXCEPT ![f][d] = @ + n]
    /\ packets' = packets + 1
    /\ work' = [work EXCEPT ![l] =
                  IF Detects(f, d, payload)
                  THEN [at |-> "detect", flow |-> f, dir |-> d,
                        proto |-> D!GetProto(Ports[f], payload, d)]
                  ELSE [at |-> "inspect", flow |-> f, dir |-> d, proto |-> "UNKNOWN"]]
    /\ UNCHANGED <<stream, alproto, attempts, app_parser, rule_engine, json_output,
                   behavioral_detector, failures, behaved, seen, unwatched>>

\* detection without the per-lcore context finds nothing, and counts all the same
SetProto(l) ==
    /\ work[l].at = "detect"
    /\ \E mem \in MemoriesFor({"ctx"}) :
        LET w == work[l]
        IN  /\ CountFailure(mem, {})
            /\ alproto' = IF "ctx" \in mem /\ w.proto # "UNKNOWN"
                          THEN [alproto EXCEPT ![w.flow] = w.proto] ELSE alproto
            /\ attempts' = [attempts EXCEPT ![w.flow][w.dir] = @ + 1]
    /\ work' = [work EXCEPT ![l].at = "inspect"]
    /\ UNCHANGED <<stream, sent, buffer, app_parser, rule_engine, json_output,
                   behavioral_detector, packets, behaved, seen, unwatched>>

(***************************************************************************)
(* Parsing.  A flow keeps its parser; a null one is tried again with the   *)
(* next packet.                                                            *)
(***************************************************************************)
ParserFor(f, kind, fresh, mem) ==
    IF app_parser[f] # NoParser THEN app_parser[f]
    ELSE IF "parser" \in mem THEN [kind |-> kind, conn |-> fresh]
    ELSE NoParser

HttpParsed(f, d, mem) ==
    LET p == ParserFor(f, "HTTP", H!NewConn, mem)
    IN  IF p = NoParser THEN p
        ELSE [p EXCEPT !.conn = H!HttpParse(@, buffer[f][d], d, mem)]

TlsParsed(f, d, mem) ==
    LET p == ParserFor(f, "TLS", T!NewTlsConn, mem)
    IN  IF p = NoParser THEN p
        ELSE [p EXCEPT !.conn = T!TlsParse(@, buffer[f][d], d, mem)]

\* the detection systems of the lcore, created by its first HTTP packet
EngineFor(l, mem, lost) ==
    IF rule_engine[l] # NoEngine THEN rule_engine[l]
    ELSE IF "engine" \in mem THEN NewEngine(lost)
    ELSE NoEngine

\* the behavioral detector may raise an alert of its own (BehavioralDetector)
BehavioralRule == Rule(9000, "NONE", "HIGH", "none", << >>)
Behaves(engine, present, f, alert) ==
    IF present /\ alert /\ engine # NoEngine THEN CreateAlert(engine, BehavioralRule, f, NoText) ELSE engine

\* the transaction the rule engine gets: the open one, after parsing
TxToInspect_mut(p, d) == IF p = NoParser \/ d = "ts" THEN 0 ELSE p.conn.current_tx
TxToInspect(p, d) == IF p = NoParser THEN 0 ELSE p.conn.current_tx

InspectHttpFlow(l, f, d, mem, lost, alert) ==
    LET p == HttpParsed(f, d, mem)
        fresh == rule_engine[l] = NoEngine /\ p # NoParser
        e == IF p = NoParser THEN rule_engine[l] ELSE EngineFor(l, mem, lost)
        tx == TxToInspect(p, d)
        b == IF fresh THEN e # NoEngine /\ "behavioral" \in mem ELSE behavioral_detector[l]
        inspected == IF e # NoEngine /\ tx # 0
                     THEN InspectHttp(e, f, p.conn.transactions[tx].request.uri) ELSE e
    IN  /\ app_parser' = [app_parser EXCEPT ![f] = p]
        /\ json_output' = IF fresh THEN [json_output EXCEPT ![l] = "json" \in mem]
                          ELSE json_output
        /\ behavioral_detector' = [behavioral_detector EXCEPT ![l] = b]
        /\ rule_engine' = [rule_engine EXCEPT ![l] = Behaves(inspected, b, f, alert)]
        /\ seen' = IF /\ e # NoEngine /\ tx # 0
                      /\ p.conn.transactions[tx].request.complete
                   THEN seen \cup {<<f, tx>>} ELSE seen
        /\ unwatched' = IF e = NoEngine /\ tx # 0
                        THEN unwatched \cup {<<f, tx>>} ELSE unwatched

InspectTlsFlow(l, f, d, mem, alert) ==
    LET p == TlsParsed(f, d, mem)
        e == rule_engine[l]
        inspected == IF /\ p # NoParser /\ e # NoEngine
                        /\ p.conn.client_hello # NoHello
                     THEN InspectTls(e, f, p.conn, NoHello) ELSE e
    IN  /\ app_parser' = [app_parser EXCEPT ![f] = p]
        /\ rule_engine' = [rule_engine EXCEPT ![l] =
                             Behaves(inspected, behavioral_detector[l], f, alert)]
        /\ UNCHANGED <<json_output, behavioral_detector, seen, unwatched>>

\* a flow of another protocol only meets the behavioral detector
InspectOther(l, f, alert) ==
    /\ rule_engine' = [rule_engine EXCEPT ![l] =
                         Behaves(rule_engine[l], behavioral_detector[l], f, alert)]
    /\ UNCHANGED <<app_parser, json_output, behavioral_detector, seen, unwatched>>

\* alproto is read again here; the rest of process_packet for this packet
Inspect(l) ==
    /\ work[l].at = "inspect"
    /\ work' = [work EXCEPT ![l] = Idle]
    /\ UNCHANGED <<stream, sent, buffer, alproto, attempts, packets>>
    /\ LET f == work[l].flow
           d == work[l].dir
       IN  \E alert \in BOOLEAN :
            /\ behaved' = IF alert THEN behaved + 1 ELSE behaved
            /\ \/ /\ alproto[f] = "HTTP"
                  /\ \E mem \in MemoriesFor(Allocs), lost \in {{}} \cup {{a} : a \in MayLose} :
                        /\ CountFailure(mem, lost) /\ failures' <= Max({MaxFailures, failures})
                        /\ InspectHttpFlow(l, f, d, mem, lost, alert)
               \/ /\ alproto[f] = "TLS"
                  /\ \E mem \in MemoriesFor(Allocs) :
                        /\ CountFailure(mem, {})
                        /\ InspectTlsFlow(l, f, d, mem, alert)
               \/ /\ alproto[f] \notin {"HTTP", "TLS"}
                  /\ InspectOther(l, f, alert)
                  /\ UNCHANGED failures
            /\ alert => behaved < MaxBehaved /\ behavioral_detector'[l]

Step(l) ==
    \/ \E f \in Flows, d \in Dirs, n \in Sizes, part \in BOOLEAN :
         \E payload \in {[len |-> 0]} \cup
                        (IF sent[f][d] < Len(stream[f][d])
                         THEN Wire(stream[f][d][sent[f][d] + 1], buffer[f][d].part, n > 0)
                         ELSE {}) :
             Receive(l, f, d, n, part, payload)
    \/ SetProto(l)
    \/ Inspect(l)

Next == \E l \in Lcores : Step(l)

Spec == Init /\ [][Next]_vars

-----------------------------------------------------------------------------
(***************************************************************************)
(* Properties                                                              *)
(***************************************************************************)

\* the kinds of values of the flow and of the lcore
TypeOK ==
    /\ alproto \in [Flows -> D!Protocols]
    /\ attempts \in [Flows -> [Dirs -> 0 .. FLOW_ALPROTO_MAX_ATTEMPTS]]
    /\ \A f \in Flows : app_parser[f] = NoParser \/ app_parser[f].kind \in {"HTTP", "TLS"}
    /\ \A l \in Lcores : work[l].at \in {"idle", "detect", "inspect"}

\* the parser of a flow is the one of its protocol
ParserMatchesProtocol ==
    \A f \in Flows : app_parser[f] # NoParser => app_parser[f].kind = alproto[f]

\* app_parser is a void pointer that process_packet and flow_free cast by what
\* alproto says: the parser is always the one of the flow's protocol, and the
\* attempts are limited
FlowSound == TypeOK /\ ParserMatchesProtocol

HttpConns == {app_parser[f].conn : f \in {g \in Flows : app_parser[g] # NoParser
                                                          /\ app_parser[g].kind = "HTTP"}}

\* the counters and the state of an HTTP connection agree with its list of
\* transactions: all but the open one are done, and every complete message
\* was counted once
TxAccounting ==
    \A c \in HttpConns :
        LET txs == c.transactions
            Count(P(_)) == Cardinality({i \in DOMAIN txs : P(txs[i])})
        IN  /\ c.requests_parsed = Count(LAMBDA t : t.request.complete)
            /\ c.responses_parsed = Count(LAMBDA t : t.response.complete)
            /\ c.responses_parsed = Count(LAMBDA t : t.state = "DONE")
            /\ \A i \in DOMAIN txs : i # c.current_tx => txs[i].state = "DONE"
            /\ (c.current_tx = 0) = (c.responses_parsed = Len(txs))
            /\ c.state \in {"RESPONSE_LINE", "RESPONSE_HEADERS"} =>
                   c.current_tx # 0 /\ txs[c.current_tx].request.complete

\* no later packet changes a transaction that is done: what was inspected and
\* written to the log stays what it was
DoneFrozen ==
    [][\A f \in Flows :
        app_parser[f] # NoParser /\ app_parser[f].kind = "HTTP" =>
            LET old == app_parser[f].conn.transactions
                new == app_parser'[f].conn.transactions
            IN  \A i \in DOMAIN old : old[i].state = "DONE" => new[i] = old[i]]_vars

\* a message never has more headers than the parser keeps, however often it
\* is parsed again
HeadersBounded ==
    \A c \in HttpConns : \A i \in DOMAIN c.transactions :
        /\ c.transactions[i].request.header_count <= HTTP_MAX_HEADERS
        /\ c.transactions[i].response.header_count <= HTTP_MAX_HEADERS

\* the HTTP connections of all flows are sound
HttpSound == TxAccounting /\ HeadersBounded

\* a transaction that is done was inspected after its request was complete,
\* unless the lcore had no rule engine when it came by
EveryRequestInspected ==
    \A f \in Flows :
        app_parser[f] # NoParser /\ app_parser[f].kind = "HTTP" =>
            \A i \in DOMAIN app_parser[f].conn.transactions :
                app_parser[f].conn.transactions[i].state = "DONE"
                    => <<f, i>> \in seen \cup unwatched

\* the list holds the newest alerts, newest first, without a gap, and at most
\* max_alerts of them; each alert was counted under one severity, and a
\* behavioral detector has an engine for its alerts
AlertsKept ==
    \A l \in Lcores :
      /\ behavioral_detector[l] => rule_engine[l] # NoEngine
      /\ rule_engine[l] # NoEngine =>
        LET e == rule_engine[l]
        IN  /\ e.alert_count = Len(e.alerts)
            /\ Len(e.alerts) = Min({e.generated, MAX_ALERTS})
            /\ \A i \in DOMAIN e.alerts : e.alerts[i].id = e.generated - i + 1
            /\ SumFunction(e.by_severity) = e.generated

\* the warnings of a TLS connection, which the rules alert on, come from
\* hellos that are in its streams, whatever was parsed again and in whatever
\* order the two directions arrived
WarningsJustified ==
    \A f \in Flows : app_parser[f] # NoParser /\ app_parser[f].kind = "TLS" =>
        LET c == app_parser[f].conn
            hellos(kind) == {r \in UNION {Range(buffer[f][d].units) : d \in Dirs} : r.hs = kind}
        IN  /\ c.weak_cipher => \E r \in hellos("server_hello") : r.weak
            /\ c.version_downgrade =>
                  /\ \E r \in hellos("client_hello") : r.version >= TLS13
                  /\ \E r \in hellos("server_hello") : r.version < TLS13

\* what rule_engine.h says of a rule, that all of its conditions must match:
\* an alert on a URI needs a URI that has every pattern
AlertsMatchRules ==
    \A l \in Lcores : rule_engine[l] # NoEngine =>
        \A i \in DOMAIN rule_engine[l].alerts :
            LET a == rule_engine[l].alerts[i]
            IN  \A k \in DOMAIN Builtin :
                    Builtin[k].id = a.rule /\ Builtin[k].proto = "HTTP" =>
                        a.text # NoText /\ AllMatch(Builtin[k], a.text)
=============================================================================
