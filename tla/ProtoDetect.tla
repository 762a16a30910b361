----------------------------- MODULE ProtoDetect -----------------------------
(***************************************************************************)
(* Application protocol detection (src/proto_detect.c) with the detectors  *)
(* it registers: the patterns of src/proto_http.c and the probing parsers  *)
(* of src/proto_tls.c and src/proto_dns.c.                                 *)
(*                                                                         *)
(* The first payload of a packet is a record: its length, the patterns     *)
(* found at its start, the twelve bytes the probers read (head[i] is       *)
(* data[i]) and what follows them as a DNS question.                       *)
(***************************************************************************)
EXTENDS Integers, SequencesExt

CONSTANTS
    enable_port_detection,     \* global_config
    max_inspect_depth

Protocols == {"UNKNOWN", "HTTP", "TLS", "DNS", "SSH", "FTP", "SMTP",
              "MYSQL", "PGSQL", "FAILED"}

(***************************************************************************)
(* The tables.  proto_detect_register_pattern and _prober add at the front *)
(* and proto_detect_init registers HTTP, TLS and DNS in this order, so the *)
(* list of probers is the order of registration reversed.                  *)
(***************************************************************************)
HttpPatterns == <<[dir |-> "ts", word |-> "method", proto |-> "HTTP"],
                  [dir |-> "tc", word |-> "version", proto |-> "HTTP"]>>
TlsProbers == <<[proto |-> "TLS", port |-> 443, min_depth |-> 5],
                [proto |-> "TLS", port |-> 0, min_depth |-> 5]>>
DnsProbers == <<[proto |-> "DNS", port |-> 53, min_depth |-> 12],
                [proto |-> "DNS", port |-> 0, min_depth |-> 12]>>

RegisterAll(entries) == Reverse(entries)

Probers == RegisterAll(TlsProbers \o DnsProbers)

U16(p, i) == p.head[i] * 256 + p.head[i + 1]

\* tls_probing_parser
TlsProbe(p) ==
    LET type == p.head[0]
        version == U16(p, 1)
    IN  IF type \notin 20 .. 24
        THEN IF type >= 128 /\ p.head[2] = 1 THEN "TLS" ELSE "FAILED"
        ELSE IF version \notin 768 .. 772 \/ U16(p, 3) > 16384 THEN "FAILED"
        ELSE IF type = 22 /\ p.len < 6 THEN "UNKNOWN"
        ELSE "TLS"

(***************************************************************************)
(* dns_probing_parser: the header, and for a query the question after it.  *)
(* p.question says how the loop over QNAME and the two tests after it end: *)
(* "ok", "bad" (a label over 63 bytes, a name over 255, a type of 0, a     *)
(* class that is not known) or "cut" (the payload ends first).             *)
(***************************************************************************)
DnsProbe(p) ==
    LET response == p.head[2] >= 128
        opcode == (p.head[2] \div 8) % 16
        qd == U16(p, 4)
        an == U16(p, 6)
    IN  IF \/ opcode > 5
           \/ ~response /\ qd = 0
           \/ response /\ qd = 0 /\ an = 0
           \/ qd + an + U16(p, 8) + U16(p, 10) > 100
        THEN "FAILED"
        ELSE IF response \/ p.len = 12 THEN "DNS"
        ELSE CASE p.question = "ok" -> "DNS"
               [] p.question = "bad" -> "FAILED"
               [] OTHER -> "UNKNOWN"

Probe(q, p) == IF q.proto = "TLS" THEN TlsProbe(p) ELSE DnsProbe(p)

\* try_pattern_detection
TryPattern(p, dir) ==
    LET found == {i \in 1 .. Len(HttpPatterns) :
                    HttpPatterns[i].dir = dir /\ HttpPatterns[i].word \in p.words}
    IN  IF found = {} THEN "UNKNOWN" ELSE HttpPatterns[CHOOSE i \in found : TRUE].proto

\* the port the code calls the server's: the source port when the packet
\* goes to the client
PortOf(ports, dir) == IF dir = "ts" THEN ports.dst ELSE ports.src

\* try_prober_detection: the first prober that has an opinion decides
TryProber(ports, p, dir) ==
    LET asked == SelectSeq(Probers, LAMBDA q :
                     q.port \in {0, PortOf(ports, dir)} /\ p.len >= q.min_depth)
        decided == SelectInSeq(asked, LAMBDA q : Probe(q, p) # "UNKNOWN")
    IN  IF decided = 0 THEN "UNKNOWN" ELSE Probe(asked[decided], p)

\* try_port_detection
TryPort(ports, dir) ==
    LET port == PortOf(ports, dir)
    IN  CASE port \in {80, 8080} -> "HTTP"
          [] port \in {443, 8443} -> "TLS"
          [] port = 53 -> "DNS"
          [] port = 22 -> "SSH"
          [] port = 21 -> "FTP"
          [] port = 25 -> "SMTP"
          [] port = 3306 -> "MYSQL"
          [] port = 5432 -> "PGSQL"
          [] OTHER -> "UNKNOWN"

\* proto_detect_get_proto
GetProto(ports, p, dir) ==
    LET q == [p EXCEPT !.len = IF @ > max_inspect_depth THEN max_inspect_depth ELSE @]
        pattern == TryPattern(q, dir)
        probed == TryProber(ports, q, dir)
    IN  IF q.len < 4 THEN "UNKNOWN"
        ELSE IF pattern # "UNKNOWN" THEN pattern
        ELSE IF probed # "UNKNOWN" THEN probed
        ELSE IF enable_port_detection THEN TryPort(ports, dir) ELSE "UNKNOWN"
=============================================================================
