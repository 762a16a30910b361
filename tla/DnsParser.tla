------------------------------ MODULE DnsParser ------------------------------
(***************************************************************************)
(* The DNS parser (src/dns_parser.c) behind the packet decoder and before  *)
(* the rule engine: what process_packet does with the UDP packets of a     *)
(* flow whose protocol is DNS, on an lcore whose rule engine was created   *)
(* before (Bridge models that).                                            *)
(*                                                                         *)
(* A payload is a sequence of cells.  A cell stands for a byte: 0 ends a   *)
(* name, up to DNS_MAX_LABEL_LEN it is the length of a label, from PTR on  *)
(* it starts a compression pointer.  The sizes of the header, and of what  *)
(* follows the name of a question (type and class) and of a record (type,  *)
(* class, ttl and rdlength) are parameters.  The counts in the header are  *)
(* fields of the frame: dns = [response, nxdomain, count].                 *)
(*                                                                         *)
(* A name is read one label or pointer at a time; the rest of a question   *)
(* or of a record is read, and memory for it allocated, in one step.       *)
(***************************************************************************)
EXTENDS RuleEngine

CONSTANTS
    Frames,
    LenMod,
    DNS_HEADER_SIZE, QuestionTail, RecordTail,
    DNS_MAX_NAME_LEN, DNS_MAX_LABEL_LEN, PTR,
    max_jumps,
    Limit,               \* questions, answers, authority and additional records
    MaxDots,             \* dots in a name that is not suspicious
    Printable,           \* cells that are copied as they are
    SuspiciousCells,     \* and those that stand for a suspicious TLD
    Domain, MX,          \* record types: CNAME, NS or PTR; MX
    MxPreference,        \* size of the preference of an MX record
    MaxPackets, MaxFailures,      \* bounds
    NoConn, NoTx, QuestionMark

ASSUME DnsAssumption ==
    /\ {DNS_HEADER_SIZE, QuestionTail, DNS_MAX_NAME_LEN} \subseteq Nat \ {0}
    /\ RecordTail \in Nat /\ RecordTail >= 2
    /\ DNS_MAX_LABEL_LEN \in Nat \ {0} /\ PTR \in Nat /\ PTR > DNS_MAX_LABEL_LEN
    /\ max_jumps \in Nat /\ LenMod \in Nat \ {0}
    /\ Limit \in [1 .. 4 -> Nat] /\ MaxDots \in Nat
    /\ MxPreference \in Nat /\ Domain # MX

P == INSTANCE PacketDecode

\* a frame holds the payload that follows its headers
ASSUME FrameAssumption ==
    \A f \in Frames :
        /\ {f.len, f.ihl, f.data_off} \subseteq Nat
        /\ f.dns \in [response : BOOLEAN, nxdomain : BOOLEAN, count : [1 .. 4 -> Nat]]
        /\ f.bytes \in Seq(Nat) /\ P!DecodePacket(f).payload_len <= Len(f.bytes)

\* dns_rr_t, dns_transaction_t and dns_conn_t; the characters of a name
Chars == Nat \cup {QuestionMark}
Records == [type : Nat, rdata : BOOLEAN, domain : BOOLEAN, next : Nat]
Transactions == [response : BOOLEAN, questions : Nat, qname : (SUBSET Chars) \cup {NoText},
                 qtype : Nat, dots : Nat, records : Seq(Records)]
Conns == [transactions : Seq(Transactions), queries : Nat, responses : Nat, nxdomain : Nat,
          parse_errors : Nat, suspicious_tld : BOOLEAN]

ASSUME NullAssumption ==
    NoConn \notin Conns /\ NoTx \notin Transactions

VARIABLES
    conn,       \* dns_conn_t, NoConn while protoctx.udp is null
    live,       \* blocks of memory allocated and not freed
    frame,      \* the packet in process_packet
    info,       \* what was decoded of it
    pc,         \* idle, section, name, rdata or inspect
    section, i, ptr,      \* where dns_parser_parse is
    walk,       \* the state of parse_dns_name
    rr,         \* the record whose data is being read
    tx,         \* the transaction being built
    engine,     \* the rule engine of the lcore
    packets, failures

vars == <<conn, live, frame, info, pc, section, i, ptr, walk, rr, tx, engine,
          packets, failures>>

payload == SubSeq(frame.bytes, 1, info.payload_len)
End == Len(payload)
Cell(p) == IF p < End THEN payload[p + 1] ELSE 0   \* whatever follows in the mbuf

\* dns_parser_init
NewConn == [transactions |-> << >>, queries |-> 0, responses |-> 0,
            nxdomain |-> 0, parse_errors |-> 0, suspicious_tld |-> FALSE]

NoWalk == [start |-> 0, p |-> 0, out |-> 0, dots |-> 0, chars |-> {},
           jumps |-> 0, consumed |-> 0, status |-> "bad"]
NoRR == [type |-> 0, rdata |-> FALSE, domain |-> FALSE, next |-> 0]

NoFrame == [len |-> 0, ether |-> "none", ihl |-> 0, proto |-> "none", data_off |-> 0,
            dns |-> [response |-> FALSE, nxdomain |-> FALSE, count |-> <<0, 0, 0, 0>>], bytes |-> << >>]

Init ==
    /\ conn = NoConn /\ live = 0
    /\ pc = "idle" /\ frame = NoFrame /\ info = P!DecodePacket(NoFrame)
    /\ section = 1 /\ i = 0 /\ ptr = 0
    /\ walk = NoWalk /\ rr = NoRR /\ tx = NoTx
    /\ engine = NewEngine({})
    /\ packets = 0 /\ failures = 0

-----------------------------------------------------------------------------
(***************************************************************************)
(* Memory: freed is what free_transaction gives back.                      *)
(***************************************************************************)
Allocs == {"conn", "tx", "q", "qname", "rr", "name", "rdata", "domain"}

Memories == {Allocs} \cup {Allocs \ {x} : x \in Allocs}
Allocate(mem) ==
    /\ mem # Allocs => failures < MaxFailures
    /\ failures' = IF mem = Allocs THEN failures ELSE failures + 1

One(b) == IF b THEN 1 ELSE 0

FreeRR_mut(r) == 2 + One(r.rdata) + One(r.type = Domain /\ r.domain)
FreeRR(r) == 2 + One(r.rdata) + One(r.type \in {Domain, MX} /\ r.domain)

\* the sum of a sequence
Total(s) ==
    LET upto[k \in 0 .. Len(s)] == IF k = 0 THEN 0 ELSE upto[k - 1] + s[k]
    IN  upto[Len(s)]

FreeTransaction(t) ==
    1 + 2 * t.questions + Total([k \in DOMAIN t.records |-> FreeRR(t.records[k])])

-----------------------------------------------------------------------------
(***************************************************************************)
(* parse_dns_name                                                          *)
(***************************************************************************)
Walk(start) == [NoWalk EXCEPT !.start = start, !.p = start, !.status = "walking"]

Bad(w) == [w EXCEPT !.status = "bad"]

CountJump_mut(w) == 1
CountJump(w) == w.jumps + 1
TooManyJumps(w) == CountJump(w) > max_jumps

Consumed_mut(w, size) == w.p - w.start + size
Consumed(w, size) == IF w.jumps = 0 THEN w.p - w.start + size ELSE w.consumed

FollowPointer(w) ==
    IF \/ w.p + 1 >= End
       \/ (Cell(w.p) - PTR) * 256 + Cell(w.p + 1) >= End
       \/ TooManyJumps(w)
    THEN Bad(w)
    ELSE [w EXCEPT !.consumed = Consumed(w, 2),
                   !.p = (Cell(w.p) - PTR) * 256 + Cell(w.p + 1),
                   !.jumps = CountJump(w)]

LabelFits_mut(w, len) == w.p + len <= End
LabelFits(w, len) == w.p + 1 + len <= End

TooLong(n) == n > DNS_MAX_NAME_LEN - 1

CopyLabel(w, len) ==
    LET dot == One(w.out # 0)
        copied == {Cell(q) : q \in w.p + 1 .. w.p + len}
        w1 == [w EXCEPT !.out = @ + dot + len, !.dots = @ + dot, !.p = @ + 1 + len,
                        !.chars = @ \cup {IF c \in Printable THEN c ELSE QuestionMark : c \in copied}]
    IN  IF ~LabelFits(w, len) THEN Bad(w)
        ELSE IF TooLong(w1.out) THEN Bad(w1) ELSE w1

WalkStep(w) ==
    IF w.p >= End THEN Bad(w)
    ELSE IF Cell(w.p) >= PTR THEN FollowPointer(w)
    ELSE IF Cell(w.p) = 0
    THEN [w EXCEPT !.consumed = Consumed(w, 1), !.status = "ok"]
    ELSE IF Cell(w.p) > DNS_MAX_LABEL_LEN THEN Bad(w)
    ELSE CopyLabel(w, Cell(w.p))

ReadName ==
    /\ pc \in {"name", "rdata"} /\ walk.status = "walking"
    /\ walk' = WalkStep(walk)
    /\ UNCHANGED <<conn, live, frame, info, pc, section, i, ptr, rr, tx, engine,
                   packets, failures>>

-----------------------------------------------------------------------------
(***************************************************************************)
(* process_packet: the next packet, and the head of dns_parser_parse       *)
(***************************************************************************)
\* process_packet returns: its variables are gone
Return ==
    /\ pc' = "idle"
    /\ frame' = NoFrame /\ info' = P!DecodePacket(NoFrame)
    /\ section' = 1 /\ i' = 0 /\ ptr' = 0 /\ walk' = NoWalk

Receive ==
    /\ pc = "idle" /\ packets < MaxPackets
    /\ packets' = packets + 1
    /\ frame' \in Frames
    /\ info' = P!DecodePacket(frame')
    /\ pc' = "received"
    /\ UNCHANGED <<conn, live, section, i, ptr, walk, rr, tx, engine, failures>>

IsDns == info.ok /\ "UDP" \in info.flags

Skip ==
    /\ pc = "received" /\ ~IsDns
    /\ Return
    /\ UNCHANGED <<conn, live, rr, tx, engine, packets, failures>>

Head0 == [response |-> frame.dns.response, questions |-> 0, qname |-> NoText, qtype |-> 0,
          dots |-> 0, records |-> << >>]

\* the counters of queries and responses are changed before the questions
\* are read
CountHeader(c) ==
    [c EXCEPT !.queries = @ + One(~frame.dns.response),
              !.responses = @ + One(frame.dns.response),
              !.nxdomain = @ + One(frame.dns.response /\ frame.dns.nxdomain)]

\* the parser is created by the first packet, also by one without payload
ParseHeader(mem) ==
    LET made == conn # NoConn \/ "conn" \in mem
        c == IF conn = NoConn /\ made THEN NewConn ELSE conn
        refused == End < DNS_HEADER_SIZE \/ "tx" \notin mem
    IN  /\ pc = "received" /\ IsDns
        /\ Allocate(mem)
        /\ IF ~made \/ info.payload_len = 0
           THEN /\ conn' = c /\ live' = live + One(made /\ conn = NoConn)
                /\ Return /\ UNCHANGED tx
           ELSE /\ conn' = IF refused THEN [c EXCEPT !.parse_errors = @ + 1]
                           ELSE CountHeader(c)
                /\ live' = live + One(conn = NoConn) + One(~refused)
                /\ tx' = IF refused THEN NoTx ELSE Head0
                /\ pc' = IF refused THEN "inspect" ELSE "section"
                /\ section' = 1 /\ i' = 0 /\ ptr' = DNS_HEADER_SIZE
                /\ UNCHANGED <<frame, info, walk>>
        /\ UNCHANGED <<rr, engine, packets>>

-----------------------------------------------------------------------------
(***************************************************************************)
(* The loops over the sections: questions, and in a response the records.  *)
(* An error in a question drops the transaction, an error in a record only *)
(* ends its section.                                                       *)
(***************************************************************************)
More == i < frame.dns.count[section] /\ i < Limit[section]

NextItem ==
    /\ pc = "section" /\ More
    /\ walk' = Walk(ptr)
    /\ pc' = "name"
    /\ UNCHANGED <<conn, live, frame, info, section, i, ptr, rr, tx, engine,
                   packets, failures>>

LastSection == section = 4 \/ ~tx.response

NextSection ==
    /\ pc = "section" /\ ~More /\ ~LastSection
    /\ section' = section + 1 /\ i' = 0
    /\ UNCHANGED <<conn, live, frame, info, pc, ptr, walk, rr, tx, engine, packets,
                   failures>>

\* the transaction is added at the front of the list
Finish ==
    /\ pc = "section" /\ ~More /\ LastSection
    /\ conn' = [conn EXCEPT !.transactions = <<tx>> \o @]
    /\ tx' = NoTx /\ walk' = NoWalk
    /\ pc' = "inspect"
    /\ UNCHANGED <<live, frame, info, section, i, ptr, rr, engine, packets, failures>>

SuspiciousDomain(w) == w.chars \cap SuspiciousCells # {} \/ w.dots > MaxDots

QuestionError(c) == [c EXCEPT !.parse_errors = @ + 1]

\* parse_dns_question after the name
EndQuestion(mem) ==
    LET read == walk.status = "ok" /\ ptr + walk.consumed + QuestionTail <= End
        made == read /\ {"q", "qname"} \subseteq mem
    IN  /\ pc = "name" /\ section = 1 /\ walk.status # "walking"
        /\ IF read THEN Allocate(mem) ELSE mem = Allocs /\ UNCHANGED failures
        /\ IF made
           THEN /\ tx' = [tx EXCEPT !.questions = @ + 1,
                              !.qname = IF i = 0 THEN walk.chars ELSE @,
                              !.qtype = IF i = 0 THEN Cell(ptr + walk.consumed) ELSE @,
                              !.dots = IF walk.dots > @ THEN walk.dots ELSE @]
                /\ live' = live + 2
                /\ conn' = [conn EXCEPT !.suspicious_tld = @ \/ SuspiciousDomain(walk)]
                /\ ptr' = ptr + walk.consumed + QuestionTail
                /\ i' = i + 1 /\ pc' = "section"
           ELSE /\ live' = live - FreeTransaction(tx)
                /\ conn' = QuestionError(conn)
                /\ tx' = NoTx
                /\ pc' = "inspect"
                /\ UNCHANGED <<ptr, i>>
        /\ UNCHANGED <<frame, info, section, walk, rr, engine, packets>>

\* parse_dns_rr after the name; when the data holds a name it is read next
EndRecord(mem) ==
    LET tail == ptr + walk.consumed
        fits == walk.status = "ok" /\ tail + RecordTail <= End
        type == Cell(tail)
        rdlength == Cell(tail + RecordTail - 1)
        read == fits /\ tail + RecordTail + rdlength <= End
        made == read /\ {"rr", "name"} \subseteq mem /\ (rdlength > 0 => "rdata" \in mem)
        named == rdlength > 0 /\ (type = Domain \/ (type = MX /\ rdlength >= MxPreference))
        new == [type |-> type, rdata |-> rdlength > 0, domain |-> FALSE,
                next |-> tail + RecordTail + rdlength]
    IN  /\ pc = "name" /\ section > 1 /\ walk.status # "walking"
        /\ IF read THEN Allocate(mem) ELSE mem = Allocs /\ UNCHANGED failures
        /\ \/ /\ made /\ named
              /\ rr' = new /\ pc' = "rdata"
              /\ walk' = Walk(tail + RecordTail + (IF type = MX THEN MxPreference ELSE 0))
              /\ live' = live + 3
              /\ UNCHANGED <<tx, i, ptr, section>>
           \/ /\ made /\ ~named
              /\ tx' = [tx EXCEPT !.records = Append(@, new)]
              /\ live' = live + 2 + One(new.rdata)
              /\ ptr' = new.next /\ i' = i + 1 /\ pc' = "section"
              /\ UNCHANGED <<section, walk, rr>>
           \/ /\ ~made
              /\ i' = Limit[section] /\ pc' = "section"
              /\ UNCHANGED <<tx, live, section, ptr, walk, rr>>
        /\ UNCHANGED <<conn, frame, info, engine, packets>>

\* the name in the data of a record is optional
EndRdata(mem) ==
    LET kept == walk.status = "ok" /\ "domain" \in mem
    IN  /\ pc = "rdata" /\ walk.status # "walking"
        /\ IF walk.status = "ok" THEN Allocate(mem) ELSE mem = Allocs /\ UNCHANGED failures
        /\ tx' = [tx EXCEPT !.records = Append(@, [rr EXCEPT !.domain = kept])]
        /\ live' = live + One(kept)
        /\ ptr' = rr.next /\ i' = i + 1 /\ pc' = "section"
        /\ rr' = NoRR
        /\ UNCHANGED <<conn, frame, info, section, walk, engine, packets>>

-----------------------------------------------------------------------------
\* dns_get_latest_transaction
Latest_mut(c) == c.transactions[Len(c.transactions)]
Latest(c) == Head(c.transactions)

\* the latest transaction is inspected, also after an error
Inspect ==
    /\ pc = "inspect"
    /\ engine' = IF conn.transactions = << >> THEN engine
                 ELSE InspectDns(engine, "flow", Latest(conn).qname, Latest(conn).qtype)
    /\ Return
    /\ UNCHANGED <<conn, live, rr, tx, packets, failures>>

\* dns_parser_free, when the flow is freed
Free ==
    /\ pc = "idle" /\ conn # NoConn
    /\ live' = live - 1 - Total([k \in DOMAIN conn.transactions |->
                                   FreeTransaction(conn.transactions[k])])
    /\ conn' = NoConn
    /\ UNCHANGED <<frame, info, pc, section, i, ptr, walk, rr, tx, engine, packets,
                   failures>>

Parse ==
    \/ Skip \/ ReadName \/ NextItem \/ NextSection \/ Finish \/ Inspect
    \/ \E mem \in Memories :
          ParseHeader(mem) \/ EndQuestion(mem) \/ EndRecord(mem) \/ EndRdata(mem)

Next == Receive \/ Parse \/ Free

Spec == Init /\ [][Next]_vars /\ WF_vars(Parse)

-----------------------------------------------------------------------------
(***************************************************************************)
(* Properties                                                              *)
(***************************************************************************)

\* where the parser is: a transaction is being built exactly between the
\* header and its end, and never more pointers were followed than allowed
TypeOK ==
    /\ pc \in {"received", "section", "name", "rdata", "inspect", "idle"}
    /\ section \in 1 .. 4
    /\ tx # NoTx <=> pc \in {"section", "name", "rdata"}
    /\ conn = NoConn => pc \in {"received", "idle"}
    /\ walk.jumps \in 0 .. max_jumps

\* neither the parser nor the walk over a name, wherever its pointers lead,
\* is ever beyond the end of the payload: what parse_dns_name, _question
\* and _rr return keeps the caller inside it
InPayload ==
    pc \in {"section", "name", "rdata"} =>
        ptr \in 0 .. End /\ walk.p \in 0 .. End /\ rr.next \in 0 .. End

\* a name that is accepted fits, with the zero after it, the buffer of
\* DNS_MAX_NAME_LEN + 1 bytes of the four callers of parse_dns_name.  Nothing
\* is said of names that are refused: a label is copied before the length
\* is checked.
NameFits == walk.status = "ok" => walk.out < DNS_MAX_NAME_LEN

\* the payload that is handed to the parsers is exactly what follows the
\* headers in the frame, and begins after a whole transport header.  Nothing
\* is said of the reads of decode_packet itself: when the length in the IP
\* header exceeds the frame, the transport header is read beyond it.
PayloadInFrame ==
    LET ip == IF frame.ether = "IPV4" THEN frame.ihl * 4 ELSE P!IpSize("IPV6") IN
    info.payload_len > 0
    => /\ info.offset + info.payload_len = frame.len
       /\ info.offset >= P!EtherSize + ip + P!TransportSize(frame.proto)

\* dns_parser_parse is given bytes of the frame only, stays inside them
\* wherever compression pointers lead, and keeps no name longer than the
\* buffers it is copied from
ParserInBounds == TypeOK /\ PayloadInFrame /\ InPayload /\ NameFits

\* where a name that starts at p ends in place
PlaceEnd(p) ==
    LET f[q \in 0 .. End] == IF q = End THEN End + 1
                             ELSE IF Cell(q) >= PTR THEN q + 2
                             ELSE IF Cell(q) = 0 THEN q + 1
                             ELSE IF q + 1 + Cell(q) > End THEN End + 1
                             ELSE f[q + 1 + Cell(q)]
    IN  f[p]

\* the labels of the name at p, as the places where they start, when at most
\* n pointers are followed
Labels(p, n) ==
    LET f[x \in (0 .. End) \X (0 .. n)] ==
            LET q == x[1]
                to == (Cell(q) - PTR) * 256 + Cell(q + 1) IN
            IF Cell(q) = 0 THEN << >>
            ELSE IF Cell(q) >= PTR
            THEN IF x[2] = 0 \/ to > End THEN << >> ELSE f[<<to, x[2] - 1>>]
            ELSE <<q>> \o (IF q + 1 + Cell(q) > End THEN << >> ELSE f[<<q + 1 + Cell(q), x[2]>>])
    IN  f[<<p, n>>]

\* an accepted name is the one the payload spells, through at most max_jumps
\* pointers, and its size in place is what the caller goes on from
NameFaithful ==
    walk.status = "ok" =>
        LET labels == Labels(walk.start, max_jumps)
        IN  /\ walk.consumed = PlaceEnd(walk.start) - walk.start
            /\ walk.out = Total([k \in DOMAIN labels |-> Cell(labels[k]) + 1])
                          - One(labels # << >>)

\* a query or response that was counted became a transaction, is becoming
\* one, or was counted as an error too, and no packet counts twice
DnsAccounting ==
    conn # NoConn =>
        LET kept == Len(conn.transactions) + One(tx # NoTx)
            counted == conn.queries + conn.responses
        IN  kept <= counted /\ counted <= kept + conn.parse_errors
                            /\ kept + conn.parse_errors <= packets

\* the blocks that belong to a record, a transaction and a connection
HeldRR(r) == 2 + One(r.rdata) + One(r.domain)
Held(t) == 1 + 2 * t.questions + Total([k \in DOMAIN t.records |-> HeldRR(t.records[k])])
HeldConn(c) == 1 + Total([k \in DOMAIN c.transactions |-> Held(c.transactions[k])])

\* every block of memory is reachable from the connection or the parse in
\* progress, and none is left when the flow is gone, whatever allocation
\* failed on the way
NoLeak ==
    live = (IF conn = NoConn THEN 0 ELSE HeldConn(conn))
           + (IF tx = NoTx THEN 0 ELSE Held(tx))
           + (IF pc = "rdata" THEN 3 ELSE 0)

\* every packet and every block of memory is accounted for
DnsAccounted == DnsAccounting /\ NoLeak

\* a connection that holds a suspicious name is marked
SuspectMarked ==
    conn # NoConn => \A k \in DOMAIN conn.transactions :
        LET t == conn.transactions[k]
        IN  t.dots > MaxDots \/ (t.qname # NoText /\ t.qname \cap SuspiciousCells # {})
            => conn.suspicious_tld

\* every transaction was inspected: when its name meets all conditions of a
\* rule for its type there is an alert of that rule on that name
DnsAlerted ==
    pc = "idle" /\ conn # NoConn =>
        \A k \in DOMAIN conn.transactions, r \in DOMAIN Builtin :
            LET name == conn.transactions[k].qname
                type == conn.transactions[k].qtype
            IN  name # NoText /\ AllMatch(Builtin[r], name) /\ Builtin[r].qtype \in {0, type} =>
                    \E a \in DOMAIN engine.alerts :
                        engine.alerts[a].rule = Builtin[r].id /\ engine.alerts[a].text = name

\* nothing suspicious goes by: marks and alerts agree with the names kept
NamesReported == SuspectMarked /\ DnsAlerted

\* no packet keeps the lcore: pointers that lead in a circle are given up
Terminates == pc # "idle" ~> pc = "idle"
=============================================================================
