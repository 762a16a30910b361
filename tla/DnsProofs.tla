------------------------------ MODULE DnsProofs ------------------------------
(***************************************************************************)
(* Theorems about DnsParser, for any frames, limits and sizes: the parser   *)
(* stays inside the payload, every packet and every block of memory is     *)
(* accounted for, an accepted name is what the payload spells, and a       *)
(* connection with a suspicious name is marked.                            *)
(***************************************************************************)
EXTENDS DnsParser, WellFoundedInduction, TLAPS

-----------------------------------------------------------------------------
(* The inductive invariant *)

Walks == [start : Nat, p : Nat, out : Nat, dots : Nat, chars : SUBSET Chars, jumps : Nat,
          consumed : Nat, status : {"walking", "ok", "bad"}]

(***************************************************************************)
(* A walk over a name of a payload of n cells.  Until a pointer is followed *)
(* it goes forward, so that what it consumed is not negative.              *)
(***************************************************************************)
WalkOK(w, n) ==
    /\ w \in Walks
    /\ w.p <= n /\ w.jumps <= max_jumps
    /\ w.jumps = 0 => w.start <= w.p
    /\ w.status # "bad" => w.out < DNS_MAX_NAME_LEN

Building == {"section", "name", "rdata"}

Types ==
    /\ pc \in Building \cup {"idle", "received", "inspect"}
    /\ section \in 1 .. 4 /\ i \in Nat /\ ptr \in Nat /\ packets \in Nat
    /\ frame \in Frames \cup {NoFrame} /\ info = P!DecodePacket(frame)
    /\ conn \in Conns \cup {NoConn} /\ tx \in Transactions \cup {NoTx}
    /\ rr \in Records

\* the variables of the parser are those of the packet in process_packet
Located ==
    /\ tx # NoTx <=> pc \in Building
    /\ conn = NoConn => pc \in {"idle", "received"}
    /\ pc \in {"idle", "received"} => walk = NoWalk
    /\ pc # "rdata" => rr = NoRR
    /\ WalkOK(walk, End)
    /\ pc \in Building => ptr <= End /\ rr.next <= End

\* with k transactions being built, of n packets all but m looked at
Counts(c, k, m, n) ==
    LET kept == Len(c.transactions) + k
        counted == c.queries + c.responses
    IN  /\ kept <= counted /\ counted <= kept + c.parse_errors
        /\ kept + c.parse_errors + m <= n

\* a packet counts when its header is read
Counted ==
    /\ pc # "idle" => packets > 0
    /\ conn # NoConn => Counts(conn, One(tx # NoTx), One(pc = "received"), packets)

\* what makes a transaction suspicious
Suspect(t) == t.dots > MaxDots \/ (t.qname # NoText /\ t.qname \cap SuspiciousCells # {})
Marked ==
    conn # NoConn =>
        /\ \A k \in DOMAIN conn.transactions :
              Suspect(conn.transactions[k]) => conn.suspicious_tld
        /\ tx # NoTx => (Suspect(tx) => conn.suspicious_tld)

DnsInv == Types /\ Located /\ Counted /\ Marked

-----------------------------------------------------------------------------
(* The decoder *)

LEMMA Constants ==
  /\ {DNS_HEADER_SIZE, QuestionTail, DNS_MAX_NAME_LEN} \subseteq Nat \ {0}
  /\ RecordTail \in Nat /\ RecordTail >= 2
  /\ DNS_MAX_LABEL_LEN \in Nat \ {0} /\ PTR \in Nat /\ PTR > DNS_MAX_LABEL_LEN
  /\ max_jumps \in Nat /\ LenMod \in Nat \ {0}
  /\ Limit \in [1 .. 4 -> Nat] /\ MaxDots \in Nat
  /\ MxPreference \in Nat /\ Domain # MX
BY DnsAssumption

LEMMA PtrType ==
  ASSUME NEW a \in Nat, NEW b \in Nat, a >= PTR
  PROVE  (a - PTR) * 256 + b \in Nat
BY Constants

LEMMA NoFrameDecoded == P!DecodePacket(NoFrame) = P!Info(FALSE, {}, 0, 0)
BY DEF P!DecodePacket, NoFrame

LEMMA ModLow ==
  ASSUME NEW x \in Nat, NEW m \in Nat \ {0}
  PROVE  x % m \in Nat /\ x % m <= x
OBVIOUS

LEMMA DecodedType ==
  ASSUME NEW f \in Frames
  PROVE  P!DecodePacket(f).payload_len \in Nat
<1>1. f.len \in Nat /\ f.ihl \in Nat /\ f.data_off \in Nat
  BY FrameAssumption
<1>2. P!DecodeIp(f) \in Nat
  BY <1>1 DEF P!DecodeIp, P!IpSize
<1>3. \A o : P!DecodeTransport(f, o) \in Nat
  BY <1>1 DEF P!DecodeTransport, P!TransportSize
<1> QED BY <1>1, <1>2, <1>3 DEF P!DecodePacket, P!Info, P!EtherSize

\* decode_packet: the payload is exactly what follows the headers
LEMMA PayloadOK == DnsInv => PayloadInFrame
<1> SUFFICES ASSUME DnsInv PROVE PayloadInFrame
  OBVIOUS
<1>1. info = P!DecodePacket(frame)
  BY DEF DnsInv, Types
<1>2. CASE frame = NoFrame
  BY <1>1, <1>2, NoFrameDecoded DEF PayloadInFrame, P!Info
<1>3. CASE frame \in Frames
  <2>1. frame.len \in Nat /\ frame.ihl \in Nat /\ frame.data_off \in Nat
    BY <1>3, FrameAssumption
  <2> DEFINE ip == P!DecodeIp(frame)
             start == P!EtherSize + ip
             header == P!DecodeTransport(frame, start)
             decoded == /\ frame.ether \in {"IPV4", "IPV6"} /\ ip # 0
                        /\ frame.proto \in {"TCP", "UDP", "ICMP"} /\ header # 0
  <2>2. ip # 0 => ip = IF frame.ether = "IPV4" THEN frame.ihl * 4 ELSE P!IpSize("IPV6")
    BY DEF P!DecodeIp
  <2>3. ip \in Nat /\ start \in Nat
    BY <2>1 DEF P!DecodeIp, P!IpSize, P!EtherSize
  <2>4. /\ header \in Nat
        /\ header # 0 => header >= P!TransportSize(frame.proto)
    <3> HIDE DEF start
    <3>1. start \in Nat /\ LenMod \in Nat \ {0}
      BY <2>3, Constants
    <3>2. (frame.len - start) % LenMod \in Nat
      BY <2>1, <3>1
    <3>3. P!TransportSize(frame.proto) \in Nat \ {0}
      BY DEF P!TransportSize
    <3>4. P!TransportSize("TCP") = 20
      BY DEF P!TransportSize
    <3> QED BY <2>1, <3>2, <3>3, <3>4 DEF P!DecodeTransport, P!Rest
  <2>5. CASE decoded
    <3>1. info = P!Info(TRUE, {"ETH", frame.ether, frame.proto}, start + header,
                        IF start + header < frame.len THEN frame.len - (start + header) ELSE 0)
          \/ (~info.ok /\ info.payload_len = 0)
      <4>1. CASE frame.len < P!EtherSize \/ frame.len = 0
        <5>1. info \in {P!Info(FALSE, {}, 0, 0), P!Info(FALSE, {"ERROR"}, 0, 0)}
          BY <1>1, <4>1 DEF P!DecodePacket
        <5> QED BY <5>1 DEF P!Info
      <4>2. CASE ~(frame.len < P!EtherSize \/ frame.len = 0)
        BY <1>1, <4>2, <2>5 DEF P!DecodePacket
      <4> QED BY <4>1, <4>2
    <3>2. P!TransportSize(frame.proto) \in Nat
      BY DEF P!TransportSize
    <3>4. start = P!EtherSize + (IF frame.ether = "IPV4" THEN frame.ihl * 4 ELSE P!IpSize("IPV6"))
      BY <2>2, <2>5
    <3>5. CASE ~info.ok /\ info.payload_len = 0
      BY <3>5 DEF PayloadInFrame
    <3>6. CASE info = P!Info(TRUE, {"ETH", frame.ether, frame.proto}, start + header,
                        IF start + header < frame.len THEN frame.len - (start + header) ELSE 0)
      <4>1. info.offset = start + header /\ info.payload_len =
                 (IF start + header < frame.len THEN frame.len - (start + header) ELSE 0)
        BY <3>6 DEF P!Info
      <4>2. info.payload_len > 0 => /\ info.offset + info.payload_len = frame.len
                                    /\ info.offset >= start + P!TransportSize(frame.proto)
        <5> HIDE DEF start, header
        <5> QED BY <4>1, <2>1, <2>3, <2>4, <2>5, <3>2
      <4> HIDE DEF start
      <4> QED BY <4>2, <3>4 DEF PayloadInFrame
    <3> QED BY <3>1, <3>5, <3>6
  <2>6. CASE ~decoded
    <3>1. info.payload_len = 0
      BY <1>1, <2>1, <2>6 DEF P!DecodePacket, P!Info
    <3> QED BY <3>1 DEF PayloadInFrame
  <2> QED BY <2>5, <2>6
<1> QED BY <1>2, <1>3 DEF DnsInv, Types

-----------------------------------------------------------------------------
(* parse_dns_name *)

LEMMA PayloadOf ==
  ASSUME NEW f \in Frames \cup {NoFrame}
  PROVE  SubSeq(f.bytes, 1, P!DecodePacket(f).payload_len) \in Seq(Nat)
<1>1. CASE f = NoFrame
  <2>1. P!DecodePacket(f).payload_len = 0 /\ f.bytes = << >>
    BY <1>1, NoFrameDecoded DEF P!Info, NoFrame
  <2> QED BY <2>1
<1>2. CASE f \in Frames
  BY <1>2, FrameAssumption, DecodedType
<1> QED BY <1>1, <1>2

LEMMA PayloadType ==
  ASSUME Types
  PROVE  End \in Nat /\ \A q \in Nat : Cell(q) \in Nat
<1>1. payload \in Seq(Nat)
  BY PayloadOf DEF Types, payload
<1> QED BY <1>1 DEF End, Cell

LEMMA NoWalkOK == ASSUME NEW n \in Nat PROVE WalkOK(NoWalk, n)
BY Constants DEF WalkOK, Walks, NoWalk

LEMMA NewWalkOK ==
  ASSUME NEW n \in Nat, NEW start \in Nat, start <= n
  PROVE  WalkOK(Walk(start), n)
<1>1. /\ NoWalk \in Walks /\ NoWalk.out = 0 /\ NoWalk.jumps = 0
  BY DEF Walks, NoWalk
<1>2. LET v == Walk(start)
      IN  /\ v \in Walks /\ v.start = start /\ v.p = start /\ v.out = 0 /\ v.jumps = 0
  BY <1>1 DEF Walk, Walks
<1> QED BY <1>2, Constants DEF WalkOK

LEMMA FollowOK ==
  ASSUME Types, NEW w, WalkOK(w, End), w.status = "walking", Cell(w.p) >= PTR
  PROVE  WalkOK(FollowPointer(w), End)
<1>1. w \in Walks /\ End \in Nat /\ Cell(w.p) \in Nat /\ Cell(w.p + 1) \in Nat
  BY PayloadType DEF WalkOK, Walks
<1>2. WalkOK(Bad(w), End)
  BY <1>1 DEF WalkOK, Walks, Bad
<1> DEFINE to == (Cell(w.p) - PTR) * 256 + Cell(w.p + 1)
           ahead == [w EXCEPT !.consumed = Consumed(w, 2), !.p = to, !.jumps = CountJump(w)]
<1>3. ASSUME ~(to >= End), ~TooManyJumps(w) PROVE WalkOK(ahead, End)
  <2>1. to \in Nat /\ to < End
    BY <1>1, <1>3, PtrType
  <2>2. Consumed(w, 2) \in Nat
    BY <1>1 DEF WalkOK, Walks, Consumed
  <2>3. CountJump(w) \in Nat /\ CountJump(w) # 0 /\ CountJump(w) <= max_jumps
    BY <1>1, <1>3, Constants DEF CountJump, TooManyJumps, Walks
  <2> HIDE DEF to
  <2>4. /\ ahead \in Walks /\ ahead.p = to /\ ahead.jumps = CountJump(w)
        /\ ahead.out = w.out /\ ahead.status = w.status
    BY <1>1, <2>1, <2>2, <2>3 DEF Walks
  <2> QED BY <2>1, <2>3, <2>4, <1>1 DEF WalkOK
<1> QED BY <1>2, <1>3 DEF FollowPointer

LEMMA CopyOK ==
  ASSUME Types, NEW w, WalkOK(w, End), w.status = "walking",
         NEW len \in Nat, len # 0, len <= DNS_MAX_LABEL_LEN
  PROVE  WalkOK(CopyLabel(w, len), End)
<1>1. w \in Walks /\ End \in Nat /\ \A q \in Nat : Cell(q) \in Nat
  BY PayloadType DEF WalkOK
<1> DEFINE dot == One(w.out # 0)
           copied == {Cell(q) : q \in w.p + 1 .. w.p + len}
           new == {IF c \in Printable THEN c ELSE QuestionMark : c \in copied}
           w1 == [w EXCEPT !.out = @ + dot + len, !.dots = @ + dot, !.p = @ + 1 + len,
                           !.chars = @ \cup new]
<1>2. dot \in {0, 1}
  BY DEF One
<1>3. new \subseteq Chars
  <2>1. copied \subseteq Nat
    BY <1>1 DEF Walks
  <2> HIDE DEF copied
  <2> QED BY <2>1 DEF Chars
<1>4. WalkOK(Bad(w), End)
  BY <1>1 DEF WalkOK, Walks, Bad
<1>5. ASSUME LabelFits(w, len)
      PROVE  /\ TooLong(w1.out) => WalkOK(Bad(w1), End)
             /\ ~TooLong(w1.out) => WalkOK(w1, End)
  <2>1. w.p + 1 + len <= End
    BY <1>5 DEF LabelFits
  <2> HIDE DEF dot, new
  <2>2. /\ w1 \in Walks /\ w1.p = w.p + 1 + len /\ w1.out = w.out + dot + len
        /\ w1.jumps = w.jumps /\ w1.start = w.start /\ w1.status = "walking"
    <3>1. w.p + 1 + len \in Nat /\ w.out + dot + len \in Nat /\ w.dots + dot \in Nat
      BY <1>1, <1>2 DEF Walks
    <3>2. w.chars \cup new \in SUBSET Chars
      BY <1>1, <1>3 DEF Walks
    <3> QED BY <1>1, <3>1, <3>2 DEF Walks
  <2>3. w1.p <= End /\ w1.jumps <= max_jumps /\ (w1.jumps = 0 => w1.start <= w1.p)
    BY <1>1, <2>1, <2>2 DEF WalkOK, Walks
  <2>4. ~TooLong(w1.out) => w1.out < DNS_MAX_NAME_LEN
    <3>1. w1.out \in Nat
      BY <2>2 DEF Walks
    <3> HIDE DEF w1
    <3> QED BY <3>1, Constants DEF TooLong
  <2> HIDE DEF w1
  <2> QED BY <2>2, <2>3, <2>4 DEF WalkOK, Walks, Bad
<1> QED BY <1>4, <1>5 DEF CopyLabel

\* one round of the loop of parse_dns_name, wherever a pointer leads
LEMMA WalkStepOK ==
  ASSUME Types, NEW w, WalkOK(w, End), w.status = "walking"
  PROVE  WalkOK(WalkStep(w), End)
<1>1. w \in Walks /\ End \in Nat /\ Cell(w.p) \in Nat
  BY PayloadType DEF WalkOK, Walks
<1>2. WalkOK(Bad(w), End)
  BY <1>1 DEF WalkOK, Walks, Bad
<1>3. WalkOK([w EXCEPT !.consumed = Consumed(w, 1), !.status = "ok"], End)
  <2>1. Consumed(w, 1) \in Nat
    BY <1>1 DEF WalkOK, Walks, Consumed
  <2> QED BY <1>1, <2>1 DEF WalkOK, Walks
<1>4. Cell(w.p) >= PTR => WalkOK(FollowPointer(w), End)
  BY FollowOK
<1>5. Cell(w.p) # 0 /\ ~(Cell(w.p) > DNS_MAX_LABEL_LEN) => WalkOK(CopyLabel(w, Cell(w.p)), End)
  BY <1>1, CopyOK, Constants
<1> QED BY <1>2, <1>3, <1>4, <1>5 DEF WalkStep
-----------------------------------------------------------------------------
(* The steps *)

\* process_packet returns
LEMMA ReturnOK ==
  ASSUME Types, Return, UNCHANGED <<rr, tx, packets>>, conn' \in Conns \cup {NoConn},
         rr = NoRR, tx = NoTx
  PROVE  Types' /\ Located'
<1>1. Types'
  BY DEF Types, Return, Building
<1>2. payload' = << >>
  <2>1. info'.payload_len = 0 /\ frame'.bytes = << >>
    BY NoFrameDecoded DEF Return, P!Info, NoFrame
  <2> QED BY <2>1 DEF payload
<1>3. End' = 0
  BY <1>2 DEF End
<1>4. WalkOK(walk', End')
  BY <1>3, NoWalkOK DEF Return
<1> QED BY <1>1, <1>4 DEF Located, Return, Building

\* a step that stays in the packet
LEMMA SamePacket ==
  ASSUME UNCHANGED <<frame, info>>
  PROVE  End' = End
BY DEF End, payload

LEMMA CountsMore ==
  ASSUME NEW c \in Conns, NEW k \in {0, 1}, NEW m \in {0, 1}, NEW n \in Nat, Counts(c, k, m, n)
  PROVE  Counts(c, k, 0, n) /\ Counts(c, k, 1, n + 1)
<1>1. /\ Len(c.transactions) \in Nat /\ c.queries \in Nat /\ c.responses \in Nat
      /\ c.parse_errors \in Nat
  BY DEF Conns
<1> QED BY <1>1 DEF Counts

\* a packet that is an error
LEMMA CountsError ==
  ASSUME NEW c \in Conns, NEW d, NEW n \in Nat, Counts(c, 0, 1, n),
         d.transactions = c.transactions, d.queries = c.queries, d.responses = c.responses,
         d.parse_errors = c.parse_errors + 1
  PROVE  Counts(d, 0, 0, n)
<1>1. /\ Len(c.transactions) \in Nat /\ c.queries \in Nat /\ c.responses \in Nat
      /\ c.parse_errors \in Nat
  BY DEF Conns
<1> QED BY <1>1 DEF Counts

\* a step that returns without a change of the counters
LEMMA CountedSame ==
  ASSUME Types, Counted, UNCHANGED <<conn, tx, packets>>, pc' = "idle"
  PROVE  Counted'
<1>1. One(pc' = "received") = 0 /\ One(pc = "received") \in {0, 1} /\ One(tx # NoTx) \in {0, 1}
  BY DEF One
<1>2. ASSUME conn # NoConn
      PROVE  Counts(conn, One(tx # NoTx), 0, packets)
  BY <1>1, <1>2, CountsMore DEF Types, Counted
<1> QED BY <1>1, <1>2 DEF Counted

LEMMA InitOK == Init => DnsInv
<1> SUFFICES ASSUME Init PROVE DnsInv
  OBVIOUS
<1>1. Types
  BY DEF Init, Types, NoRR, Records, Building
<1>2. WalkOK(walk, End)
  BY <1>1, PayloadType, NoWalkOK DEF Init
<1>3. Located
  BY <1>2 DEF Init, Located, Building
<1>4. Counted /\ Marked
  BY DEF Init, Counted, Marked
<1> QED BY <1>1, <1>3, <1>4 DEF DnsInv

LEMMA ReceiveOK == DnsInv /\ Receive => DnsInv'
<1> SUFFICES ASSUME DnsInv, Receive PROVE DnsInv'
  OBVIOUS
<1>1. Types'
  BY DEF DnsInv, Types, Receive, Building
<1>2. End' \in Nat
  <2>1. payload' \in Seq(Nat)
    BY <1>1, PayloadOf DEF Types, payload
  <2> QED BY <2>1 DEF End
<1>3. WalkOK(walk', End')
  BY <1>2, NoWalkOK DEF DnsInv, Located, Receive
<1>4. Located'
  BY <1>3 DEF DnsInv, Located, Receive, Building
<1>5. Counted'
  <2>1. One(pc' = "received") = 1 /\ One(pc = "received") \in {0, 1} /\ One(tx # NoTx) \in {0, 1}
    BY DEF One, Receive
  <2>2. ASSUME conn # NoConn
        PROVE  Counts(conn, One(tx # NoTx), 1, packets + 1)
    BY <2>1, <2>2, CountsMore DEF DnsInv, Types, Counted
  <2>3. packets' = packets + 1 /\ packets' > 0 /\ conn' = conn /\ tx' = tx
    BY DEF DnsInv, Types, Receive
  <2> QED BY <2>1, <2>2, <2>3 DEF Counted
<1>6. Marked'
  BY DEF DnsInv, Marked, Receive
<1> QED BY <1>1, <1>4, <1>5, <1>6 DEF DnsInv

LEMMA SkipOK == DnsInv /\ Skip => DnsInv'
<1> SUFFICES ASSUME DnsInv, Skip PROVE DnsInv'
  OBVIOUS
<1>1. rr = NoRR /\ tx = NoTx
  BY DEF DnsInv, Located, Skip, Building
<1>2. Types' /\ Located'
  BY <1>1, ReturnOK DEF DnsInv, Types, Skip
<1>3. Counted'
  BY CountedSame DEF DnsInv, Skip, Return
<1>4. Marked'
  BY DEF DnsInv, Marked, Skip
<1> QED BY <1>2, <1>3, <1>4 DEF DnsInv

LEMMA InspectOK == DnsInv /\ Inspect => DnsInv'
<1> SUFFICES ASSUME DnsInv, Inspect PROVE DnsInv'
  OBVIOUS
<1>1. rr = NoRR /\ tx = NoTx
  BY DEF DnsInv, Located, Inspect, Building
<1>2. Types' /\ Located'
  BY <1>1, ReturnOK DEF DnsInv, Types, Inspect
<1>3. Counted'
  BY CountedSame DEF DnsInv, Inspect, Return
<1>4. Marked'
  BY DEF DnsInv, Marked, Inspect
<1> QED BY <1>2, <1>3, <1>4 DEF DnsInv

LEMMA FreeOK == DnsInv /\ Free => DnsInv'
<1> SUFFICES ASSUME DnsInv, Free PROVE DnsInv'
  OBVIOUS
<1>1. End' = End
  BY SamePacket DEF Free
<1> QED BY <1>1 DEF DnsInv, Types, Located, Counted, Marked, Free

LEMMA ReadNameOK == DnsInv /\ ReadName => DnsInv'
<1> SUFFICES ASSUME DnsInv, ReadName PROVE DnsInv'
  OBVIOUS
<1>1. End' = End
  BY SamePacket DEF ReadName
<1>2. WalkOK(walk', End')
  BY <1>1, WalkStepOK DEF DnsInv, Located, ReadName
<1>3. Types' /\ Counted' /\ Marked'
  BY DEF DnsInv, Types, Counted, Marked, ReadName
<1>4. Located'
  BY <1>1, <1>2 DEF DnsInv, Located, ReadName, Building
<1> QED BY <1>3, <1>4 DEF DnsInv

LEMMA NextItemOK == DnsInv /\ NextItem => DnsInv'
<1> SUFFICES ASSUME DnsInv, NextItem PROVE DnsInv'
  OBVIOUS
<1>1. End' = End /\ End \in Nat
  BY SamePacket, PayloadType DEF DnsInv, NextItem
<1>2. WalkOK(walk', End')
  BY <1>1, NewWalkOK DEF DnsInv, Types, Located, NextItem, Building
<1>3. Types'
  BY DEF DnsInv, Types, NextItem, Building
<1>4. Located'
  BY <1>1, <1>2 DEF DnsInv, Located, NextItem, Building
<1>5. Counted' /\ Marked'
  BY DEF DnsInv, Counted, Marked, NextItem, One
<1> QED BY <1>3, <1>4, <1>5 DEF DnsInv

LEMMA NextSectionOK == DnsInv /\ NextSection => DnsInv'
<1> SUFFICES ASSUME DnsInv, NextSection PROVE DnsInv'
  OBVIOUS
<1>1. End' = End
  BY SamePacket DEF NextSection
<1>2. section' \in 1 .. 4
  BY DEF DnsInv, Types, NextSection, LastSection
<1>3. Types'
  BY <1>2 DEF DnsInv, Types, NextSection
<1>4. Located'
  BY <1>1 DEF DnsInv, Located, NextSection
<1>5. Counted' /\ Marked'
  BY DEF DnsInv, Counted, Marked, NextSection
<1> QED BY <1>3, <1>4, <1>5 DEF DnsInv
LEMMA FrameType ==
  ASSUME Types
  PROVE  frame.dns.response \in BOOLEAN /\ frame.dns.nxdomain \in BOOLEAN
<1>1. CASE frame = NoFrame
  BY <1>1 DEF NoFrame
<1>2. CASE frame \in Frames
  BY <1>2, FrameAssumption
<1> QED BY <1>1, <1>2 DEF Types

LEMMA NewConnOK ==
  /\ NewConn \in Conns /\ NewConn # NoConn
  /\ Len(NewConn.transactions) = 0 /\ DOMAIN NewConn.transactions = {}
  /\ NewConn.queries = 0 /\ NewConn.responses = 0 /\ NewConn.parse_errors = 0
<1>1. << >> \in Seq(Transactions) /\ Len(<< >>) = 0 /\ DOMAIN << >> = {}
  OBVIOUS
<1>2. NewConn \in Conns
  BY <1>1 DEF NewConn, Conns
<1> QED BY <1>1, <1>2, NullAssumption DEF NewConn

LEMMA ErrorOK ==
  ASSUME NEW c \in Conns
  PROVE  LET d == [c EXCEPT !.parse_errors = @ + 1]
         IN  /\ d \in Conns /\ d.parse_errors = c.parse_errors + 1
             /\ d.transactions = c.transactions /\ d.queries = c.queries
             /\ d.responses = c.responses /\ d.suspicious_tld = c.suspicious_tld
BY DEF Conns

LEMMA CountHeaderOK ==
  ASSUME Types, NEW c \in Conns
  PROVE  LET d == CountHeader(c)
         IN  /\ d \in Conns /\ d.parse_errors = c.parse_errors
             /\ d.transactions = c.transactions /\ d.suspicious_tld = c.suspicious_tld
             /\ d.queries + d.responses = c.queries + c.responses + 1
<1>1. /\ One(~frame.dns.response) \in Nat /\ One(frame.dns.response) \in Nat
      /\ One(frame.dns.response /\ frame.dns.nxdomain) \in Nat
      /\ One(~frame.dns.response) + One(frame.dns.response) = 1
  BY FrameType DEF One
<1>2. /\ c.queries + One(~frame.dns.response) \in Nat
      /\ c.responses + One(frame.dns.response) \in Nat
      /\ c.nxdomain + One(frame.dns.response /\ frame.dns.nxdomain) \in Nat
      /\ c.queries \in Nat /\ c.responses \in Nat
  BY <1>1 DEF Conns
<1> DEFINE d == CountHeader(c)
<1>3. /\ d.queries = c.queries + One(~frame.dns.response)
      /\ d.responses = c.responses + One(frame.dns.response)
      /\ d.parse_errors = c.parse_errors /\ d.transactions = c.transactions
      /\ d.suspicious_tld = c.suspicious_tld /\ d \in Conns
  BY <1>2 DEF CountHeader, Conns
<1> HIDE DEF d
<1>4. d.queries + d.responses = c.queries + c.responses + 1
  BY <1>1, <1>2, <1>3
<1> QED BY <1>3, <1>4 DEF d

LEMMA HeadOK == ASSUME Types PROVE Head0 \in Transactions /\ Head0 # NoTx /\ ~Suspect(Head0)
<1>1. Head0 \in Transactions
  <2>1. << >> \in Seq(Records)
    OBVIOUS
  <2> QED BY <2>1, FrameType DEF Head0, Transactions
<1> QED BY <1>1, NullAssumption, Constants DEF Head0, Suspect

\* dns_parser_init, if there is no connection, and the header of the packet
LEMMA ParseHeaderOK ==
  ASSUME NEW mem, DnsInv, ParseHeader(mem)
  PROVE  DnsInv'
<1> DEFINE made == conn # NoConn \/ "conn" \in mem
           c == IF conn = NoConn /\ made THEN NewConn ELSE conn
           refused == End < DNS_HEADER_SIZE \/ "tx" \notin mem
<1>1. /\ Types /\ pc = "received" /\ tx = NoTx /\ rr = NoRR /\ walk = NoWalk
      /\ packets \in Nat /\ packets > 0
  BY DEF DnsInv, Types, Located, Counted, ParseHeader, Building
<1>2. ASSUME made
      PROVE  /\ c \in Conns /\ Counts(c, 0, 1, packets)
             /\ \A k \in DOMAIN c.transactions :
                    Suspect(c.transactions[k]) => c.suspicious_tld
  <2>1. CASE conn = NoConn
    <3>1. c = NewConn
      BY <1>2, <2>1
    <3> HIDE DEF c
    <3> QED BY <1>1, <3>1, NewConnOK DEF Counts
  <2>2. CASE conn # NoConn
    <3>1. One(tx # NoTx) = 0 /\ One(pc = "received") = 1
      BY <1>1 DEF One
    <3> QED BY <2>2, <3>1 DEF DnsInv, Types, Counted, Marked
  <2> QED BY <2>1, <2>2
<1>3. CASE ~made \/ info.payload_len = 0
  <2>1. conn' = c /\ Return /\ UNCHANGED <<tx, rr, packets>>
    BY <1>3 DEF ParseHeader
  <2>2. ~made => c = NoConn
    OBVIOUS
  <2> HIDE DEF c, made
  <2>3. conn' \in Conns \cup {NoConn}
    BY <2>1, <2>2, <1>2
  <2>4. Types' /\ Located'
    BY <1>1, <2>1, <2>3, ReturnOK
  <2>5. Counted'
    <3>1. One(tx' # NoTx) = 0 /\ One(pc' = "received") = 0
      BY <1>1, <2>1 DEF One, Return
    <3>2. conn' # NoConn => Counts(conn', 0, 0, packets')
      BY <2>1, <2>2, <1>1, <1>2, CountsMore
    <3> QED BY <2>1, <3>1, <3>2 DEF Counted, Return
  <2>6. Marked'
    BY <1>1, <2>1, <2>2, <1>2 DEF Marked
  <2> QED BY <2>4, <2>5, <2>6 DEF DnsInv
<1>4. CASE ~(~made \/ info.payload_len = 0)
  <2>1. /\ conn' = IF refused THEN [c EXCEPT !.parse_errors = @ + 1] ELSE CountHeader(c)
        /\ tx' = IF refused THEN NoTx ELSE Head0
        /\ pc' = IF refused THEN "inspect" ELSE "section"
        /\ section' = 1 /\ i' = 0 /\ ptr' = DNS_HEADER_SIZE
        /\ UNCHANGED <<frame, info, walk, rr, packets>>
    BY <1>4 DEF ParseHeader
  <2>2. c \in Conns /\ Counts(c, 0, 1, packets)
    BY <1>2, <1>4
  <2>3. /\ Len(c.transactions) \in Nat /\ c.queries \in Nat /\ c.responses \in Nat
        /\ c.parse_errors \in Nat
    BY <2>2 DEF Conns
  <2>4. \A k \in DOMAIN c.transactions : Suspect(c.transactions[k]) => c.suspicious_tld
    BY <1>2, <1>4
  <2>5. End' = End /\ End \in Nat /\ DNS_HEADER_SIZE \in Nat
    BY <1>1, <2>1, SamePacket, PayloadType, Constants
  <2>6. WalkOK(walk', End')
    BY <1>1, <2>1, <2>5, NoWalkOK
  <2> HIDE DEF c, made
  <2>7. CASE refused
    <3>1. /\ conn' \in Conns /\ conn' # NoConn /\ conn'.parse_errors = c.parse_errors + 1
          /\ conn'.transactions = c.transactions /\ conn'.queries = c.queries
          /\ conn'.responses = c.responses /\ conn'.suspicious_tld = c.suspicious_tld
      BY <2>1, <2>2, <2>7, ErrorOK, NullAssumption
    <3>2. tx' = NoTx /\ pc' = "inspect"
      BY <2>1, <2>7
    <3>3. Types'
      BY <1>1, <2>1, <2>5, <3>1, <3>2 DEF Types, Building
    <3>4. Located'
      BY <1>1, <2>1, <2>6, <3>1, <3>2 DEF Located, Building
    <3>5. Counted'
      <4>1. One(tx' # NoTx) = 0 /\ One(pc' = "received") = 0
        BY <3>2 DEF One
      <4>2. Counts(conn', 0, 0, packets')
        <5>1. packets' = packets /\ packets \in Nat
          BY <1>1, <2>1
        <5> QED BY <2>2, <3>1, <5>1, CountsError
      <4> QED BY <1>1, <2>1, <4>1, <4>2 DEF Counted
    <3>6. Marked'
      BY <2>4, <3>1, <3>2 DEF Marked
    <3> QED BY <3>3, <3>4, <3>5, <3>6 DEF DnsInv
  <2>8. CASE ~refused
    <3>1. /\ conn' \in Conns /\ conn' # NoConn /\ conn'.parse_errors = c.parse_errors
          /\ conn'.transactions = c.transactions
          /\ conn'.queries + conn'.responses = c.queries + c.responses + 1
          /\ conn'.suspicious_tld = c.suspicious_tld
      BY <1>1, <2>1, <2>2, <2>8, CountHeaderOK, NullAssumption
    <3>2. tx' = Head0 /\ pc' = "section" /\ tx' \in Transactions /\ tx' # NoTx /\ ~Suspect(tx')
      BY <1>1, <2>1, <2>8, HeadOK
    <3>3. Types'
      BY <1>1, <2>1, <2>5, <3>1, <3>2 DEF Types, Building
    <3>4. Located'
      <4>1. ptr' <= End' /\ rr'.next <= End'
        BY <1>1, <2>1, <2>5, <2>8 DEF NoRR
      <4> QED BY <1>1, <2>1, <2>6, <3>1, <3>2, <4>1 DEF Located, Building
    <3>5. Counted'
      <4>1. One(tx' # NoTx) = 1 /\ One(pc' = "received") = 0
        BY <3>2 DEF One
      <4>2. Counts(conn', 1, 0, packets')
        <5>1. packets' = packets /\ packets \in Nat
          BY <1>1, <2>1
        <5> QED BY <2>2, <2>3, <3>1, <5>1 DEF Counts
      <4> QED BY <1>1, <2>1, <4>1, <4>2 DEF Counted
    <3>6. Marked'
      BY <2>4, <3>1, <3>2 DEF Marked
    <3> QED BY <3>3, <3>4, <3>5, <3>6 DEF DnsInv
  <2> QED BY <2>7, <2>8
<1> QED BY <1>3, <1>4

\* the transaction that was built moves into the list
LEMMA FinishOK == DnsInv /\ Finish => DnsInv'
<1> SUFFICES ASSUME DnsInv, Finish PROVE DnsInv'
  OBVIOUS
<1>1. /\ Types /\ pc = "section" /\ tx \in Transactions /\ tx # NoTx /\ conn \in Conns
      /\ conn # NoConn
  BY DEF DnsInv, Types, Located, Finish, Building
<1>2. /\ Len(conn.transactions) \in Nat /\ conn.queries \in Nat /\ conn.responses \in Nat
      /\ conn.parse_errors \in Nat /\ packets \in Nat /\ conn.transactions \in Seq(Transactions)
  BY <1>1 DEF Conns, Types
<1>3. LET s == <<tx>> \o conn.transactions
      IN  /\ s \in Seq(Transactions) /\ Len(s) = Len(conn.transactions) + 1
          /\ \A k \in DOMAIN s : s[k] = tx \/ \E j \in DOMAIN conn.transactions :
                                                  s[k] = conn.transactions[j]
  <2> DEFINE s == <<tx>> \o conn.transactions
  <2>1. s \in Seq(Transactions) /\ Len(s) = Len(conn.transactions) + 1
    BY <1>1, <1>2
  <2>2. ASSUME NEW k \in DOMAIN s, k # 1
        PROVE  k - 1 \in DOMAIN conn.transactions /\ s[k] = conn.transactions[k - 1]
    BY <1>1, <1>2, <2>2
  <2>3. s[1] = tx
    BY <1>1, <1>2
  <2> HIDE DEF s
  <2>4. \A k \in DOMAIN s : s[k] = tx \/ \E j \in DOMAIN conn.transactions :
                                                  s[k] = conn.transactions[j]
    BY <2>2, <2>3
  <2> QED BY <2>1, <2>4 DEF s
<1>4. /\ conn' \in Conns /\ conn' # NoConn /\ conn'.parse_errors = conn.parse_errors
      /\ conn'.transactions = <<tx>> \o conn.transactions /\ conn'.queries = conn.queries
      /\ conn'.responses = conn.responses /\ conn'.suspicious_tld = conn.suspicious_tld
  BY <1>1, <1>3, NullAssumption DEF Finish, Conns
<1>5. End' = End /\ End \in Nat
  BY <1>1, SamePacket, PayloadType DEF Finish
<1>6. Types'
  BY <1>4 DEF DnsInv, Types, Finish, Building
<1>7. Located'
  BY <1>4, <1>5, NoWalkOK DEF DnsInv, Located, Finish, Building
<1>8. Counted'
  <2>1. One(tx # NoTx) = 1 /\ One(pc = "received") = 0
    BY <1>1 DEF One
  <2>2. One(tx' # NoTx) = 0 /\ One(pc' = "received") = 0
    BY DEF One, Finish
  <2>3. Counts(conn, 1, 0, packets)
    BY <1>1, <2>1 DEF DnsInv, Counted
  <2>4. Counts(conn', 0, 0, packets)
    BY <1>2, <1>3, <1>4, <2>3 DEF Counts
  <2> QED BY <1>1, <2>2, <2>4 DEF DnsInv, Counted, Finish
<1>9. Marked'
  BY <1>1, <1>3, <1>4 DEF DnsInv, Marked, Finish
<1> QED BY <1>6, <1>7, <1>8, <1>9 DEF DnsInv
-----------------------------------------------------------------------------
\* parse_dns_question and parse_dns_rr: what both start from
LEMMA NameRead ==
  ASSUME DnsInv, pc \in {"name", "rdata"}
  PROVE  /\ Types /\ walk \in Walks /\ ptr \in Nat /\ End \in Nat
         /\ ptr + walk.consumed \in Nat
         /\ \A q \in Nat : Cell(q) \in Nat
         /\ tx \in Transactions /\ tx # NoTx /\ conn \in Conns /\ conn # NoConn
         /\ packets \in Nat /\ packets > 0
         /\ Counts(conn, 1, 0, packets)
         /\ Suspect(tx) => conn.suspicious_tld
         /\ \A k \in DOMAIN conn.transactions :
                Suspect(conn.transactions[k]) => conn.suspicious_tld
<1>1. /\ Types /\ walk \in Walks /\ tx \in Transactions /\ tx # NoTx /\ conn \in Conns
      /\ conn # NoConn /\ packets \in Nat /\ packets > 0 /\ ptr \in Nat
  BY DEF DnsInv, Types, Located, WalkOK, Counted, Building
<1>2. One(tx # NoTx) = 1 /\ One(pc = "received") = 0
  BY <1>1 DEF One
<1>3. Counts(conn, 1, 0, packets)
  BY <1>1, <1>2 DEF DnsInv, Counted
<1>4. ptr + walk.consumed \in Nat
  BY <1>1 DEF Walks
<1>5. End \in Nat /\ \A q \in Nat : Cell(q) \in Nat
  BY <1>1, PayloadType
<1> QED BY <1>1, <1>3, <1>4, <1>5 DEF DnsInv, Marked

LEMMA QuestionMade ==
  ASSUME NEW t \in Transactions, NEW q \in Nat, walk \in Walks, i \in Nat
  PROVE  LET u == [t EXCEPT !.questions = @ + 1,
                            !.qname = IF i = 0 THEN walk.chars ELSE @,
                            !.qtype = IF i = 0 THEN q ELSE @,
                            !.dots = IF walk.dots > @ THEN walk.dots ELSE @]
         IN  u \in Transactions /\ (Suspect(u) => Suspect(t) \/ SuspiciousDomain(walk))
<1> DEFINE qname == IF i = 0 THEN walk.chars ELSE t.qname
           qtype == IF i = 0 THEN q ELSE t.qtype
           dots == IF walk.dots > t.dots THEN walk.dots ELSE t.dots
           u == [t EXCEPT !.questions = @ + 1, !.qname = qname, !.qtype = qtype, !.dots = dots]
<1>1. /\ qname \in (SUBSET Chars) \cup {NoText} /\ qtype \in Nat /\ dots \in Nat
      /\ t.questions + 1 \in Nat
  BY DEF Transactions, Walks
<1>2. Suspect(t) \/ SuspiciousDomain(walk) \/ (~(dots > MaxDots)
           /\ ~(qname # NoText /\ qname \cap SuspiciousCells # {}))
  BY DEF Suspect, SuspiciousDomain
<1> HIDE DEF qname, qtype, dots
<1>3. u \in Transactions /\ u.qname = qname /\ u.dots = dots
  BY <1>1 DEF Transactions
<1>4. Suspect(u) => Suspect(t) \/ SuspiciousDomain(walk)
  BY <1>2, <1>3 DEF Suspect
<1> QED BY <1>3, <1>4 DEF qname, qtype, dots

LEMMA EndQuestionOK ==
  ASSUME NEW mem, DnsInv, EndQuestion(mem)
  PROVE  DnsInv'
<1> DEFINE read == walk.status = "ok" /\ ptr + walk.consumed + QuestionTail <= End
           made == read /\ {"q", "qname"} \subseteq mem
<1>1. /\ pc = "name" /\ UNCHANGED <<frame, info, section, walk, rr, packets>>
      /\ rr = NoRR
  BY DEF EndQuestion, DnsInv, Located
<1>2. End' = End
  BY <1>1, SamePacket
<1>3. WalkOK(walk', End')
  BY <1>1, <1>2 DEF DnsInv, Located
<1>4. CASE made
  <2>1. /\ tx' = [tx EXCEPT !.questions = @ + 1,
                            !.qname = IF i = 0 THEN walk.chars ELSE @,
                            !.qtype = IF i = 0 THEN Cell(ptr + walk.consumed) ELSE @,
                            !.dots = IF walk.dots > @ THEN walk.dots ELSE @]
        /\ conn' = [conn EXCEPT !.suspicious_tld = @ \/ SuspiciousDomain(walk)]
        /\ ptr' = ptr + walk.consumed + QuestionTail
        /\ i' = i + 1 /\ pc' = "section"
    BY <1>4 DEF EndQuestion
  <2>2. i \in Nat /\ Cell(ptr + walk.consumed) \in Nat /\ walk \in Walks /\ tx \in Transactions
    BY <1>1, NameRead DEF DnsInv, Types
  <2>3. tx' \in Transactions /\ (Suspect(tx') => Suspect(tx) \/ SuspiciousDomain(walk))
    BY <2>1, <2>2, QuestionMade
  <2>4. tx' # NoTx
    BY <2>3, NullAssumption
  <2>5. /\ conn' \in Conns /\ conn' # NoConn /\ conn'.transactions = conn.transactions
        /\ conn'.queries = conn.queries /\ conn'.responses = conn.responses
        /\ conn'.parse_errors = conn.parse_errors
        /\ conn'.suspicious_tld = (conn.suspicious_tld \/ SuspiciousDomain(walk))
    <3>1. conn \in Conns /\ (conn.suspicious_tld \/ SuspiciousDomain(walk)) \in BOOLEAN
      BY <1>1, NameRead
    <3> DEFINE b == conn.suspicious_tld \/ SuspiciousDomain(walk)
    <3> HIDE DEF b
    <3>2. conn' = [conn EXCEPT !.suspicious_tld = b]
      BY <2>1 DEF b
    <3>3. b \in BOOLEAN
      BY <3>1 DEF b
    <3>4. /\ conn' \in Conns /\ conn'.transactions = conn.transactions
          /\ conn'.queries = conn.queries /\ conn'.responses = conn.responses
          /\ conn'.parse_errors = conn.parse_errors /\ conn'.suspicious_tld = b
      BY <3>1, <3>2, <3>3 DEF Conns
    <3> QED BY <3>4, NullAssumption DEF b
  <2>6. ptr' \in Nat /\ ptr' <= End' /\ rr'.next <= End'
    BY <1>1, <1>2, <1>4, <2>1, NameRead, Constants DEF NoRR
  <2>7. Types'
    BY <1>1, <2>1, <2>2, <2>3, <2>5, <2>6 DEF DnsInv, Types, Building
  <2>8. Located'
    BY <1>1, <1>3, <2>1, <2>4, <2>5, <2>6 DEF Located, Building
  <2>9. Counted'
    <3>1. One(tx' # NoTx) = 1 /\ One(pc' = "received") = 0
      BY <2>1, <2>4 DEF One
    <3>2. Counts(conn', 1, 0, packets')
      BY <1>1, <2>5, NameRead DEF Counts
    <3> QED BY <1>1, <3>1, <3>2, NameRead DEF Counted
  <2>10. Marked'
    BY <1>1, <2>3, <2>5, NameRead DEF Marked
  <2> QED BY <2>7, <2>8, <2>9, <2>10 DEF DnsInv
<1>5. CASE ~made
  <2>1. conn' = QuestionError(conn) /\ tx' = NoTx /\ pc' = "inspect" /\ UNCHANGED <<ptr, i>>
    BY <1>5 DEF EndQuestion
  <2>2. /\ conn' \in Conns /\ conn' # NoConn /\ conn'.parse_errors = conn.parse_errors + 1
        /\ conn'.transactions = conn.transactions /\ conn'.queries = conn.queries
        /\ conn'.responses = conn.responses /\ conn'.suspicious_tld = conn.suspicious_tld
    BY <1>1, <2>1, NameRead, ErrorOK, NullAssumption DEF QuestionError
  <2>3. Types'
    BY <1>1, <2>1, <2>2 DEF DnsInv, Types, Building
  <2>4. Located'
    BY <1>1, <1>3, <2>1, <2>2 DEF Located, Building
  <2>5. Counted'
    <3>1. One(tx' # NoTx) = 0 /\ One(pc' = "received") = 0
      BY <2>1 DEF One
    <3>2. /\ Len(conn.transactions) \in Nat /\ conn.queries \in Nat /\ conn.responses \in Nat
          /\ conn.parse_errors \in Nat
      BY <1>1, NameRead DEF Conns
    <3>3. Counts(conn, 1, 0, packets) /\ packets \in Nat /\ packets' = packets
      BY <1>1, NameRead
    <3>4. Counts(conn', 0, 0, packets')
      BY <2>2, <3>2, <3>3 DEF Counts
    <3> QED BY <1>1, <3>1, <3>4, NameRead DEF Counted
  <2>6. Marked'
    BY <1>1, <2>1, <2>2, NameRead DEF Marked
  <2> QED BY <2>3, <2>4, <2>5, <2>6 DEF DnsInv
<1> QED BY <1>4, <1>5
\* a record that was read belongs to the transaction
LEMMA RecordAdded ==
  ASSUME NEW t \in Transactions, NEW r \in Records
  PROVE  LET u == [t EXCEPT !.records = Append(@, r)]
         IN  u \in Transactions /\ u # NoTx /\ (Suspect(u) <=> Suspect(t))
<1>1. Append(t.records, r) \in Seq(Records)
  BY DEF Transactions
<1> DEFINE rs == Append(t.records, r)
           u == [t EXCEPT !.records = rs]
<1> HIDE DEF rs
<1>2. u \in Transactions /\ u.dots = t.dots /\ u.qname = t.qname
  BY <1>1 DEF rs, Transactions
<1> QED BY <1>2, NullAssumption DEF rs, Suspect

\* a step inside a section that keeps or extends the transaction
LEMMA RecordStep ==
  ASSUME DnsInv, pc \in {"name", "rdata"}, UNCHANGED <<conn, frame, info, packets, section>>,
         pc' \in Building, WalkOK(walk', End), i' \in Nat, ptr' \in Nat, ptr' <= End,
         rr' \in Records, rr'.next <= End, pc' # "rdata" => rr' = NoRR,
         tx' \in Transactions, Suspect(tx') <=> Suspect(tx)
  PROVE  DnsInv'
<1>1. End' = End
  BY SamePacket
<1>2. tx' # NoTx
  BY NullAssumption
<1>3. Types'
  BY DEF DnsInv, Types
<1>4. Located'
  BY <1>1, <1>2, NameRead DEF Located, Building
<1>5. Counted'
  <2>1. One(tx' # NoTx) = 1 /\ One(pc' = "received") = 0
    BY <1>2 DEF One, Building
  <2> QED BY <2>1, NameRead DEF Counted
<1>6. Marked'
  BY NameRead DEF Marked
<1> QED BY <1>3, <1>4, <1>5, <1>6 DEF DnsInv

LEMMA NoRROK == ASSUME NEW n \in Nat PROVE NoRR \in Records /\ NoRR.next <= n
BY DEF NoRR, Records

LEMMA EndRecordOK ==
  ASSUME NEW mem, DnsInv, EndRecord(mem)
  PROVE  DnsInv'
<1> DEFINE tail == ptr + walk.consumed
           fits == walk.status = "ok" /\ tail + RecordTail <= End
           type == Cell(tail)
           rdlength == Cell(tail + RecordTail - 1)
           read == fits /\ tail + RecordTail + rdlength <= End
           made == read /\ {"rr", "name"} \subseteq mem /\ (rdlength > 0 => "rdata" \in mem)
           named == rdlength > 0 /\ (type = Domain \/ (type = MX /\ rdlength >= MxPreference))
           new == [type |-> type, rdata |-> rdlength > 0, domain |-> FALSE,
                   next |-> tail + RecordTail + rdlength]
           pref == IF type = MX THEN MxPreference ELSE 0
<1>1. /\ pc = "name" /\ UNCHANGED <<conn, frame, info, packets>>
      /\ \/ /\ made /\ named
            /\ rr' = new /\ pc' = "rdata"
            /\ walk' = Walk(tail + RecordTail + pref)
            /\ UNCHANGED <<tx, i, ptr, section>>
         \/ /\ made /\ ~named
            /\ tx' = [tx EXCEPT !.records = Append(@, new)]
            /\ ptr' = new.next /\ i' = i + 1 /\ pc' = "section"
            /\ UNCHANGED <<section, walk, rr>>
         \/ /\ ~made
            /\ i' = Limit[section] /\ pc' = "section"
            /\ UNCHANGED <<tx, section, ptr, walk, rr>>
  BY DEF EndRecord
<1>2. /\ End \in Nat /\ tail \in Nat /\ type \in Nat /\ rdlength \in Nat
      /\ tx \in Transactions /\ i \in Nat /\ ptr \in Nat /\ ptr <= End /\ rr = NoRR
      /\ WalkOK(walk, End) /\ section \in 1 .. 4
  <2>1. End \in Nat /\ tail \in Nat /\ tx \in Transactions /\ \A q \in Nat : Cell(q) \in Nat
    BY <1>1, NameRead
  <2>2. tail + RecordTail - 1 \in Nat
    BY <2>1, Constants
  <2>3. i \in Nat /\ ptr \in Nat /\ ptr <= End /\ rr = NoRR /\ WalkOK(walk, End) /\ section \in 1 .. 4
    BY <1>1 DEF DnsInv, Types, Located, Building
  <2> QED BY <2>1, <2>2, <2>3
<1>3. ASSUME made PROVE new \in Records /\ new.next = tail + RecordTail + rdlength /\ new.next <= End
  <2> DEFINE n == tail + RecordTail + rdlength
  <2>1. n \in Nat /\ n <= End
    BY <1>2, <1>3, Constants
  <2>2. (rdlength > 0) \in BOOLEAN
    OBVIOUS
  <2> HIDE DEF n, tail, rdlength, type
  <2> QED BY <1>2, <2>1, <2>2 DEF Records, n
<1> HIDE DEF new
<1>4. ASSUME made, named PROVE tail + RecordTail + pref \in Nat /\ tail + RecordTail + pref <= End
  <2>1. pref \in Nat /\ pref <= rdlength
    BY <1>2, <1>4, Constants
  <2> HIDE DEF pref, tail, type, rdlength
  <2> QED BY <2>1, <1>2, <1>4, Constants
<1>5. CASE made /\ named /\ rr' = new /\ pc' = "rdata"
           /\ walk' = Walk(tail + RecordTail + pref) /\ UNCHANGED <<tx, i, ptr, section>>
  <2>1. WalkOK(walk', End)
    BY <1>2, <1>4, <1>5, NewWalkOK
  <2>2. rr' \in Records /\ rr'.next <= End
    BY <1>3, <1>5
  <2> HIDE DEF made, named, tail, pref
  <2> QED BY <1>1, <1>2, <1>5, <2>1, <2>2, RecordStep DEF Building
<1>6. CASE made /\ ~named /\ tx' = [tx EXCEPT !.records = Append(@, new)]
           /\ ptr' = new.next /\ i' = i + 1 /\ pc' = "section" /\ UNCHANGED <<section, walk, rr>>
  <2>1. ptr' \in Nat /\ ptr' <= End
    BY <1>3, <1>6 DEF Records
  <2>2. tx' \in Transactions /\ (Suspect(tx') <=> Suspect(tx))
    BY <1>2, <1>3, <1>6, RecordAdded
  <2>3. rr' \in Records /\ rr'.next <= End /\ WalkOK(walk', End) /\ i' \in Nat
    BY <1>2, <1>6, NoRROK
  <2> HIDE DEF made, named
  <2> QED BY <1>1, <1>2, <1>6, <2>1, <2>2, <2>3, RecordStep DEF Building
<1>7. CASE ~made /\ i' = Limit[section] /\ pc' = "section"
           /\ UNCHANGED <<tx, section, ptr, walk, rr>>
  <2>1. i' \in Nat
    BY <1>2, <1>7, Constants
  <2>2. rr' \in Records /\ rr'.next <= End /\ WalkOK(walk', End)
    BY <1>2, <1>7, NoRROK
  <2> HIDE DEF made
  <2> QED BY <1>1, <1>2, <1>7, <2>1, <2>2, RecordStep DEF Building
<1> HIDE DEF made, named, tail, pref
<1> QED BY <1>1, <1>5, <1>6, <1>7

LEMMA EndRdataOK ==
  ASSUME NEW mem, DnsInv, EndRdata(mem)
  PROVE  DnsInv'
<1> DEFINE kept == walk.status = "ok" /\ "domain" \in mem
           r == [rr EXCEPT !.domain = kept]
<1>1. /\ pc = "rdata" /\ UNCHANGED <<conn, frame, info, packets, section, walk>>
      /\ tx' = [tx EXCEPT !.records = Append(@, r)]
      /\ ptr' = rr.next /\ i' = i + 1 /\ pc' = "section" /\ rr' = NoRR
  BY DEF EndRdata
<1>2. rr \in Records /\ rr.next <= End /\ i \in Nat /\ WalkOK(walk, End)
  BY <1>1 DEF DnsInv, Types, Located, Building
<1>3. r \in Records
  <2>1. kept \in BOOLEAN
    OBVIOUS
  <2> HIDE DEF kept
  <2> QED BY <1>2, <2>1 DEF Records
<1> HIDE DEF r
<1>4. tx' \in Transactions /\ (Suspect(tx') <=> Suspect(tx))
  BY <1>1, <1>3, NameRead, RecordAdded
<1>5. ptr' \in Nat /\ ptr' <= End /\ i' \in Nat
  BY <1>1, <1>2 DEF Records
<1>6. rr' \in Records /\ rr'.next <= End
  BY <1>1, NameRead, NoRROK
<1>7. WalkOK(walk', End)
  BY <1>1, <1>2
<1> QED BY <1>1, <1>4, <1>5, <1>6, <1>7, RecordStep DEF Building

LEMMA NextOK == DnsInv /\ [Next]_vars => DnsInv'
<1> SUFFICES ASSUME DnsInv, [Next]_vars PROVE DnsInv'
  OBVIOUS
<1>1. CASE UNCHANGED vars
  <2>1. End' = End
    BY <1>1, SamePacket DEF vars
  <2> QED BY <1>1, <2>1 DEF vars, DnsInv, Types, Located, Counted, Marked
<1>2. ASSUME NEW mem, ParseHeader(mem) \/ EndQuestion(mem) \/ EndRecord(mem) \/ EndRdata(mem)
      PROVE  DnsInv'
  BY <1>2, ParseHeaderOK, EndQuestionOK, EndRecordOK, EndRdataOK
<1> QED BY <1>1, <1>2, ReceiveOK, FreeOK, SkipOK, ReadNameOK, NextItemOK, NextSectionOK,
           FinishOK, InspectOK
        DEF Next, Parse

LEMMA DnsInvariant == Spec => []DnsInv
BY InitOK, NextOK, PTL DEF Spec

-----------------------------------------------------------------------------
(***************************************************************************)
(* Memory.  The induction over the length of a sequence goes by its least  *)
(* counterexample.                                                         *)
(***************************************************************************)

LEMMA LeastNat ==
  ASSUME NEW T \in SUBSET Nat, T # {}
  PROVE  \E x \in T : \A y \in T : x <= y
<1>1. IsWellFoundedOn(OpToRel(<, Nat), Nat)
  BY NatLessThanWellFounded
<1>2. PICK x \in T : \A y \in T : ~(<<y, x>> \in OpToRel(<, Nat))
  BY <1>1, WFMin, Zenon
<1>3. \A y \in T : ~(y < x)
  BY <1>2 DEF OpToRel
<1>4. x \in Nat /\ \A y \in T : y \in Nat
  OBVIOUS
<1> QED BY <1>3, <1>4

LEMMA PartialSums ==
  ASSUME NEW s \in Seq(Int)
  PROVE  \E g \in [0 .. Len(s) -> Int] :
            g = [k \in 0 .. Len(s) |-> IF k = 0 THEN 0 ELSE g[k - 1] + s[k]]
<1> DEFINE N == Len(s)
           Sums(g, n) == \A k \in 0 .. n : g[k] = IF k = 0 THEN 0 ELSE g[k - 1] + s[k]
           T == {n \in 0 .. N : ~ \E g \in [0 .. N -> Int] : Sums(g, n)}
<1>1. N \in Nat
  OBVIOUS
<1>2. T = {}
  <2>1. SUFFICES ASSUME T # {} PROVE FALSE
    OBVIOUS
  <2>2. T \in SUBSET Nat
    BY <1>1
  <2> HIDE DEF T
  <2>3. PICK m \in T : \A y \in T : m <= y
    BY <2>1, <2>2, LeastNat
  <2>4. m \in 0 .. N /\ ~ \E g \in [0 .. N -> Int] : Sums(g, m)
    BY DEF T
  <2>5. m # 0
    <3>1. [k \in 0 .. N |-> 0] \in [0 .. N -> Int]
      OBVIOUS
    <3>2. Sums([k \in 0 .. N |-> 0], 0)
      BY <1>1
    <3> QED BY <2>4, <3>1, <3>2
  <2>6. m - 1 \in 0 .. N /\ m - 1 \notin T
    BY <1>1, <2>3, <2>4, <2>5
  <2>7. PICK g \in [0 .. N -> Int] : Sums(g, m - 1)
    BY <2>6 DEF T
  <2> DEFINE h == [g EXCEPT ![m] = g[m - 1] + s[m]]
  <2>8. g[m - 1] + s[m] \in Int
    <3>1. m \in 1 .. Len(s) /\ m - 1 \in 0 .. N
      BY <1>1, <2>4, <2>5
    <3>2. s[m] \in Int /\ g[m - 1] \in Int
      BY <3>1
    <3> QED BY <3>2
  <2>9. h \in [0 .. N -> Int]
    BY <2>4, <2>8
  <2>10. Sums(h, m)
    BY <1>1, <2>4, <2>5, <2>7
  <2> QED BY <2>4, <2>9, <2>10
<1>3. N \notin T /\ N \in 0 .. N
  <2> HIDE DEF T
  <2> QED BY <1>1, <1>2
<1>4. PICK g \in [0 .. N -> Int] : Sums(g, N)
  BY <1>3
<1>5. g = [k \in 0 .. N |-> IF k = 0 THEN 0 ELSE g[k - 1] + s[k]]
  BY <1>1, <1>4
<1> QED BY <1>5

IsSums(g, s) == g = [k \in 0 .. Len(s) |-> IF k = 0 THEN 0 ELSE g[k - 1] + s[k]]

LEMMA SumsAgree ==
  ASSUME NEW s \in Seq(Int), NEW t \in Seq(Int), NEW g, NEW h, IsSums(g, s), IsSums(h, t),
         NEW n \in Nat, n <= Len(s), n <= Len(t), \A k \in 1 .. n : s[k] = t[k]
  PROVE  g[n] = h[n] /\ g[n] \in Int
<1> DEFINE T == {k \in 0 .. n : ~(g[k] = h[k] /\ g[k] \in Int)}
<1>1. SUFFICES ASSUME ~(g[n] = h[n] /\ g[n] \in Int) PROVE FALSE
  OBVIOUS
<1>2. n \in T
  BY <1>1
<1>11. T \in SUBSET Nat
  OBVIOUS
<1> HIDE DEF T
<1>3. PICK m \in T : \A y \in T : m <= y
  BY <1>2, <1>11, LeastNat
<1>4. m \in 0 .. n /\ ~(g[m] = h[m] /\ g[m] \in Int)
  BY DEF T
<1>5. /\ \A k \in 0 .. Len(s) : g[k] = IF k = 0 THEN 0 ELSE g[k - 1] + s[k]
      /\ \A k \in 0 .. Len(t) : h[k] = IF k = 0 THEN 0 ELSE h[k - 1] + t[k]
  BY DEF IsSums
<1>6. m # 0
  BY <1>4, <1>5
<1>7. m - 1 \in 0 .. n /\ m - 1 \notin T
  BY <1>3, <1>4, <1>6
<1>8. g[m - 1] = h[m - 1] /\ g[m - 1] \in Int
  BY <1>7 DEF T
<1>9. m \in 1 .. Len(s) /\ s[m] = t[m] /\ s[m] \in Int /\ m \in 0 .. Len(s) /\ m \in 0 .. Len(t)
  BY <1>4, <1>6
<1>10. g[m] = g[m - 1] + s[m] /\ h[m] = h[m - 1] + t[m]
  BY <1>5, <1>6, <1>9
<1> QED BY <1>4, <1>8, <1>9, <1>10

LEMMA TotalSums ==
  ASSUME NEW s \in Seq(Int)
  PROVE  \E g : IsSums(g, s) /\ Total(s) = g[Len(s)]
<1> DEFINE F(g) == [k \in 0 .. Len(s) |-> IF k = 0 THEN 0 ELSE g[k - 1] + s[k]]
           u == CHOOSE g : g = F(g)
<1>1. \E g : g = F(g)
  BY PartialSums
<1>2. u = F(u)
  <2> HIDE DEF F
  <2> QED BY <1>1
<1>3. Total(s) = u[Len(s)]
  BY DEF Total
<1> HIDE DEF u
<1> QED BY <1>2, <1>3 DEF IsSums

LEMMA TotalType == ASSUME NEW s \in Seq(Int) PROVE Total(s) \in Int
<1>1. PICK g : IsSums(g, s) /\ Total(s) = g[Len(s)]
  BY TotalSums
<1> QED BY <1>1, SumsAgree

LEMMA TotalEmpty == Total(<< >>) = 0
<1>1. << >> \in Seq(Int) /\ Len(<< >>) = 0
  OBVIOUS
<1>2. PICK g : IsSums(g, << >>) /\ Total(<< >>) = g[Len(<< >>)]
  BY <1>1, TotalSums
<1> QED BY <1>1, <1>2 DEF IsSums

LEMMA TotalAppend ==
  ASSUME NEW s \in Seq(Int), NEW x \in Int
  PROVE  Total(Append(s, x)) = Total(s) + x
<1> DEFINE t == Append(s, x)
<1>1. /\ t \in Seq(Int) /\ Len(t) = Len(s) + 1 /\ t[Len(s) + 1] = x
      /\ \A k \in 1 .. Len(s) : s[k] = t[k]
      /\ Len(s) \in Nat
  OBVIOUS
<1> HIDE DEF t
<1>2. PICK g : IsSums(g, s) /\ Total(s) = g[Len(s)]
  BY TotalSums
<1>3. PICK h : IsSums(h, t) /\ Total(t) = h[Len(t)]
  BY <1>1, TotalSums
<1>4. g[Len(s)] = h[Len(s)] /\ g[Len(s)] \in Int
  <2>1. Len(s) <= Len(s) /\ Len(s) <= Len(t)
    BY <1>1
  <2>2. IsSums(g, s) /\ IsSums(h, t)
    BY <1>2, <1>3
  <2>3. \A k \in 1 .. Len(s) : s[k] = t[k]
    BY <1>1
  <2>4. t \in Seq(Int) /\ Len(s) \in Nat
    BY <1>1
  <2> QED BY <2>1, <2>2, <2>3, <2>4, SumsAgree
<1>5. Len(s) + 1 \in 0 .. Len(t)
  BY <1>1
<1>6. h[Len(s) + 1] = h[Len(s)] + t[Len(s) + 1]
  BY <1>1, <1>3, <1>5 DEF IsSums
<1> QED BY <1>1, <1>2, <1>3, <1>4, <1>6 DEF t

LEMMA TotalPrepend ==
  ASSUME NEW x \in Int
  PROVE  \A s \in Seq(Int) : Total(<<x>> \o s) = x + Total(s)
<1> DEFINE Good(s) == Total(<<x>> \o s) = x + Total(s)
           T == {n \in Nat : \E s \in Seq(Int) : Len(s) = n /\ ~Good(s)}
<1>1. T = {}
  <2>1. SUFFICES ASSUME T # {} PROVE FALSE
    OBVIOUS
  <2>2. T \in SUBSET Nat
    OBVIOUS
  <2> HIDE DEF T
  <2>3. PICK m \in T : \A y \in T : m <= y
    BY <2>1, <2>2, LeastNat
  <2>4. m \in Nat /\ \E s \in Seq(Int) : Len(s) = m /\ ~Good(s)
    BY DEF T
  <2>5. PICK s \in Seq(Int) : Len(s) = m /\ ~Good(s)
    BY <2>4
  <2>6. CASE m = 0
    <3>1. s = << >>
      BY <2>5, <2>6
    <3>2. <<x>> \o s = Append(s, x)
      BY <3>1
    <3>3. Total(Append(s, x)) = 0 + x /\ Total(s) = 0
      BY <3>1, TotalAppend, TotalEmpty
    <3>4. Total(<<x>> \o s) = x + Total(s)
      <4>1. Total(<<x>> \o s) = 0 + x
        BY <3>2, <3>3, Zenon
      <4> QED BY <4>1, <3>3
    <3> QED BY <2>5, <3>4
  <2>7. CASE m # 0
    <3> DEFINE r == SubSeq(s, 1, m - 1)
    <3>1. /\ r \in Seq(Int) /\ Len(r) = m - 1 /\ s[m] \in Int /\ s = Append(r, s[m])
      BY <2>4, <2>5, <2>7
    <3> HIDE DEF r
    <3>2. m - 1 \in Nat /\ m - 1 \notin T
      BY <2>3, <2>4, <2>7
    <3>3. Good(r)
      BY <3>1, <3>2 DEF T
    <3>4. <<x>> \o s = Append(<<x>> \o r, s[m])
      BY <3>1, SMTT(60)
    <3>5. <<x>> \o r \in Seq(Int)
      BY <3>1
    <3>6. Total(<<x>> \o s) = Total(<<x>> \o r) + s[m] /\ Total(s) = Total(r) + s[m]
      BY <3>1, <3>4, <3>5, TotalAppend
    <3>7. Total(r) \in Int /\ Total(<<x>> \o r) \in Int
      BY <3>1, <3>5, TotalType
    <3> QED BY <2>5, <3>1, <3>3, <3>6, <3>7
  <2> QED BY <2>6, <2>7
<1> QED
  <2> SUFFICES ASSUME NEW s \in Seq(Int), ~Good(s) PROVE FALSE
    OBVIOUS
  <2>1. Len(s) \in Nat
    OBVIOUS
  <2>2. Len(s) \in T
    BY <2>1
  <2> QED BY <1>1, <2>2

\* two sequences with the same elements
LEMMA AppendIs ==
  ASSUME NEW a \in Seq(Int), NEW x \in Int, NEW b \in [1 .. Len(a) + 1 -> Int],
         \A k \in 1 .. Len(a) : b[k] = a[k], b[Len(a) + 1] = x
  PROVE  b = Append(a, x)
<1>1. Len(a) \in Nat
  OBVIOUS
<1> DEFINE c == Append(a, x)
<1>2. /\ c \in Seq(Int) /\ Len(c) = Len(a) + 1
      /\ \A k \in 1 .. Len(a) + 1 : c[k] = IF k = Len(a) + 1 THEN x ELSE a[k]
  OBVIOUS
<1> HIDE DEF c
<1>3. ASSUME NEW k \in 1 .. Len(a) + 1 PROVE b[k] = c[k]
  <2>1. CASE k = Len(a) + 1
    BY <1>2, <2>1
  <2>2. CASE k # Len(a) + 1
    <3>1. k \in 1 .. Len(a)
      BY <1>1, <2>2
    <3> QED BY <1>2, <2>2, <3>1
  <2> QED BY <2>1, <2>2
<1>4. b = c
  BY <1>1, <1>2, <1>3
<1> QED BY <1>4 DEF c

LEMMA PrependIs ==
  ASSUME NEW a \in Seq(Int), NEW x \in Int, NEW b \in [1 .. Len(a) + 1 -> Int],
         \A k \in 1 .. Len(a) : b[k + 1] = a[k], b[1] = x
  PROVE  b = <<x>> \o a
<1>1. Len(a) \in Nat
  OBVIOUS
<1> DEFINE c == <<x>> \o a
<1>2. /\ c \in Seq(Int) /\ Len(c) = Len(a) + 1
      /\ \A k \in 1 .. Len(a) + 1 : c[k] = IF k = 1 THEN x ELSE a[k - 1]
  OBVIOUS
<1> HIDE DEF c
<1>3. \A k \in 1 .. Len(a) + 1 : b[k] = c[k]
  <2> TAKE k \in 1 .. Len(a) + 1
  <2>1. CASE k = 1
    BY <1>1, <1>2, <2>1
  <2>2. CASE k # 1
    <3>1. k - 1 \in 1 .. Len(a) /\ (k - 1) + 1 = k
      BY <1>1, <2>2
    <3>2. b[k] = a[k - 1]
      BY <3>1
    <3> QED BY <1>2, <2>2, <3>2
  <2> QED BY <2>1, <2>2
<1>4. b = c
  BY <1>1, <1>2, <1>3
<1> QED BY <1>4 DEF c

LEMMA HeldRRType == \A r \in Records : HeldRR(r) \in Int
BY DEF Records, HeldRR, One

LEMMA RecordsType ==
  ASSUME NEW rs \in Seq(Records)
  PROVE  /\ [k \in DOMAIN rs |-> HeldRR(rs[k])] \in Seq(Int)
         /\ Len([k \in DOMAIN rs |-> HeldRR(rs[k])]) = Len(rs)
<1>1. DOMAIN rs = 1 .. Len(rs) /\ Len(rs) \in Nat /\ \A k \in 1 .. Len(rs) : rs[k] \in Records
  OBVIOUS
<1>2. [k \in DOMAIN rs |-> HeldRR(rs[k])] \in [1 .. Len(rs) -> Int]
  BY <1>1, HeldRRType
<1> QED BY <1>1, <1>2

LEMMA HeldType == \A t \in Transactions : Held(t) \in Int
<1> TAKE t \in Transactions
<1>1. t.questions \in Nat /\ t.records \in Seq(Records)
  BY DEF Transactions
<1>2. Total([k \in DOMAIN t.records |-> HeldRR(t.records[k])]) \in Int
  BY <1>1, RecordsType, TotalType
<1> QED BY <1>1, <1>2 DEF Held

LEMMA HeldRecord ==
  ASSUME NEW t \in Transactions, NEW r \in Records
  PROVE  Held([t EXCEPT !.records = Append(@, r)]) = Held(t) + HeldRR(r)
<1> DEFINE rs == t.records
           u == [t EXCEPT !.records = Append(@, r)]
           a == [k \in DOMAIN rs |-> HeldRR(rs[k])]
           b == [k \in DOMAIN Append(rs, r) |-> HeldRR(Append(rs, r)[k])]
<1>1. u.questions = t.questions /\ u.records = Append(rs, r) /\ t.questions \in Nat
      /\ rs \in Seq(Records)
  BY DEF Transactions
<1> HIDE DEF rs, u
<1>2. a \in Seq(Int) /\ Len(a) = Len(rs)
  BY <1>1, RecordsType
<1>3. /\ Len(rs) \in Nat /\ DOMAIN rs = 1 .. Len(rs) /\ DOMAIN Append(rs, r) = 1 .. Len(rs) + 1
      /\ \A k \in 1 .. Len(rs) : Append(rs, r)[k] = rs[k]
      /\ Append(rs, r)[Len(rs) + 1] = r /\ Append(rs, r) \in Seq(Records)
      /\ Len(Append(rs, r)) = Len(rs) + 1
  BY <1>1
<1>4. b \in [1 .. Len(rs) + 1 -> Int]
  <2>1. \A k \in 1 .. Len(rs) + 1 : Append(rs, r)[k] \in Records
    BY <1>3
  <2> QED BY <1>3, <2>1, HeldRRType, Zenon
<1>5. /\ \A k \in 1 .. Len(rs) : b[k] = a[k]
      /\ b[Len(rs) + 1] = HeldRR(r)
  BY <1>3
<1>6. HeldRR(r) \in Int
  BY HeldRRType
<1> HIDE DEF a, b
<1>7. b = Append(a, HeldRR(r))
  BY <1>2, <1>4, <1>5, <1>6, AppendIs
<1>8. Total(b) = Total(a) + HeldRR(r) /\ Total(a) \in Int
  BY <1>2, <1>6, <1>7, TotalAppend, TotalType
<1>9. Held(u) = 1 + 2 * t.questions + Total(b) /\ Held(t) = 1 + 2 * t.questions + Total(a)
  BY <1>1, Zenon DEF Held, a, b, rs
<1> QED BY <1>1, <1>6, <1>8, <1>9 DEF u

\* records whose name is freed with them
SoundRR(r) == r.domain => r.type \in {Domain, MX}
Sound(t) == \A k \in DOMAIN t.records : SoundRR(t.records[k])

\* free_transaction gives back all of a transaction
LEMMA FreeAll ==
  ASSUME NEW t, Sound(t)
  PROVE  FreeTransaction(t) = Held(t)
<1>1. \A k \in DOMAIN t.records : FreeRR(t.records[k]) = HeldRR(t.records[k])
  BY DEF Sound, SoundRR, FreeRR, HeldRR, One
<1>2. [k \in DOMAIN t.records |-> FreeRR(t.records[k])]
        = [k \in DOMAIN t.records |-> HeldRR(t.records[k])]
  BY <1>1, Zenon
<1> QED BY <1>2, Zenon DEF FreeTransaction, Held

LEMMA TransactionsType ==
  ASSUME NEW ts \in Seq(Transactions)
  PROVE  /\ [k \in DOMAIN ts |-> Held(ts[k])] \in Seq(Int)
         /\ Len([k \in DOMAIN ts |-> Held(ts[k])]) = Len(ts)
<1>1. DOMAIN ts = 1 .. Len(ts) /\ Len(ts) \in Nat
      /\ \A k \in 1 .. Len(ts) : ts[k] \in Transactions
  OBVIOUS
<1>2. [k \in DOMAIN ts |-> Held(ts[k])] \in [1 .. Len(ts) -> Int]
  BY <1>1, HeldType
<1> QED BY <1>1, <1>2

LEMMA HeldConnType == \A c \in Conns : HeldConn(c) \in Int
<1> TAKE c \in Conns
<1>1. c.transactions \in Seq(Transactions)
  BY DEF Conns
<1>2. Total([k \in DOMAIN c.transactions |-> Held(c.transactions[k])]) \in Int
  BY <1>1, TransactionsType, TotalType
<1> QED BY <1>2 DEF HeldConn

\* a transaction is added at the front of the list
LEMMA HeldFront ==
  ASSUME NEW ts \in Seq(Transactions), NEW t \in Transactions
  PROVE  Total([k \in DOMAIN (<<t>> \o ts) |-> Held((<<t>> \o ts)[k])])
           = Held(t) + Total([k \in DOMAIN ts |-> Held(ts[k])])
<1> DEFINE us == <<t>> \o ts
           a == [k \in DOMAIN ts |-> Held(ts[k])]
           b == [k \in DOMAIN us |-> Held(us[k])]
<1>1. /\ us \in Seq(Transactions) /\ Len(us) = Len(ts) + 1 /\ us[1] = t
      /\ \A k \in 1 .. Len(ts) : us[k + 1] = ts[k]
      /\ Len(ts) \in Nat
  OBVIOUS
<1> HIDE DEF us
<1>2. a \in Seq(Int) /\ Len(a) = Len(ts)
  BY TransactionsType
<1>3. b \in [1 .. Len(ts) + 1 -> Int]
  <2>1. DOMAIN us = 1 .. Len(ts) + 1 /\ \A k \in 1 .. Len(ts) + 1 : us[k] \in Transactions
    BY <1>1
  <2> QED BY <2>1, HeldType, Zenon
<1>4. (\A k \in 1 .. Len(ts) : b[k + 1] = a[k]) /\ b[1] = Held(t)
  <2>1. DOMAIN us = 1 .. Len(ts) + 1 /\ DOMAIN ts = 1 .. Len(ts)
    BY <1>1
  <2> QED BY <1>1, <2>1
<1>5. Held(t) \in Int
  BY HeldType
<1> HIDE DEF a, b
<1>6. b = <<Held(t)>> \o a
  BY <1>2, <1>3, <1>4, <1>5, PrependIs
<1>7. Total(b) = Held(t) + Total(a)
  BY <1>2, <1>5, <1>6, TotalPrepend, Zenon
<1> QED BY <1>7 DEF a, b, us

LEMMA HeldSame ==
  ASSUME NEW c, NEW d, c.transactions = d.transactions
  PROVE  HeldConn(c) = HeldConn(d)
BY DEF HeldConn

\* every record that is kept can be freed, that in hand with its data
ConnSound(c) == \A k \in DOMAIN c.transactions : Sound(c.transactions[k])
Owned ==
    /\ NoLeak
    /\ conn # NoConn => ConnSound(conn)
    /\ tx # NoTx => Sound(tx)
    /\ pc = "rdata" => rr.rdata /\ ~rr.domain /\ rr.type \in {Domain, MX}

OfConn == IF conn = NoConn THEN 0 ELSE HeldConn(conn)
OfTx == IF tx = NoTx THEN 0 ELSE Held(tx)

LEMMA OwnedType ==
  ASSUME Types, Owned
  PROVE  /\ OfConn \in Int /\ OfTx \in Int
         /\ live = OfConn + OfTx + (IF pc = "rdata" THEN 3 ELSE 0) /\ live \in Int
<1>1. OfConn \in Int /\ OfTx \in Int
  BY HeldConnType, HeldType DEF Types, OfConn, OfTx
<1>2. live = OfConn + OfTx + (IF pc = "rdata" THEN 3 ELSE 0)
  BY DEF Owned, NoLeak, OfConn, OfTx
<1> QED BY <1>1, <1>2

\* a step that allocates and frees nothing
LEMMA OwnedSame ==
  ASSUME Owned, UNCHANGED <<conn, tx, live, rr>>, pc' = "rdata" <=> pc = "rdata"
  PROVE  Owned'
BY DEF Owned, NoLeak

LEMMA OwnedFree == DnsInv /\ Owned /\ Free => Owned'
<1> SUFFICES ASSUME DnsInv, Owned, Free PROVE Owned'
  OBVIOUS
<1>1. /\ conn \in Conns /\ conn # NoConn /\ tx = NoTx /\ pc = "idle" /\ pc' = pc
      /\ conn' = NoConn /\ UNCHANGED <<tx, rr>>
      /\ live' = live - 1 - Total([k \in DOMAIN conn.transactions |->
                                     FreeTransaction(conn.transactions[k])])
  BY DEF DnsInv, Types, Located, Free, Building
<1>2. [k \in DOMAIN conn.transactions |-> FreeTransaction(conn.transactions[k])]
        = [k \in DOMAIN conn.transactions |-> Held(conn.transactions[k])]
  <2>1. \A k \in DOMAIN conn.transactions :
            FreeTransaction(conn.transactions[k]) = Held(conn.transactions[k])
    BY <1>1, FreeAll DEF Owned, ConnSound
  <2> QED BY <2>1, Zenon
<1> DEFINE n == Total([k \in DOMAIN conn.transactions |-> Held(conn.transactions[k])])
<1>3. n \in Int /\ HeldConn(conn) = 1 + n
  BY <1>1, TransactionsType, TotalType DEF Conns, HeldConn
<1>4. live' = live - 1 - n
  BY <1>1, <1>2
<1>5. live = HeldConn(conn)
  <2>1. OfConn = HeldConn(conn) /\ OfTx = 0 /\ live = OfConn + OfTx + 0 /\ OfConn \in Int
    BY <1>1, OwnedType DEF OfConn, OfTx, DnsInv
  <2> QED BY <2>1
<1> HIDE DEF n
<1>6. live' = 0
  BY <1>3, <1>4, <1>5
<1> QED BY <1>1, <1>6 DEF Owned, NoLeak

LEMMA OwnedHeader ==
  ASSUME NEW mem, DnsInv, Owned, ParseHeader(mem)
  PROVE  Owned'
<1> DEFINE made == conn # NoConn \/ "conn" \in mem
           c == IF conn = NoConn /\ made THEN NewConn ELSE conn
           refused == End < DNS_HEADER_SIZE \/ "tx" \notin mem
<1>1. /\ Types /\ pc = "received" /\ tx = NoTx
  BY DEF DnsInv, Types, Located, ParseHeader, Building
<1>2. OfTx = 0 /\ live = OfConn /\ OfConn \in Int
  <2>1. OfTx = 0 /\ OfConn \in Int /\ live = OfConn + OfTx + 0
    BY <1>1, OwnedType DEF OfTx
  <2> QED BY <2>1
<1>3. HeldConn(NewConn) = 1 /\ ConnSound(NewConn)
  <2>1. NewConn.transactions = << >> /\ DOMAIN << >> = {}
    BY DEF NewConn
  <2>2. [k \in DOMAIN NewConn.transactions |-> Held(NewConn.transactions[k])] = << >>
    BY <2>1
  <2> QED BY <2>1, <2>2, TotalEmpty DEF HeldConn, ConnSound
<1>4. ASSUME made
      PROVE  /\ c # NoConn /\ c \in Conns /\ ConnSound(c)
             /\ HeldConn(c) = live + One(conn = NoConn)
  <2>1. CASE conn = NoConn
    BY <1>2, <1>3, <1>4, <2>1, NewConnOK DEF OfConn, One
  <2>2. CASE conn # NoConn
    BY <1>1, <1>2, <2>2 DEF Types, OfConn, One, Owned
  <2> QED BY <2>1, <2>2
<1>5. CASE ~made \/ info.payload_len = 0
  <2>1. /\ conn' = c /\ live' = live + One(made /\ conn = NoConn) /\ pc' = "idle" /\ tx' = tx
    BY <1>5 DEF ParseHeader, Return
  <2>2. CASE made
    <3>1. One(made /\ conn = NoConn) = One(conn = NoConn) /\ One(conn = NoConn) \in Int
      BY <2>2 DEF One
    <3> HIDE DEF made, c
    <3> QED BY <1>1, <1>2, <1>4, <2>1, <2>2, <3>1 DEF Owned, NoLeak
  <2>3. CASE ~made
    <3>1. c = NoConn /\ One(made /\ conn = NoConn) = 0 /\ live = 0
      BY <1>2, <2>3 DEF One, OfConn
    <3> HIDE DEF made, c
    <3> QED BY <1>1, <2>1, <3>1 DEF Owned, NoLeak
  <2> QED BY <2>2, <2>3
<1>6. CASE ~(~made \/ info.payload_len = 0)
  <2>1. /\ conn' = IF refused THEN [c EXCEPT !.parse_errors = @ + 1] ELSE CountHeader(c)
        /\ live' = live + One(conn = NoConn) + One(~refused)
        /\ tx' = IF refused THEN NoTx ELSE Head0
        /\ pc' = IF refused THEN "inspect" ELSE "section"
    BY <1>6 DEF ParseHeader
  <2>2. conn' # NoConn /\ conn'.transactions = c.transactions
    <3> HIDE DEF c
    <3> QED BY <1>1, <1>4, <1>6, <2>1, ErrorOK, CountHeaderOK, NullAssumption
  <2>3. HeldConn(conn') = live + One(conn = NoConn) /\ ConnSound(conn')
    <3> HIDE DEF c
    <3> QED BY <1>4, <1>6, <2>2, HeldSame DEF ConnSound
  <2>4. Head0 # NoTx /\ Held(Head0) = 1 /\ Sound(Head0)
    <3>1. Head0.records = << >> /\ DOMAIN << >> = {} /\ Head0.questions = 0
      BY DEF Head0
    <3>2. [k \in DOMAIN Head0.records |-> HeldRR(Head0.records[k])] = << >>
      BY <3>1
    <3> QED BY <1>1, <3>1, <3>2, TotalEmpty, HeadOK DEF Held, Sound
  <2>5. One(~refused) = IF refused THEN 0 ELSE 1
    BY DEF One
  <2>6. live + One(conn = NoConn) \in Int
    BY <1>2 DEF One
  <2> HIDE DEF refused
  <2>7. CASE refused
    BY <2>1, <2>2, <2>3, <2>5, <2>6, <2>7 DEF Owned, NoLeak
  <2>8. CASE ~refused
    BY <2>1, <2>2, <2>3, <2>4, <2>5, <2>6, <2>8 DEF Owned, NoLeak
  <2> QED BY <2>7, <2>8
<1> QED BY <1>5, <1>6

LEMMA OwnedFinish == DnsInv /\ Owned /\ Finish => Owned'
<1> SUFFICES ASSUME DnsInv, Owned, Finish PROVE Owned'
  OBVIOUS
<1>1. /\ Types /\ pc = "section" /\ tx \in Transactions /\ tx # NoTx /\ conn \in Conns
      /\ conn # NoConn /\ live' = live /\ tx' = NoTx /\ pc' = "inspect"
      /\ conn' = [conn EXCEPT !.transactions = <<tx>> \o @]
  BY DEF DnsInv, Types, Located, Finish, Building
<1> DEFINE ts == conn.transactions
           us == <<tx>> \o ts
<1>2. ts \in Seq(Transactions) /\ conn'.transactions = us
  BY <1>1 DEF Conns
<1>3. conn' # NoConn
  <2>1. us \in Seq(Transactions)
    BY <1>1, <1>2
  <2> HIDE DEF us
  <2>2. conn' \in Conns
    BY <1>1, <2>1 DEF us, Conns
  <2> QED BY <2>2, NullAssumption
<1>4. \A k \in DOMAIN us : us[k] = tx \/ \E j \in DOMAIN ts : us[k] = ts[j]
  <2>1. ASSUME NEW k \in DOMAIN us, k # 1
        PROVE  k - 1 \in DOMAIN ts /\ us[k] = ts[k - 1]
    BY <1>1, <1>2, <2>1
  <2>2. us[1] = tx
    BY <1>1, <1>2
  <2> HIDE DEF us
  <2> QED BY <2>1, <2>2
<1>5. ConnSound(conn')
  <2> HIDE DEF us
  <2> QED BY <1>1, <1>2, <1>4 DEF Owned, ConnSound
<1>6. Total([k \in DOMAIN us |-> Held(us[k])]) = Held(tx) + Total([k \in DOMAIN ts |-> Held(ts[k])])
  BY <1>1, <1>2, HeldFront
<1>7. HeldConn(conn') = 1 + (Held(tx) + Total([k \in DOMAIN ts |-> Held(ts[k])]))
  <2> HIDE DEF us
  <2> QED BY <1>2, <1>6 DEF HeldConn
<1>8. HeldConn(conn) = 1 + Total([k \in DOMAIN ts |-> Held(ts[k])])
      /\ Total([k \in DOMAIN ts |-> Held(ts[k])]) \in Int
  BY <1>2, TransactionsType, TotalType DEF HeldConn
<1>9. live = HeldConn(conn) + Held(tx) /\ Held(tx) \in Int
  <2>1. OfConn = HeldConn(conn) /\ OfTx = Held(tx) /\ live = OfConn + OfTx + 0
        /\ OfConn \in Int /\ OfTx \in Int
    BY <1>1, OwnedType DEF OfConn, OfTx
  <2> QED BY <2>1
<1> DEFINE n == Total([k \in DOMAIN ts |-> Held(ts[k])])
<1> HIDE DEF n
<1>10. live = HeldConn(conn')
  BY <1>7, <1>8, <1>9 DEF n
<1>11. HeldConn(conn') \in Int
  BY <1>7, <1>8, <1>9 DEF n
<1> HIDE DEF us, ts
<1> QED BY <1>1, <1>3, <1>5, <1>10, <1>11 DEF Owned, NoLeak

\* while a transaction is being built
LEMMA OwnedBuilding ==
  ASSUME DnsInv, Owned, pc \in {"name", "rdata"}
  PROVE  /\ tx \in Transactions /\ tx # NoTx /\ Sound(tx) /\ Held(tx) \in Int
         /\ conn \in Conns /\ conn # NoConn /\ ConnSound(conn) /\ HeldConn(conn) \in Int
         /\ live = HeldConn(conn) + Held(tx) + (IF pc = "rdata" THEN 3 ELSE 0)
<1>1. /\ tx \in Transactions /\ tx # NoTx /\ Sound(tx)
      /\ conn \in Conns /\ conn # NoConn /\ ConnSound(conn)
  BY NameRead DEF Owned
<1> QED BY <1>1, HeldType, HeldConnType, OwnedType DEF OfConn, OfTx, DnsInv

LEMMA OwnedQuestion ==
  ASSUME NEW mem, DnsInv, Owned, EndQuestion(mem)
  PROVE  Owned'
<1> DEFINE made == /\ walk.status = "ok" /\ ptr + walk.consumed + QuestionTail <= End
                   /\ {"q", "qname"} \subseteq mem
<1>1. pc = "name"
  BY DEF EndQuestion
<1>2. /\ tx \in Transactions /\ tx # NoTx /\ Sound(tx) /\ Held(tx) \in Int
      /\ conn \in Conns /\ conn # NoConn /\ ConnSound(conn) /\ HeldConn(conn) \in Int
      /\ live = HeldConn(conn) + Held(tx)
  BY <1>1, OwnedBuilding
<1>3. CASE made
  <2> DEFINE qname == IF i = 0 THEN walk.chars ELSE tx.qname
             qtype == IF i = 0 THEN Cell(ptr + walk.consumed) ELSE tx.qtype
             dots == IF walk.dots > tx.dots THEN walk.dots ELSE tx.dots
             b == conn.suspicious_tld \/ SuspiciousDomain(walk)
  <2>1. /\ tx' = [tx EXCEPT !.questions = @ + 1, !.qname = qname, !.qtype = qtype, !.dots = dots]
        /\ live' = live + 2 /\ pc' = "section"
        /\ conn' = [conn EXCEPT !.suspicious_tld = b]
    BY <1>3 DEF EndQuestion
  <2> HIDE DEF qname, qtype, dots, b
  <2>2. tx'.questions = tx.questions + 1 /\ tx'.records = tx.records /\ tx.questions \in Nat
    BY <1>2, <2>1 DEF Transactions
  <2>3. conn'.transactions = conn.transactions
    BY <1>2, <2>1 DEF Conns
  <2>4. tx' # NoTx /\ conn' # NoConn
    <3>1. DnsInv'
      BY EndQuestionOK
    <3> QED BY <2>1, <3>1 DEF DnsInv, Located, Building
  <2>5. Held(tx') = Held(tx) + 2
    <3> DEFINE n == Total([k \in DOMAIN tx.records |-> HeldRR(tx.records[k])])
    <3>1. Held(tx) = 1 + 2 * tx.questions + n /\ Held(tx') = 1 + 2 * (tx.questions + 1) + n
      BY <2>2 DEF Held
    <3>2. n \in Int
      BY <1>2, RecordsType, TotalType DEF Transactions
    <3> HIDE DEF n
    <3> QED BY <2>2, <3>1, <3>2
  <2>6. HeldConn(conn') = HeldConn(conn) /\ ConnSound(conn') /\ Sound(tx')
    BY <1>2, <2>2, <2>3, HeldSame DEF ConnSound, Sound
  <2> QED BY <1>2, <2>1, <2>4, <2>5, <2>6 DEF Owned, NoLeak
<1>4. CASE ~made
  <2>1. /\ live' = live - FreeTransaction(tx) /\ conn' = QuestionError(conn)
        /\ tx' = NoTx /\ pc' = "inspect"
    BY <1>4 DEF EndQuestion
  <2>2. conn' \in Conns /\ conn' # NoConn /\ conn'.transactions = conn.transactions
    BY <1>2, <2>1, ErrorOK, NullAssumption DEF QuestionError
  <2>3. HeldConn(conn') = HeldConn(conn) /\ ConnSound(conn')
    BY <1>2, <2>2, HeldSame DEF ConnSound
  <2>4. live' = HeldConn(conn)
    BY <1>2, <2>1, FreeAll
  <2> QED BY <1>2, <2>1, <2>2, <2>3, <2>4 DEF Owned, NoLeak
<1> QED BY <1>3, <1>4

\* a record is added to the transaction
LEMMA OwnedAdd ==
  ASSUME NEW r \in Records, DnsInv, Owned, pc \in {"name", "rdata"}, SoundRR(r), conn' = conn,
         tx' = [tx EXCEPT !.records = Append(@, r)], pc' = "section",
         live' = HeldConn(conn) + Held(tx) + HeldRR(r)
  PROVE  Owned'
<1>1. /\ tx \in Transactions /\ tx # NoTx /\ Sound(tx) /\ Held(tx) \in Int
      /\ conn \in Conns /\ conn # NoConn /\ ConnSound(conn) /\ HeldConn(conn) \in Int
  BY OwnedBuilding
<1>2. Held(tx') = Held(tx) + HeldRR(r) /\ HeldRR(r) \in Int /\ tx' # NoTx
  BY <1>1, HeldRecord, HeldRRType, RecordAdded
<1>3. Sound(tx')
  <2>1. tx.records \in Seq(Records) /\ tx'.records = Append(tx.records, r)
    BY <1>1 DEF Transactions
  <2>2. \A k \in DOMAIN Append(tx.records, r) :
            \/ Append(tx.records, r)[k] = r
            \/ k \in DOMAIN tx.records /\ Append(tx.records, r)[k] = tx.records[k]
    BY <2>1
  <2> QED BY <1>1, <2>1, <2>2 DEF Sound
<1> QED BY <1>1, <1>2, <1>3 DEF Owned, NoLeak

LEMMA OwnedRecord ==
  ASSUME NEW mem, DnsInv, Owned, EndRecord(mem)
  PROVE  Owned'
<1> DEFINE tail == ptr + walk.consumed
           fits == walk.status = "ok" /\ tail + RecordTail <= End
           type == Cell(tail)
           rdlength == Cell(tail + RecordTail - 1)
           read == fits /\ tail + RecordTail + rdlength <= End
           made == read /\ {"rr", "name"} \subseteq mem /\ (rdlength > 0 => "rdata" \in mem)
           named == rdlength > 0 /\ (type = Domain \/ (type = MX /\ rdlength >= MxPreference))
           next == tail + RecordTail + rdlength
           new == [type |-> type, rdata |-> rdlength > 0, domain |-> FALSE, next |-> next]
<1>1. /\ pc = "name" /\ conn' = conn
      /\ \/ made /\ named /\ rr' = new /\ pc' = "rdata" /\ live' = live + 3 /\ tx' = tx
         \/ /\ made /\ ~named /\ tx' = [tx EXCEPT !.records = Append(@, new)]
            /\ live' = live + 2 + One(new.rdata) /\ pc' = "section"
         \/ ~made /\ pc' = "section" /\ UNCHANGED <<tx, live, rr>>
  BY DEF EndRecord
<1>2. live = HeldConn(conn) + Held(tx) /\ HeldConn(conn) \in Int /\ Held(tx) \in Int
      /\ conn # NoConn /\ tx # NoTx
  BY <1>1, OwnedBuilding
<1>3. ~new.domain /\ new.rdata = (rdlength > 0) /\ new.type = type
  OBVIOUS
<1>4. CASE made /\ named /\ rr' = new /\ pc' = "rdata" /\ live' = live + 3 /\ tx' = tx
  <2>1. rr'.rdata /\ ~rr'.domain /\ rr'.type \in {Domain, MX}
    <3> HIDE DEF made, new, type, rdlength
    <3> QED BY <1>3, <1>4
  <2> HIDE DEF made, named, new
  <2> QED BY <1>1, <1>2, <1>4, <2>1 DEF Owned, NoLeak
<1>5. CASE made /\ ~named /\ tx' = [tx EXCEPT !.records = Append(@, new)]
           /\ live' = live + 2 + One(new.rdata) /\ pc' = "section"
  <2>1. new \in Records
    <3>1. End \in Nat /\ tail \in Nat /\ \A q \in Nat : Cell(q) \in Nat
      BY <1>1, NameRead
    <3>2. tail + RecordTail - 1 \in Nat
      BY <3>1, Constants
    <3>3. type \in Nat /\ next \in Nat /\ (rdlength > 0) \in BOOLEAN
      BY <3>1, <3>2, Constants
    <3> HIDE DEF type, next, rdlength
    <3> QED BY <3>3 DEF Records
  <2> HIDE DEF made, named, new
  <2>2. SoundRR(new) /\ HeldRR(new) = 2 + One(new.rdata) + 0 /\ One(new.rdata) \in Int
    BY <1>3 DEF SoundRR, HeldRR, One
  <2>3. live' = HeldConn(conn) + Held(tx) + HeldRR(new)
    BY <1>2, <1>5, <2>2
  <2> QED BY <1>1, <1>5, <2>1, <2>2, <2>3, OwnedAdd
<1>6. CASE ~made /\ pc' = "section" /\ UNCHANGED <<tx, live, rr>>
  <2> HIDE DEF made
  <2> QED BY <1>1, <1>6, OwnedSame
<1> HIDE DEF made, named, new
<1> QED BY <1>1, <1>4, <1>5, <1>6

LEMMA OwnedRdata ==
  ASSUME NEW mem, DnsInv, Owned, EndRdata(mem)
  PROVE  Owned'
<1> DEFINE kept == walk.status = "ok" /\ "domain" \in mem
           r == [rr EXCEPT !.domain = kept]
<1>1. /\ pc = "rdata" /\ conn' = conn /\ pc' = "section" /\ live' = live + One(kept)
      /\ tx' = [tx EXCEPT !.records = Append(@, r)]
  BY DEF EndRdata
<1>2. live = HeldConn(conn) + Held(tx) + 3 /\ HeldConn(conn) \in Int /\ Held(tx) \in Int
  BY <1>1, OwnedBuilding
<1>3. rr \in Records /\ rr.rdata /\ rr.type \in {Domain, MX}
  BY <1>1 DEF DnsInv, Types, Owned
<1>4. r \in Records /\ r.domain = kept /\ r.rdata = rr.rdata /\ r.type = rr.type
  <2>1. kept \in BOOLEAN
    OBVIOUS
  <2> HIDE DEF kept
  <2> QED BY <1>3, <2>1 DEF Records
<1> HIDE DEF r, kept
<1>5. SoundRR(r) /\ HeldRR(r) = 3 + One(kept) /\ One(kept) \in Int
  BY <1>3, <1>4 DEF SoundRR, HeldRR, One
<1>6. live' = HeldConn(conn) + Held(tx) + HeldRR(r)
  BY <1>1, <1>2, <1>5
<1> QED BY <1>1, <1>4, <1>5, <1>6, OwnedAdd

LEMMA OwnedNext == DnsInv /\ Owned /\ [Next]_vars => Owned'
<1> SUFFICES ASSUME DnsInv, Owned, [Next]_vars PROVE Owned'
  OBVIOUS
<1>1. CASE UNCHANGED vars
  BY <1>1, OwnedSame DEF vars
<1>2. CASE Receive \/ Skip \/ Inspect \/ ReadName \/ NextItem \/ NextSection
  BY <1>2, OwnedSame DEF Receive, Skip, Inspect, Return, ReadName, NextItem, NextSection
<1>3. ASSUME NEW mem, ParseHeader(mem) \/ EndQuestion(mem) \/ EndRecord(mem) \/ EndRdata(mem)
      PROVE  Owned'
  BY <1>3, OwnedHeader, OwnedQuestion, OwnedRecord, OwnedRdata
<1> QED BY <1>1, <1>2, <1>3, OwnedFree, OwnedFinish DEF Next, Parse

-----------------------------------------------------------------------------
\* dns_parser_parse is only given what follows the headers in a frame, and
\* reads nothing beyond it, whatever the packet holds and wherever compression
\* pointers lead; a name that is kept fits the buffers of the callers.
THEOREM DnsInBounds == Spec => []ParserInBounds
<1>1. DnsInv => ParserInBounds
  <2> SUFFICES ASSUME DnsInv PROVE ParserInBounds
    OBVIOUS
  <2>1. PayloadInFrame
    BY PayloadOK
  <2>2. walk \in Walks /\ WalkOK(walk, End)
    BY DEF DnsInv, Located, WalkOK
  <2>3. TypeOK
    BY <2>2, Constants DEF DnsInv, Types, Located, TypeOK, WalkOK, Walks, Building
  <2>4. End \in Nat
    BY PayloadType DEF DnsInv
  <2>5. InPayload
    BY <2>2, <2>4 DEF DnsInv, Types, Located, InPayload, WalkOK, Walks, Records, Building
  <2>6. NameFits
    BY <2>2 DEF NameFits, WalkOK
  <2> QED BY <2>1, <2>3, <2>5, <2>6 DEF ParserInBounds
<1> QED BY <1>1, DnsInvariant, PTL

\* the counters of a dns_conn_t: a query or response that was counted became
\* a transaction, is becoming one or was an error, and no packet counts twice.
LEMMA DnsCounted == Spec => []DnsAccounting
<1>1. DnsInv => DnsAccounting
  <2> SUFFICES ASSUME DnsInv, conn # NoConn
               PROVE  LET kept == Len(conn.transactions) + One(tx # NoTx)
                          counted == conn.queries + conn.responses
                      IN  kept <= counted /\ counted <= kept + conn.parse_errors
                                          /\ kept + conn.parse_errors <= packets
    BY DEF DnsAccounting
  <2>1. Counts(conn, One(tx # NoTx), One(pc = "received"), packets)
    BY DEF DnsInv, Counted
  <2>2. One(pc = "received") \in {0, 1} /\ One(tx # NoTx) \in {0, 1}
    BY DEF One
  <2>3. Counts(conn, One(tx # NoTx), 0, packets)
    BY <2>1, <2>2, CountsMore DEF DnsInv, Types
  <2>4. /\ Len(conn.transactions) \in Nat /\ conn.parse_errors \in Nat
    BY DEF DnsInv, Types, Conns
  <2> QED BY <2>2, <2>3, <2>4 DEF Counts
<1> QED BY <1>1, DnsInvariant, PTL

\* Every packet and every block of memory of a dns_conn_t is accounted for:
\* what was counted became a transaction, is becoming one or was an error, no
\* packet counts twice, and whatever allocation fails, dns_parser_parse and
\* dns_parser_free leave no block behind.
THEOREM DnsMemory == Spec => []DnsAccounted
<1>1. Init => Owned
  BY DEF Init, Owned, NoLeak
<1>2. Spec => []Owned
  BY <1>1, OwnedNext, DnsInvariant, PTL DEF Spec
<1>3. Owned => NoLeak
  BY DEF Owned
<1>4. DnsAccounting /\ NoLeak => DnsAccounted
  BY DEF DnsAccounted
<1> QED BY <1>2, <1>3, <1>4, DnsCounted, PTL

\* is_suspicious_domain: the connection is marked from the moment it holds a
\* transaction with a suspicious name.
THEOREM DnsMarked == Spec => []SuspectMarked
<1>1. DnsInv => SuspectMarked
  BY DEF DnsInv, Marked, SuspectMarked, Suspect
<1> QED BY <1>1, DnsInvariant, PTL

-----------------------------------------------------------------------------
(***************************************************************************)
(* Names.  The two recursive functions that say what a payload spells      *)
(* exist, and the walk follows them.                                       *)
(***************************************************************************)
At(pay, q) == IF q < Len(pay) THEN pay[q + 1] ELSE 0
To(pay, q) == (At(pay, q) - PTR) * 256 + At(pay, q + 1)
Past(pay, q) == q + 1 + At(pay, q)

PlaceBody(pay, f, q) ==
    IF q = Len(pay) THEN Len(pay) + 1
    ELSE IF At(pay, q) >= PTR THEN q + 2
    ELSE IF At(pay, q) = 0 THEN q + 1
    ELSE IF Past(pay, q) > Len(pay) THEN Len(pay) + 1
    ELSE f[Past(pay, q)]
IsPlaces(f, pay) == f = [q \in 0 .. Len(pay) |-> PlaceBody(pay, f, q)]

LabelBody(pay, f, q, r) ==
    IF At(pay, q) = 0 THEN << >>
    ELSE IF At(pay, q) >= PTR
    THEN IF r = 0 \/ To(pay, q) > Len(pay) THEN << >> ELSE f[<<To(pay, q), r - 1>>]
    ELSE <<q>> \o (IF Past(pay, q) > Len(pay) THEN << >> ELSE f[<<Past(pay, q), r>>])
Spots(pay, n) == (0 .. Len(pay)) \X (0 .. n)
IsLabels(f, pay, n) == f = [x \in Spots(pay, n) |-> LabelBody(pay, f, x[1], x[2])]

LEMMA AtType ==
  ASSUME NEW pay \in Seq(Nat), NEW q \in 0 .. Len(pay)
  PROVE  /\ Len(pay) \in Nat /\ q \in Nat /\ At(pay, q) \in Nat /\ Past(pay, q) \in Nat
         /\ Past(pay, q) > q /\ (At(pay, q) >= PTR => To(pay, q) \in Nat)
<1>1. Len(pay) \in Nat /\ q \in Nat
  OBVIOUS
<1>2. \A p \in Nat : At(pay, p) \in Nat
  BY DEF At
<1>3. At(pay, q) \in Nat /\ At(pay, q + 1) \in Nat
  BY <1>1, <1>2
<1>4. Past(pay, q) \in Nat /\ Past(pay, q) > q
  BY <1>1, <1>3 DEF Past
<1>5. At(pay, q) >= PTR => To(pay, q) \in Nat
  <2> DEFINE a == At(pay, q)
             b == At(pay, q + 1)
  <2> HIDE DEF a, b
  <2>1. a \in Nat /\ b \in Nat
    BY <1>3 DEF a, b
  <2>2. a >= PTR => (a - PTR) * 256 + b \in Nat
    BY <2>1, Constants
  <2> QED BY <2>2 DEF To, a, b
<1> QED BY <1>1, <1>3, <1>4, <1>5

LEMMA PlaceSame ==
  ASSUME NEW pay \in Seq(Nat), NEW f, NEW g, NEW q \in 0 .. Len(pay),
         \A p \in 0 .. Len(pay) : p > q => f[p] = g[p]
  PROVE  PlaceBody(pay, f, q) = PlaceBody(pay, g, q)
<1>1. /\ Len(pay) \in Nat /\ Past(pay, q) \in Nat /\ Past(pay, q) > q
  BY AtType
<1>2. ~(Past(pay, q) > Len(pay)) => f[Past(pay, q)] = g[Past(pay, q)]
  BY <1>1
<1> QED BY <1>2 DEF PlaceBody

PlacesFrom(f, pay, k) ==
    \A q \in 0 .. Len(pay) : q > Len(pay) - k => f[q] = PlaceBody(pay, f, q)

LEMMA PlacesExist ==
  ASSUME NEW pay \in Seq(Nat)
  PROVE  \E f : IsPlaces(f, pay)
<1> DEFINE N == Len(pay)
           S == {k \in 0 .. N + 1 : ~ \E f : PlacesFrom(f, pay, k)}
<1>1. N \in Nat
  OBVIOUS
<1>2. S = {}
  <2>1. SUFFICES ASSUME S # {} PROVE FALSE
    OBVIOUS
  <2>2. S \in SUBSET Nat
    BY <1>1
  <2>3. PICK m \in S : \A y \in S : m <= y
    <3> HIDE DEF S
    <3> QED BY <2>1, <2>2, LeastNat
  <2>4. m \in 0 .. N + 1 /\ ~ \E f : PlacesFrom(f, pay, m)
    BY <2>3
  <2>5. PlacesFrom(<< >>, pay, 0)
    BY <1>1 DEF PlacesFrom
  <2>6. m # 0
    BY <2>4, <2>5
  <2>7. m - 1 \in 0 .. N + 1 /\ m - 1 \notin S
    <3> HIDE DEF S
    <3> QED BY <1>1, <2>3, <2>4, <2>6
  <2>8. PICK f : PlacesFrom(f, pay, m - 1)
    BY <2>7
  <2> HIDE DEF S
  <2> DEFINE g == [q \in 0 .. N |-> IF q > N - (m - 1) THEN f[q] ELSE PlaceBody(pay, f, q)]
  <2>9. \A q \in 0 .. N : q > N - (m - 1) => g[q] = f[q]
    OBVIOUS
  <2>10. ASSUME NEW q \in 0 .. N, q > N - m PROVE g[q] = PlaceBody(pay, g, q)
    <3>1. g[q] = PlaceBody(pay, f, q)
      BY <2>8 DEF PlacesFrom
    <3>2. \A p \in 0 .. Len(pay) : p > q => f[p] = g[p]
      BY <1>1, <2>4, <2>9, <2>10
    <3> HIDE DEF g
    <3> QED BY <3>1, <3>2, PlaceSame
  <2>11. PlacesFrom(g, pay, m)
    <3> HIDE DEF g
    <3> QED BY <2>10 DEF PlacesFrom
  <2> QED BY <2>4, <2>11
<1>3. N + 1 \in 0 .. N + 1 /\ N + 1 \notin S
  <2> HIDE DEF S
  <2> QED BY <1>1, <1>2
<1>4. PICK f : PlacesFrom(f, pay, N + 1)
  BY <1>3
<1>5. \A q \in 0 .. N : f[q] = PlaceBody(pay, f, q)
  BY <1>1, <1>4 DEF PlacesFrom
<1> DEFINE g == [q \in 0 .. N |-> f[q]]
<1>6. \A q \in 0 .. N : g[q] = f[q]
  OBVIOUS
<1>7. g = [q \in 0 .. N |-> g[q]]
  OBVIOUS
<1>8. ASSUME NEW q \in 0 .. N PROVE g[q] = PlaceBody(pay, g, q)
  <2> HIDE DEF g
  <2>1. PlaceBody(pay, f, q) = PlaceBody(pay, g, q)
    BY <1>6, PlaceSame
  <2> QED BY <1>5, <1>6, <2>1
<1> HIDE DEF g
<1>9. IsPlaces(g, pay)
  BY <1>7, <1>8, Zenon DEF IsPlaces
<1> QED BY <1>9

\* f and g agree on the spots that come before <<q, r>>
Agree(f, g, pay, n, q, r) ==
    \A p \in 0 .. Len(pay), s \in 0 .. n :
        s < r \/ (s = r /\ p > q) => f[<<p, s>>] = g[<<p, s>>]

LEMMA LabelSame ==
  ASSUME NEW pay \in Seq(Nat), NEW n \in Nat, NEW f, NEW g, NEW q \in 0 .. Len(pay),
         NEW r \in 0 .. n, Agree(f, g, pay, n, q, r)
  PROVE  LabelBody(pay, f, q, r) = LabelBody(pay, g, q, r)
<1>1. /\ Len(pay) \in Nat /\ Past(pay, q) \in Nat /\ Past(pay, q) > q
      /\ At(pay, q) >= PTR => To(pay, q) \in Nat
  BY AtType
<1>2. ~(Past(pay, q) > Len(pay)) => f[<<Past(pay, q), r>>] = g[<<Past(pay, q), r>>]
  <2> SUFFICES ASSUME ~(Past(pay, q) > Len(pay))
               PROVE  f[<<Past(pay, q), r>>] = g[<<Past(pay, q), r>>]
    OBVIOUS
  <2>1. Past(pay, q) \in 0 .. Len(pay)
    BY <1>1
  <2> QED BY <1>1, <2>1, Zenon DEF Agree
<1>3. At(pay, q) >= PTR /\ ~(r = 0 \/ To(pay, q) > Len(pay))
      => f[<<To(pay, q), r - 1>>] = g[<<To(pay, q), r - 1>>]
  <2> SUFFICES ASSUME At(pay, q) >= PTR, ~(r = 0 \/ To(pay, q) > Len(pay))
               PROVE  f[<<To(pay, q), r - 1>>] = g[<<To(pay, q), r - 1>>]
    OBVIOUS
  <2>1. To(pay, q) \in 0 .. Len(pay) /\ r - 1 \in 0 .. n /\ r - 1 < r
    BY <1>1
  <2> QED BY <2>1, Zenon DEF Agree
<1> QED BY <1>2, <1>3 DEF LabelBody

\* the equation holds in the rows below j, and in row j for the last k spots
LabelsUpto(f, pay, n, j, k) ==
    \A q \in 0 .. Len(pay), r \in 0 .. n :
        r < j \/ (r = j /\ q > Len(pay) - k) => f[<<q, r>>] = LabelBody(pay, f, q, r)

LEMMA LabelsMore ==
  ASSUME NEW pay \in Seq(Nat), NEW n \in Nat, NEW j \in 0 .. n, NEW k \in 0 .. Len(pay),
         NEW f, LabelsUpto(f, pay, n, j, k)
  PROVE  \E g : LabelsUpto(g, pay, n, j, k + 1)
<1> DEFINE N == Len(pay)
           Done(q, r) == r < j \/ (r = j /\ q > N - k)
           g == [x \in Spots(pay, n) |->
                    IF Done(x[1], x[2]) THEN f[x] ELSE LabelBody(pay, f, x[1], x[2])]
<1>1. N \in Nat
  OBVIOUS
<1>2. \A q \in 0 .. N, r \in 0 .. n :
        g[<<q, r>>] = IF Done(q, r) THEN f[<<q, r>>] ELSE LabelBody(pay, f, q, r)
  BY DEF Spots
<1>3. \A q \in 0 .. N, r \in 0 .. n : Done(q, r) => g[<<q, r>>] = f[<<q, r>>]
  BY <1>2
<1> HIDE DEF g
<1>4. ASSUME NEW q \in 0 .. N, NEW r \in 0 .. n, r < j \/ (r = j /\ q > N - (k + 1))
      PROVE  g[<<q, r>>] = LabelBody(pay, g, q, r)
  <2>1. g[<<q, r>>] = LabelBody(pay, f, q, r)
    BY <1>2 DEF LabelsUpto
  <2>2. ASSUME NEW p \in 0 .. N, NEW s \in 0 .. n, s < r \/ (s = r /\ p > q)
        PROVE  f[<<p, s>>] = g[<<p, s>>]
    <3>1. Done(p, s)
      BY <1>1, <1>4, <2>2
    <3> HIDE DEF Done
    <3> QED BY <1>3, <3>1
  <2>3. Agree(f, g, pay, n, q, r)
    BY <2>2, Zenon DEF Agree
  <2>4. LabelBody(pay, f, q, r) = LabelBody(pay, g, q, r)
    BY <2>3, LabelSame
  <2> QED BY <2>1, <2>4
<1>5. LabelsUpto(g, pay, n, j, k + 1)
  BY <1>4 DEF LabelsUpto
<1> QED BY <1>5

LEMMA LabelRow ==
  ASSUME NEW pay \in Seq(Nat), NEW n \in Nat, NEW j \in 0 .. n,
         NEW f0, LabelsUpto(f0, pay, n, j, 0)
  PROVE  \E f : LabelsUpto(f, pay, n, j + 1, 0)
<1> DEFINE N == Len(pay)
           S == {k \in 0 .. N + 1 : ~ \E f : LabelsUpto(f, pay, n, j, k)}
<1>1. N \in Nat
  OBVIOUS
<1>2. S = {}
  <2>1. SUFFICES ASSUME S # {} PROVE FALSE
    OBVIOUS
  <2>2. S \in SUBSET Nat
    BY <1>1
  <2>3. PICK m \in S : \A y \in S : m <= y
    <3> HIDE DEF S
    <3> QED BY <2>1, <2>2, LeastNat
  <2>4. m \in 0 .. N + 1 /\ ~ \E f : LabelsUpto(f, pay, n, j, m)
    BY <2>3
  <2>5. m # 0
    BY <2>4
  <2>6. m - 1 \in 0 .. N /\ m - 1 \in 0 .. N + 1 /\ m - 1 \notin S /\ (m - 1) + 1 = m
    <3> HIDE DEF S
    <3> QED BY <1>1, <2>3, <2>4, <2>5
  <2>7. PICK f : LabelsUpto(f, pay, n, j, m - 1)
    BY <2>6
  <2>8. \E g : LabelsUpto(g, pay, n, j, (m - 1) + 1)
    BY <2>6, <2>7, LabelsMore
  <2> QED BY <2>4, <2>6, <2>8
<1>3. N + 1 \in 0 .. N + 1 /\ N + 1 \notin S
  <2> HIDE DEF S
  <2> QED BY <1>1, <1>2
<1>4. PICK f : LabelsUpto(f, pay, n, j, N + 1)
  BY <1>3
<1>5. \A q \in 0 .. N, r \in 0 .. n : r < j + 1 => r < j \/ (r = j /\ q > N - (N + 1))
  BY <1>1
<1>6. \A q \in 0 .. N, r \in 0 .. n :
         r < j + 1 \/ (r = j + 1 /\ q > N - 0) => r < j + 1
  BY <1>1
<1>7. LabelsUpto(f, pay, n, j + 1, 0)
  BY <1>4, <1>5, <1>6 DEF LabelsUpto
<1> QED BY <1>7

LEMMA LabelsExist ==
  ASSUME NEW pay \in Seq(Nat), NEW n \in Nat
  PROVE  \E f : IsLabels(f, pay, n)
<1> DEFINE N == Len(pay)
           S == {j \in 0 .. n + 1 : ~ \E f : LabelsUpto(f, pay, n, j, 0)}
<1>1. N \in Nat
  OBVIOUS
<1>2. S = {}
  <2>1. SUFFICES ASSUME S # {} PROVE FALSE
    OBVIOUS
  <2>2. S \in SUBSET Nat
    OBVIOUS
  <2>3. PICK m \in S : \A y \in S : m <= y
    <3> HIDE DEF S
    <3> QED BY <2>1, <2>2, LeastNat
  <2>4. m \in 0 .. n + 1 /\ ~ \E f : LabelsUpto(f, pay, n, m, 0)
    BY <2>3
  <2>5. LabelsUpto(<< >>, pay, n, 0, 0)
    <3>1. \A q \in 0 .. N, r \in 0 .. n : ~(r < 0 \/ (r = 0 /\ q > N - 0))
      BY <1>1
    <3> QED BY <3>1 DEF LabelsUpto
  <2>6. m # 0
    BY <2>4, <2>5
  <2>7. m - 1 \in 0 .. n /\ m - 1 \in 0 .. n + 1 /\ m - 1 \notin S /\ (m - 1) + 1 = m
    <3> HIDE DEF S
    <3> QED BY <2>3, <2>4, <2>6
  <2>8. PICK f : LabelsUpto(f, pay, n, m - 1, 0)
    BY <2>7
  <2>9. \E g : LabelsUpto(g, pay, n, (m - 1) + 1, 0)
    BY <2>7, <2>8, LabelRow
  <2> QED BY <2>4, <2>7, <2>9
<1>3. n + 1 \in 0 .. n + 1 /\ n + 1 \notin S
  <2> HIDE DEF S
  <2> QED BY <1>2
<1>4. PICK f : LabelsUpto(f, pay, n, n + 1, 0)
  BY <1>3
<1>5. \A q \in 0 .. N, r \in 0 .. n : f[<<q, r>>] = LabelBody(pay, f, q, r)
  <2>1. \A r \in 0 .. n : r < n + 1
    OBVIOUS
  <2> QED BY <1>4, <2>1, Zenon DEF LabelsUpto
<1> DEFINE g == [x \in Spots(pay, n) |-> f[x]]
<1>6. \A q \in 0 .. N, r \in 0 .. n : g[<<q, r>>] = f[<<q, r>>]
  BY DEF Spots
<1>7. g = [x \in Spots(pay, n) |-> g[x]]
  OBVIOUS
<1> HIDE DEF g
<1>8. ASSUME NEW x \in Spots(pay, n) PROVE g[x] = LabelBody(pay, g, x[1], x[2])
  <2>1. x[1] \in 0 .. N /\ x[2] \in 0 .. n /\ x = <<x[1], x[2]>>
    BY DEF Spots
  <2>2. LabelBody(pay, f, x[1], x[2]) = LabelBody(pay, g, x[1], x[2])
    <3>1. Agree(f, g, pay, n, x[1], x[2])
      BY <1>6, Zenon DEF Agree
    <3> QED BY <2>1, <3>1, LabelSame
  <2>3. g[<<x[1], x[2]>>] = LabelBody(pay, f, x[1], x[2])
    BY <1>5, <1>6, <2>1
  <2> QED BY <2>1, <2>2, <2>3
<1>9. IsLabels(g, pay, n)
  BY <1>7, <1>8, Zenon DEF IsLabels
<1> QED BY <1>9

PlaceOf(pay) == CHOOSE f : IsPlaces(f, pay)
LabelsOf(pay) == CHOOSE f : IsLabels(f, pay, max_jumps)

\* where the name at q ends in place, and its labels through r pointers
EndOf(pay, q) == PlaceOf(pay)[q]
Spelled(pay, q, r) == LabelsOf(pay)[<<q, r>>]
Size(pay, labels) == Total([k \in DOMAIN labels |-> At(pay, labels[k]) + 1])

LEMMA EndOfIs ==
  ASSUME NEW pay \in Seq(Nat), NEW q \in 0 .. Len(pay)
  PROVE  EndOf(pay, q) = PlaceBody(pay, PlaceOf(pay), q)
<1>1. IsPlaces(PlaceOf(pay), pay)
  BY PlacesExist, Zenon DEF PlaceOf
<1> DEFINE f == PlaceOf(pay)
<1>2. f = [p \in 0 .. Len(pay) |-> PlaceBody(pay, f, p)]
  BY <1>1 DEF IsPlaces
<1> HIDE DEF f
<1>3. f[q] = PlaceBody(pay, f, q)
  <2> DEFINE g == [p \in 0 .. Len(pay) |-> PlaceBody(pay, f, p)]
  <2>1. g[q] = PlaceBody(pay, f, q)
    BY Zenon
  <2> HIDE DEF g
  <2>2. f = g
    BY <1>2, Zenon DEF g
  <2> QED BY <2>1, <2>2
<1> QED BY <1>3 DEF EndOf, f

LEMMA SpelledIs ==
  ASSUME NEW pay \in Seq(Nat), NEW q \in 0 .. Len(pay), NEW r \in 0 .. max_jumps
  PROVE  Spelled(pay, q, r) = LabelBody(pay, LabelsOf(pay), q, r)
<1>1. IsLabels(LabelsOf(pay), pay, max_jumps)
  BY LabelsExist, Constants, Zenon DEF LabelsOf
<1> DEFINE f == LabelsOf(pay)
<1>2. f = [x \in Spots(pay, max_jumps) |-> LabelBody(pay, f, x[1], x[2])]
  BY <1>1 DEF IsLabels
<1> HIDE DEF f
<1>3. f[<<q, r>>] = LabelBody(pay, f, q, r)
  <2> DEFINE x == <<q, r>>
  <2>1. x \in Spots(pay, max_jumps) /\ x[1] = q /\ x[2] = r
    BY DEF Spots
  <2> HIDE DEF x
  <2> DEFINE g == [y \in Spots(pay, max_jumps) |-> LabelBody(pay, f, y[1], y[2])]
  <2>2. g[x] = LabelBody(pay, f, x[1], x[2])
    BY <2>1, Zenon
  <2> HIDE DEF g
  <2>3. f = g
    BY <1>2, Zenon DEF g
  <2>4. f[x] = LabelBody(pay, f, q, r)
    BY <2>1, <2>2, <2>3
  <2> QED BY <2>4 DEF x
<1> QED BY <1>3 DEF Spelled, f

\* the names that TLC evaluates
LEMMA SpelledHere ==
  /\ \A p : PlaceEnd(p) = EndOf(payload, p)
  /\ \A p : Labels(p, max_jumps) = Spelled(payload, p, max_jumps)
  /\ \A p : Cell(p) = At(payload, p)
<1>1. \A p : PlaceEnd(p) = EndOf(payload, p)
  BY Zenon DEF PlaceEnd, EndOf, PlaceOf, IsPlaces, PlaceBody, Past, At, Cell, End
<1>2. \A p : Labels(p, max_jumps) = Spelled(payload, p, max_jumps)
  BY Zenon DEF Labels, Spelled, LabelsOf, IsLabels, Spots, LabelBody, To, Past, At, Cell, End
<1>3. \A p : Cell(p) = At(payload, p)
  BY Zenon DEF At, Cell, End
<1> QED BY <1>1, <1>2, <1>3

LEMMA SpelledStep ==
  ASSUME NEW pay \in Seq(Nat), NEW q \in 0 .. Len(pay), NEW r \in 0 .. max_jumps
  PROVE  /\ At(pay, q) = 0 => Spelled(pay, q, r) = << >>
         /\ At(pay, q) >= PTR /\ r # 0 /\ To(pay, q) <= Len(pay)
            => Spelled(pay, q, r) = Spelled(pay, To(pay, q), r - 1)
         /\ At(pay, q) # 0 /\ ~(At(pay, q) >= PTR) /\ Past(pay, q) <= Len(pay)
            => Spelled(pay, q, r) = <<q>> \o Spelled(pay, Past(pay, q), r)
<1>1. Spelled(pay, q, r) = LabelBody(pay, LabelsOf(pay), q, r)
  BY SpelledIs
<1>2. /\ Len(pay) \in Nat /\ At(pay, q) \in Nat /\ Past(pay, q) \in Nat
      /\ At(pay, q) >= PTR => To(pay, q) \in Nat
  BY AtType
<1>3. ASSUME At(pay, q) = 0 PROVE Spelled(pay, q, r) = << >>
  BY <1>1, <1>3 DEF LabelBody
<1>4. ASSUME At(pay, q) >= PTR, r # 0, To(pay, q) <= Len(pay)
      PROVE  Spelled(pay, q, r) = Spelled(pay, To(pay, q), r - 1)
  <2>1. At(pay, q) # 0 /\ ~(To(pay, q) > Len(pay))
    BY <1>2, <1>4, Constants
  <2> QED BY <1>1, <1>4, <2>1, Zenon DEF LabelBody, Spelled
<1>5. ASSUME At(pay, q) # 0, ~(At(pay, q) >= PTR), Past(pay, q) <= Len(pay)
      PROVE  Spelled(pay, q, r) = <<q>> \o Spelled(pay, Past(pay, q), r)
  <2>1. ~(Past(pay, q) > Len(pay))
    BY <1>2, <1>5
  <2> QED BY <1>1, <1>5, <2>1, Zenon DEF LabelBody, Spelled
<1> QED BY <1>3, <1>4, <1>5

LEMMA EndStep ==
  ASSUME NEW pay \in Seq(Nat), NEW q \in 0 .. Len(pay), q < Len(pay)
  PROVE  /\ At(pay, q) = 0 => EndOf(pay, q) = q + 1
         /\ At(pay, q) >= PTR => EndOf(pay, q) = q + 2
         /\ At(pay, q) # 0 /\ ~(At(pay, q) >= PTR) /\ Past(pay, q) <= Len(pay)
            => EndOf(pay, q) = EndOf(pay, Past(pay, q))
<1>1. EndOf(pay, q) = PlaceBody(pay, PlaceOf(pay), q)
  BY EndOfIs
<1>2. /\ Len(pay) \in Nat /\ At(pay, q) \in Nat /\ Past(pay, q) \in Nat /\ q # Len(pay)
  BY AtType
<1>3. ASSUME At(pay, q) = 0 PROVE EndOf(pay, q) = q + 1
  BY <1>1, <1>2, <1>3, Constants DEF PlaceBody
<1>4. ASSUME At(pay, q) >= PTR PROVE EndOf(pay, q) = q + 2
  BY <1>1, <1>2, <1>4 DEF PlaceBody
<1>5. ASSUME At(pay, q) # 0, ~(At(pay, q) >= PTR), Past(pay, q) <= Len(pay)
      PROVE  EndOf(pay, q) = EndOf(pay, Past(pay, q))
  <2>1. ~(Past(pay, q) > Len(pay))
    BY <1>2, <1>5
  <2> QED BY <1>1, <1>2, <1>5, <2>1, Zenon DEF PlaceBody, EndOf
<1> QED BY <1>3, <1>4, <1>5

LEMMA SpelledType ==
  ASSUME NEW pay \in Seq(Nat)
  PROVE  \A q \in 0 .. Len(pay), r \in 0 .. max_jumps : Spelled(pay, q, r) \in Seq(0 .. Len(pay))
<1> DEFINE N == Len(pay)
           Good(q, r) == Spelled(pay, q, r) \in Seq(0 .. N)
           R == {r \in 0 .. max_jumps : \E q \in 0 .. N : ~Good(q, r)}
<1>1. N \in Nat /\ max_jumps \in Nat
  BY Constants
<1> HIDE DEF Good
<1>2. R = {}
  <2>1. SUFFICES ASSUME R # {} PROVE FALSE
    OBVIOUS
  <2>2. R \in SUBSET Nat
    BY <1>1
  <2>3. PICK r \in R : \A y \in R : r <= y
    <3> HIDE DEF R
    <3> QED BY <2>1, <2>2, LeastNat
  <2> DEFINE Q == {k \in 0 .. N : ~Good(N - k, r)}
  <2>4. r \in 0 .. max_jumps /\ \E q \in 0 .. N : ~Good(q, r)
    BY <2>3
  <2>5. Q # {} /\ Q \in SUBSET Nat
    <3>1. PICK q \in 0 .. N : ~Good(q, r)
      BY <2>4
    <3>2. N - q \in 0 .. N /\ N - (N - q) = q
      BY <1>1
    <3>3. ~Good(N - (N - q), r)
      BY <3>1, <3>2
    <3>4. N - q \in Q
      BY <3>2, <3>3, Zenon
    <3>5. 0 .. N \subseteq Nat
      BY <1>1
    <3> QED BY <3>4, <3>5, Zenon
  <2>6. PICK m \in Q : \A y \in Q : m <= y
    <3> HIDE DEF Q
    <3> QED BY <2>5, LeastNat
  <2> DEFINE q == N - m
  <2>7. q \in 0 .. N /\ ~Good(q, r) /\ m \in 0 .. N
    <3>1. m \in 0 .. N /\ ~Good(N - m, r)
      BY <2>6
    <3> QED BY <1>1, <3>1
  <2>8. ASSUME NEW p \in 0 .. N, p > q PROVE Good(p, r)
    <3>1. N - p \in 0 .. N /\ N - (N - p) = p /\ ~(m <= N - p)
      BY <1>1, <2>7, <2>8
    <3>2. N - p \notin Q
      <4> HIDE DEF Q
      <4> QED BY <2>6, <3>1
    <3>3. Good(N - (N - p), r)
      BY <3>1, <3>2
    <3> QED BY <3>1, <3>3
  <2>9. ASSUME NEW p \in 0 .. N, NEW s \in 0 .. max_jumps, s < r PROVE Good(p, s)
    <3>1. s \notin R
      <4> HIDE DEF R
      <4> QED BY <1>1, <2>3, <2>4, <2>9
    <3> QED BY <3>1
  <2> HIDE DEF q, Q, R
  <2>10. Spelled(pay, q, r) = LabelBody(pay, LabelsOf(pay), q, r)
    BY <2>4, <2>7, SpelledIs
  <2>11. /\ At(pay, q) \in Nat /\ Past(pay, q) \in Nat /\ Past(pay, q) > q
         /\ At(pay, q) >= PTR => To(pay, q) \in Nat
    BY <2>7, AtType
  <2>12. ~(Past(pay, q) > Len(pay)) => Good(Past(pay, q), r)
    BY <1>1, <2>8, <2>11
  <2>13. At(pay, q) >= PTR /\ ~(r = 0 \/ To(pay, q) > Len(pay)) => Good(To(pay, q), r - 1)
    <3> SUFFICES ASSUME At(pay, q) >= PTR, ~(r = 0 \/ To(pay, q) > Len(pay))
                 PROVE  Good(To(pay, q), r - 1)
      OBVIOUS
    <3>1. To(pay, q) \in 0 .. N /\ r - 1 \in 0 .. max_jumps /\ r - 1 < r
      BY <1>1, <2>4, <2>11
    <3> QED BY <2>9, <3>1, Zenon
  <2>14. \A s \in Seq(0 .. N) : <<q>> \o s \in Seq(0 .. N)
    BY <1>1, <2>7
  <2>15. << >> \in Seq(0 .. N) /\ <<q>> \o << >> \in Seq(0 .. N)
    <3>1. << >> \in Seq(0 .. N)
      OBVIOUS
    <3> QED BY <2>14, <3>1, Zenon
  <2>16. Spelled(pay, q, r) \in Seq(0 .. N)
    <3>1. CASE At(pay, q) = 0
      BY <2>10, <2>15, <3>1 DEF LabelBody
    <3>2. CASE At(pay, q) # 0 /\ At(pay, q) >= PTR
      <4>1. CASE r = 0 \/ To(pay, q) > Len(pay)
        BY <2>10, <2>15, <3>2, <4>1 DEF LabelBody
      <4>2. CASE ~(r = 0 \/ To(pay, q) > Len(pay))
        <5>1. Spelled(pay, q, r) = Spelled(pay, To(pay, q), r - 1)
          BY <2>10, <3>2, <4>2, Zenon DEF LabelBody, Spelled
        <5> QED BY <2>13, <3>2, <4>2, <5>1 DEF Good
      <4> QED BY <4>1, <4>2
    <3>3. CASE At(pay, q) # 0 /\ ~(At(pay, q) >= PTR)
      <4>1. CASE Past(pay, q) > Len(pay)
        BY <2>10, <2>15, <3>3, <4>1 DEF LabelBody
      <4>2. CASE ~(Past(pay, q) > Len(pay))
        <5>1. Spelled(pay, q, r) = <<q>> \o Spelled(pay, Past(pay, q), r)
          BY <2>10, <3>3, <4>2, Zenon DEF LabelBody, Spelled
        <5>2. Spelled(pay, Past(pay, q), r) \in Seq(0 .. N)
          BY <2>12, <4>2 DEF Good
        <5> QED BY <2>14, <5>1, <5>2
      <4> QED BY <4>1, <4>2
    <3> QED BY <3>1, <3>2, <3>3
  <2> QED BY <2>7, <2>16 DEF Good
<1>3. \A q \in 0 .. N, r \in 0 .. max_jumps : Good(q, r)
  BY <1>2
<1> QED BY <1>3 DEF Good

LEMMA SizesType ==
  ASSUME NEW pay \in Seq(Nat), NEW s \in Seq(0 .. Len(pay))
  PROVE  LET a == [k \in DOMAIN s |-> At(pay, s[k]) + 1]
         IN  a \in Seq(Int) /\ Len(a) = Len(s)
<1>1. DOMAIN s = 1 .. Len(s) /\ Len(s) \in Nat /\ \A k \in 1 .. Len(s) : s[k] \in 0 .. Len(pay)
  OBVIOUS
<1>2. \A k \in 1 .. Len(s) : At(pay, s[k]) + 1 \in Int
  <2> TAKE k \in 1 .. Len(s)
  <2>1. At(pay, s[k]) \in Nat
    BY <1>1, AtType
  <2> QED BY <2>1
<1>3. [k \in DOMAIN s |-> At(pay, s[k]) + 1] \in [1 .. Len(s) -> Int]
  BY <1>1, <1>2
<1> QED BY <1>1, <1>3

LEMMA SizeType ==
  ASSUME NEW pay \in Seq(Nat), NEW s \in Seq(0 .. Len(pay))
  PROVE  Size(pay, s) \in Int
BY SizesType, TotalType DEF Size

LEMMA SizeEmpty ==
  ASSUME NEW pay \in Seq(Nat)
  PROVE  Size(pay, << >>) = 0
<1>1. [k \in DOMAIN << >> |-> At(pay, << >>[k]) + 1] = << >>
  OBVIOUS
<1> QED BY <1>1, TotalEmpty DEF Size

LEMMA SizeFront ==
  ASSUME NEW pay \in Seq(Nat), NEW s \in Seq(0 .. Len(pay)), NEW q \in 0 .. Len(pay)
  PROVE  Size(pay, <<q>> \o s) = At(pay, q) + 1 + Size(pay, s)
<1> DEFINE t == <<q>> \o s
           a == [k \in DOMAIN s |-> At(pay, s[k]) + 1]
           b == [k \in DOMAIN t |-> At(pay, t[k]) + 1]
           x == At(pay, q) + 1
<1>1. /\ t \in Seq(0 .. Len(pay)) /\ Len(t) = Len(s) + 1 /\ t[1] = q
      /\ \A k \in 1 .. Len(s) : t[k + 1] = s[k]
      /\ Len(s) \in Nat
  OBVIOUS
<1>0. Len(pay) \in Nat
  OBVIOUS
<1> HIDE DEF t
<1>2. a \in Seq(Int) /\ Len(a) = Len(s)
  BY SizesType
<1>3. b \in Seq(Int) /\ Len(b) = Len(s) + 1
  BY <1>1, SizesType
<1>4. (\A k \in 1 .. Len(s) : b[k + 1] = a[k]) /\ b[1] = x
  <2>1. DOMAIN t = 1 .. Len(s) + 1 /\ DOMAIN s = 1 .. Len(s)
    BY <1>1
  <2> QED BY <1>1, <2>1
<1>5. x \in Int
  BY AtType
<1> HIDE DEF a, b, x
<1>6. b = <<x>> \o a
  <2>1. b \in [1 .. Len(a) + 1 -> Int]
    BY <1>2, <1>3
  <2> QED BY <1>2, <1>4, <1>5, <2>1, PrependIs
<1>7. Total(b) = x + Total(a)
  BY <1>2, <1>5, <1>6, TotalPrepend, Zenon
<1> QED BY <1>7 DEF a, b, t, x, Size

(***************************************************************************)
(* What a walk has copied and what is left of the name, each label with    *)
(* the dot that follows it, is all of the name; until a pointer is         *)
(* followed the name that is left ends where the whole one does.           *)
(***************************************************************************)
WalkRead(w, pay) ==
    LET all == Spelled(pay, w.start, max_jumps)
        rest == Spelled(pay, w.p, max_jumps - w.jumps)
        inPlace == w.consumed = EndOf(pay, w.start) - w.start
    IN  w.status # "bad" =>
            /\ w.start <= Len(pay)
            /\ w.out + One(w.out # 0) + Size(pay, rest) = Size(pay, all)
            /\ IF w.out = 0 THEN all = rest ELSE all # << >>
            /\ IF w.jumps = 0 THEN EndOf(pay, w.p) = EndOf(pay, w.start) ELSE inPlace
            /\ w.status = "ok" => rest = << >> /\ inPlace

\* a walk before the cell it reads next
Reading(w, pay) ==
    /\ w \in Walks /\ w.status = "walking" /\ w.p < Len(pay) /\ w.jumps <= max_jumps
    /\ WalkRead(w, pay)

LEMMA ReadingType ==
  ASSUME NEW pay \in Seq(Nat), NEW w, Reading(w, pay)
  PROVE  /\ Len(pay) \in Nat /\ max_jumps \in Nat
         /\ {w.start, w.p, w.out, w.jumps, w.consumed} \subseteq Nat
         /\ w.p \in 0 .. Len(pay) /\ max_jumps - w.jumps \in 0 .. max_jumps
         /\ w.start \in 0 .. Len(pay)
<1>1. Len(pay) \in Nat /\ max_jumps \in Nat
  BY Constants
<1>2. {w.start, w.p, w.out, w.jumps, w.consumed} \subseteq Nat
  BY DEF Reading, Walks
<1>3. w.start <= Len(pay) /\ w.p < Len(pay) /\ w.jumps <= max_jumps
  BY DEF Reading, WalkRead
<1> QED BY <1>1, <1>2, <1>3

LEMMA PointerRead ==
  ASSUME NEW pay \in Seq(Nat), NEW w, Reading(w, pay), At(pay, w.p) >= PTR,
         To(pay, w.p) <= Len(pay), w.jumps < max_jumps,
         NEW v, v.start = w.start, v.out = w.out, v.status = "walking",
         v.p = To(pay, w.p), v.jumps = w.jumps + 1, v.consumed = Consumed(w, 2)
  PROVE  WalkRead(v, pay)
<1>1. /\ max_jumps \in Nat /\ w.start \in Nat /\ w.p \in Nat /\ w.jumps \in Nat
      /\ w.p \in 0 .. Len(pay) /\ max_jumps - w.jumps \in 0 .. max_jumps
      /\ w.p < Len(pay)
  BY ReadingType DEF Reading
<1>2. /\ max_jumps - w.jumps # 0 /\ (max_jumps - w.jumps) - 1 = max_jumps - v.jumps
      /\ v.jumps # 0
  BY <1>1
<1>3. Spelled(pay, w.p, max_jumps - w.jumps) = Spelled(pay, v.p, max_jumps - v.jumps)
  BY <1>1, <1>2, SpelledStep
<1>4. EndOf(pay, w.p) = w.p + 2
  BY <1>1, EndStep
<1>5. /\ w.jumps = 0 => EndOf(pay, w.p) = EndOf(pay, w.start)
      /\ w.jumps # 0 => w.consumed = EndOf(pay, w.start) - w.start
  BY DEF Reading, WalkRead
<1>6. v.consumed = EndOf(pay, w.start) - w.start
  <2>1. CASE w.jumps = 0
    <3>1. EndOf(pay, w.start) = w.p + 2 /\ v.consumed = w.p - w.start + 2
      BY <1>4, <1>5, <2>1 DEF Consumed
    <3> QED BY <1>1, <3>1
  <2>2. CASE w.jumps # 0
    BY <1>5, <2>2 DEF Consumed
  <2> QED BY <2>1, <2>2
<1> QED BY <1>2, <1>3, <1>6 DEF Reading, WalkRead

LEMMA LabelRead ==
  ASSUME NEW pay \in Seq(Nat), NEW w, Reading(w, pay),
         At(pay, w.p) # 0, ~(At(pay, w.p) >= PTR), Past(pay, w.p) <= Len(pay),
         NEW v, v.start = w.start, v.status = "walking", v.jumps = w.jumps,
         v.consumed = w.consumed, v.p = Past(pay, w.p),
         v.out = w.out + One(w.out # 0) + At(pay, w.p)
  PROVE  WalkRead(v, pay)
<1>1. /\ max_jumps \in Nat /\ w.start \in Nat /\ w.p \in Nat /\ w.jumps \in Nat
      /\ w.p \in 0 .. Len(pay) /\ max_jumps - w.jumps \in 0 .. max_jumps
      /\ w.p < Len(pay) /\ w.out \in Nat /\ Len(pay) \in Nat
  BY ReadingType DEF Reading
<1> DEFINE all == Spelled(pay, w.start, max_jumps)
           old == Spelled(pay, w.p, max_jumps - w.jumps)
           rest == Spelled(pay, v.p, max_jumps - v.jumps)
<1>2. old = <<w.p>> \o rest
  BY <1>1, SpelledStep
<1>3. v.p \in 0 .. Len(pay) /\ At(pay, w.p) \in Nat
  BY <1>1, AtType
<1>4. rest \in Seq(0 .. Len(pay))
  BY <1>1, <1>3, SpelledType
<1>5. /\ w.out + One(w.out # 0) + Size(pay, old) = Size(pay, all)
      /\ IF w.out = 0 THEN all = old ELSE all # << >>
      /\ IF w.jumps = 0 THEN EndOf(pay, w.p) = EndOf(pay, w.start)
         ELSE w.consumed = EndOf(pay, w.start) - w.start
      /\ w.start <= Len(pay)
  BY DEF Reading, WalkRead
<1> HIDE DEF all, old, rest
<1>6. Size(pay, old) = At(pay, w.p) + 1 + Size(pay, rest) /\ Size(pay, rest) \in Int
  BY <1>1, <1>2, <1>4, SizeFront, SizeType
<1>7. v.out # 0 /\ One(v.out # 0) = 1 /\ One(w.out # 0) \in {0, 1}
  BY <1>1, <1>3 DEF One
<1>8. v.out + One(v.out # 0) + Size(pay, rest) = Size(pay, all)
  BY <1>1, <1>3, <1>5, <1>6, <1>7
<1>9. old # << >>
  BY <1>2, <1>4
<1>10. all # << >>
  BY <1>5, <1>9
<1>11. EndOf(pay, w.p) = EndOf(pay, v.p)
  BY <1>1, EndStep
<1> QED BY <1>5, <1>7, <1>8, <1>10, <1>11 DEF WalkRead, all, rest

LEMMA EndRead ==
  ASSUME NEW pay \in Seq(Nat), NEW w, Reading(w, pay), At(pay, w.p) = 0,
         NEW v, v.start = w.start, v.status = "ok", v.jumps = w.jumps, v.p = w.p,
         v.out = w.out, v.consumed = Consumed(w, 1)
  PROVE  WalkRead(v, pay)
<1>1. /\ w.start \in Nat /\ w.p \in Nat /\ w.jumps \in Nat
      /\ w.p \in 0 .. Len(pay) /\ max_jumps - w.jumps \in 0 .. max_jumps
      /\ w.p < Len(pay)
  BY ReadingType DEF Reading
<1>2. Spelled(pay, v.p, max_jumps - v.jumps) = << >> /\ EndOf(pay, w.p) = w.p + 1
  <2>1. Spelled(pay, w.p, max_jumps - w.jumps) = << >>
    BY <1>1, SpelledStep
  <2>2. EndOf(pay, w.p) = w.p + 1
    BY <1>1, EndStep
  <2> QED BY <2>1, <2>2
<1>3. v.consumed = EndOf(pay, w.start) - w.start
  <2>1. /\ w.jumps = 0 => EndOf(pay, w.p) = EndOf(pay, w.start)
        /\ w.jumps # 0 => w.consumed = EndOf(pay, w.start) - w.start
    BY DEF Reading, WalkRead
  <2>2. CASE w.jumps = 0
    <3>1. EndOf(pay, w.start) = w.p + 1 /\ v.consumed = w.p - w.start + 1
      BY <1>2, <2>1, <2>2 DEF Consumed
    <3> QED BY <1>1, <3>1
  <2>3. CASE w.jumps # 0
    BY <2>1, <2>3 DEF Consumed
  <2> QED BY <2>2, <2>3
<1> DEFINE all == Spelled(pay, w.start, max_jumps)
           rest == Spelled(pay, w.p, max_jumps - w.jumps)
<1>4. /\ w.out + One(w.out # 0) + Size(pay, rest) = Size(pay, all)
      /\ IF w.out = 0 THEN all = rest ELSE all # << >>
      /\ IF w.jumps = 0 THEN EndOf(pay, w.p) = EndOf(pay, w.start)
         ELSE w.consumed = EndOf(pay, w.start) - w.start
      /\ w.start <= Len(pay)
  BY DEF Reading, WalkRead
<1>5. w.jumps # 0 => v.consumed = EndOf(pay, v.start) - v.start
  BY <1>3
<1> QED BY <1>2, <1>3, <1>4, <1>5, Zenon DEF WalkRead

LEMMA NewRead ==
  ASSUME NEW pay \in Seq(Nat), NEW start \in 0 .. Len(pay)
  PROVE  WalkRead(Walk(start), pay)
<1> DEFINE v == Walk(start)
<1>1. v.start = start /\ v.p = start /\ v.out = 0 /\ v.jumps = 0 /\ v.status = "walking"
  BY DEF Walk, NoWalk
<1> HIDE DEF v
<1>2. One(v.out # 0) = 0 /\ max_jumps - v.jumps = max_jumps /\ start <= Len(pay)
  BY <1>1, Constants DEF One
<1>3. Spelled(pay, start, max_jumps) \in Seq(0 .. Len(pay))
  BY SpelledType, Constants
<1>4. Size(pay, Spelled(pay, start, max_jumps)) \in Int
  BY <1>3, SizeType
<1>5. WalkRead(v, pay)
  BY <1>1, <1>2, <1>4 DEF WalkRead
<1> QED BY <1>5 DEF v

LEMMA BadRead == ASSUME NEW w \in Walks, NEW pay PROVE WalkRead(Bad(w), pay)
<1>1. Bad(w).status = "bad"
  BY DEF Bad, Walks
<1> QED BY <1>1 DEF WalkRead

LEMMA FollowRead ==
  ASSUME Types, NEW w, Reading(w, payload), Cell(w.p) >= PTR
  PROVE  WalkRead(FollowPointer(w), payload)
<1>1. payload \in Seq(Nat) /\ w \in Walks /\ End = Len(payload)
  BY PayloadOf DEF Types, payload, Reading, End
<1>2. Cell(w.p) = At(payload, w.p) /\ Cell(w.p + 1) = At(payload, w.p + 1)
  BY SpelledHere, Zenon
<1>3. (Cell(w.p) - PTR) * 256 + Cell(w.p + 1) = To(payload, w.p)
  BY <1>2 DEF To
<1> DEFINE to == To(payload, w.p)
           v == [w EXCEPT !.consumed = Consumed(w, 2), !.p = to, !.jumps = CountJump(w)]
<1>4. ASSUME ~(to >= End), ~TooManyJumps(w) PROVE WalkRead(v, payload)
  <2>1. /\ w.jumps \in Nat /\ max_jumps \in Nat /\ Len(payload) \in Nat
        /\ w.p \in 0 .. Len(payload)
    BY <1>1, ReadingType
  <2>2. to \in Nat /\ w.jumps < max_jumps
    BY <1>1, <1>2, <1>4, <2>1, AtType DEF TooManyJumps, CountJump
  <2> HIDE DEF to
  <2>3. to <= Len(payload)
    BY <1>1, <1>4, <2>1, <2>2
  <2>4. /\ v.start = w.start /\ v.out = w.out /\ v.status = w.status
        /\ v.p = to /\ v.jumps = CountJump(w) /\ v.consumed = Consumed(w, 2)
    BY <1>1 DEF Walks
  <2> HIDE DEF v
  <2>5. v.status = "walking" /\ v.jumps = w.jumps + 1
    BY <2>4 DEF CountJump, Reading
  <2> QED BY <1>1, <1>2, <2>2, <2>3, <2>4, <2>5, PointerRead DEF to
<1>5. WalkRead(Bad(w), payload)
  BY <1>1, BadRead
<1> HIDE DEF v
<1>6. FollowPointer(w) = IF w.p + 1 >= End \/ to >= End \/ TooManyJumps(w) THEN Bad(w) ELSE v
  BY <1>3, Zenon DEF FollowPointer, v
<1> HIDE DEF to
<1> QED BY <1>4, <1>5, <1>6

LEMMA CopyRead ==
  ASSUME Types, NEW w, Reading(w, payload), Cell(w.p) # 0, ~(Cell(w.p) >= PTR)
  PROVE  WalkRead(CopyLabel(w, Cell(w.p)), payload)
<1> DEFINE len == Cell(w.p)
           dot == One(w.out # 0)
           copied == {Cell(q) : q \in w.p + 1 .. w.p + len}
           new == {IF c \in Printable THEN c ELSE QuestionMark : c \in copied}
           v == [w EXCEPT !.out = @ + dot + len, !.dots = @ + dot, !.p = @ + 1 + len,
                          !.chars = @ \cup new]
<1>1. payload \in Seq(Nat) /\ w \in Walks /\ End = Len(payload)
  BY PayloadOf DEF Types, payload, Reading, End
<1>2. len = At(payload, w.p)
  BY SpelledHere, Zenon
<1>3. w.p + 1 + len = Past(payload, w.p)
  BY <1>2 DEF Past
<1> HIDE DEF new, dot, len
<1>4. /\ v.start = w.start /\ v.jumps = w.jumps /\ v.status = w.status
      /\ v.consumed = w.consumed /\ v.p = w.p + 1 + len /\ v.out = w.out + dot + len
      /\ DOMAIN v = DOMAIN w
  BY <1>1 DEF Walks
<1> HIDE DEF v
<1>5. CopyLabel(w, len) = IF ~LabelFits(w, len) THEN Bad(w)
                          ELSE IF TooLong(v.out) THEN Bad(v) ELSE v
  BY Zenon DEF CopyLabel, v, dot, new
<1>6. ASSUME LabelFits(w, len) PROVE WalkRead(v, payload)
  <2>1. Past(payload, w.p) <= Len(payload)
    BY <1>1, <1>3, <1>6 DEF LabelFits
  <2>2. v.status = "walking"
    BY <1>4 DEF Reading
  <2>3. At(payload, w.p) # 0 /\ ~(At(payload, w.p) >= PTR)
    BY <1>2 DEF len
  <2>4. v.out = w.out + One(w.out # 0) + At(payload, w.p)
    BY <1>2, <1>4 DEF dot
  <2>5. v.p = Past(payload, w.p)
    BY <1>3, <1>4
  <2> QED BY <1>1, <1>4, <2>1, <2>2, <2>3, <2>4, <2>5, LabelRead
<1>7. WalkRead(Bad(w), payload)
  BY <1>1, BadRead
<1>8. WalkRead(Bad(v), payload)
  <2>1. "status" \in DOMAIN v
    BY <1>1, <1>4 DEF Walks
  <2>2. Bad(v).status = "bad"
    BY <2>1 DEF Bad
  <2> QED BY <2>2 DEF WalkRead
<1>9. WalkRead(CopyLabel(w, len), payload)
  BY <1>5, <1>6, <1>7, <1>8
<1> QED BY <1>9 DEF len

\* one round of the loop of parse_dns_name
LEMMA WalkStepRead ==
  ASSUME Types, NEW w, WalkOK(w, End), w.status = "walking", WalkRead(w, payload)
  PROVE  WalkRead(WalkStep(w), payload)
<1>1. payload \in Seq(Nat) /\ w \in Walks /\ End = Len(payload) /\ End \in Nat
  BY PayloadOf, PayloadType DEF Types, payload, WalkOK, End
<1>2. WalkRead(Bad(w), payload)
  BY <1>1, BadRead
<1>3. ASSUME ~(w.p >= End) PROVE Reading(w, payload)
  <2>1. w.p \in Nat
    BY <1>1 DEF Walks
  <2>2. w.p < Len(payload)
    BY <1>1, <1>3, <2>1
  <2> QED BY <1>1, <2>2 DEF Reading, WalkOK
<1> DEFINE v == [w EXCEPT !.consumed = Consumed(w, 1), !.status = "ok"]
<1>4. ASSUME ~(w.p >= End), Cell(w.p) = 0 PROVE WalkRead(v, payload)
  <2>1. /\ v.start = w.start /\ v.jumps = w.jumps /\ v.status = "ok" /\ v.p = w.p
        /\ v.out = w.out /\ v.consumed = Consumed(w, 1)
    BY <1>1 DEF Walks
  <2> HIDE DEF v
  <2>2. At(payload, w.p) = 0
    BY <1>4, SpelledHere
  <2> QED BY <1>1, <1>3, <1>4, <2>1, <2>2, EndRead
<1> HIDE DEF v
<1>5. WalkStep(w) = IF w.p >= End THEN Bad(w)
                    ELSE IF Cell(w.p) >= PTR THEN FollowPointer(w)
                    ELSE IF Cell(w.p) = 0 THEN v
                    ELSE IF Cell(w.p) > DNS_MAX_LABEL_LEN THEN Bad(w)
                    ELSE CopyLabel(w, Cell(w.p))
  BY Zenon DEF WalkStep, v
<1>6. ASSUME ~(w.p >= End), Cell(w.p) >= PTR PROVE WalkRead(FollowPointer(w), payload)
  BY <1>3, <1>6, FollowRead
<1>7. ASSUME ~(w.p >= End), Cell(w.p) # 0, ~(Cell(w.p) >= PTR)
      PROVE  WalkRead(CopyLabel(w, Cell(w.p)), payload)
  BY <1>3, <1>7, CopyRead
<1> QED BY <1>2, <1>4, <1>5, <1>6, <1>7, Zenon

LEMMA ReadSame ==
  ASSUME UNCHANGED <<frame, info, walk>>, WalkRead(walk, payload)
  PROVE  WalkRead(walk, payload)'
<1>1. payload' = payload
  BY DEF payload
<1> QED BY <1>1 DEF WalkRead

LEMMA ReadNone ==
  ASSUME walk' = NoWalk
  PROVE  WalkRead(walk, payload)'
BY DEF WalkRead, NoWalk

\* a new walk starts where the one that came before it allows
LEMMA ReadNew ==
  ASSUME DnsInv, DnsInv', UNCHANGED <<frame, info>>, NEW start, walk' = Walk(start)
  PROVE  WalkRead(walk, payload)'
<1>1. payload' = payload /\ payload \in Seq(Nat) /\ End' = Len(payload)
  BY PayloadOf DEF DnsInv, Types, payload, End
<1>2. walk'.p \in Nat /\ walk'.p <= Len(payload) /\ walk'.p = start
  BY <1>1 DEF DnsInv, Located, WalkOK, Walks, Walk, NoWalk
<1>3. start \in 0 .. Len(payload)
  BY <1>1, <1>2
<1>4. WalkRead(Walk(start), payload)
  BY <1>1, <1>3, NewRead
<1> QED BY <1>1, <1>4

LEMMA ReadNext == DnsInv /\ WalkRead(walk, payload) /\ [Next]_vars => WalkRead(walk, payload)'
<1> SUFFICES ASSUME DnsInv, WalkRead(walk, payload), [Next]_vars
             PROVE  WalkRead(walk, payload)'
  OBVIOUS
<1>0. DnsInv'
  BY NextOK
<1>1. CASE UNCHANGED vars \/ NextSection \/ Free
  BY <1>1, ReadSame DEF vars, NextSection, Free
<1>2. CASE Skip \/ Inspect \/ Finish
  BY <1>2, ReadNone DEF Skip, Inspect, Finish, Return
<1>3. CASE Receive
  BY <1>3, ReadNone DEF Receive, DnsInv, Located
<1>4. CASE ReadName
  <2>1. payload' = payload /\ walk' = WalkStep(walk) /\ walk.status = "walking"
    BY <1>4 DEF ReadName, payload
  <2>2. WalkRead(WalkStep(walk), payload)
    BY <2>1, WalkStepRead DEF DnsInv, Located
  <2> QED BY <2>1, <2>2
<1>5. CASE NextItem
  BY <1>0, <1>5, ReadNew DEF NextItem
<1>6. ASSUME NEW mem, ParseHeader(mem) PROVE WalkRead(walk, payload)'
  <2>1. walk' = NoWalk \/ UNCHANGED <<frame, info, walk>>
    BY <1>6 DEF ParseHeader, Return
  <2> QED BY <2>1, ReadNone, ReadSame
<1>7. ASSUME NEW mem, EndQuestion(mem) \/ EndRdata(mem) PROVE WalkRead(walk, payload)'
  <2>1. UNCHANGED <<frame, info, walk>>
    BY <1>7 DEF EndQuestion, EndRdata
  <2> QED BY <2>1, ReadSame
<1>8. ASSUME NEW mem, EndRecord(mem) PROVE WalkRead(walk, payload)'
  <2>1. UNCHANGED <<frame, info>> /\ (walk' = walk \/ \E start : walk' = Walk(start))
    BY <1>8, Zenon DEF EndRecord
  <2> QED BY <1>0, <2>1, ReadNew, ReadSame
<1> QED BY <1>1, <1>2, <1>3, <1>4, <1>5, <1>6, <1>7, <1>8 DEF Next, Parse

\* parse_dns_name: a name that is accepted is the one the payload spells,
\* through at most max_jumps compression pointers, label by label and without
\* a dot at its end, and the caller goes on behind the first pointer or the
\* byte that ends the name in place.
THEOREM DnsNames == Spec => []NameFaithful
<1>1. Init => WalkRead(walk, payload)
  BY DEF Init, WalkRead, NoWalk
<1>2. Spec => []WalkRead(walk, payload)
  BY <1>1, ReadNext, DnsInvariant, PTL DEF Spec
<1>3. DnsInv /\ WalkRead(walk, payload) => NameFaithful
  <2> SUFFICES ASSUME DnsInv, WalkRead(walk, payload), walk.status = "ok"
               PROVE  LET labels == Labels(walk.start, max_jumps)
                      IN  /\ walk.consumed = PlaceEnd(walk.start) - walk.start
                          /\ walk.out = Total([k \in DOMAIN labels |-> Cell(labels[k]) + 1])
                                        - One(labels # << >>)
    BY DEF NameFaithful
  <2>1. payload \in Seq(Nat) /\ walk \in Walks
    BY PayloadOf DEF DnsInv, Types, Located, WalkOK, payload
  <2> DEFINE all == Spelled(payload, walk.start, max_jumps)
             rest == Spelled(payload, walk.p, max_jumps - walk.jumps)
  <2>2. /\ walk.out + One(walk.out # 0) + Size(payload, rest) = Size(payload, all)
        /\ IF walk.out = 0 THEN all = rest ELSE all # << >>
        /\ rest = << >> /\ walk.consumed = EndOf(payload, walk.start) - walk.start
    BY DEF WalkRead
  <2>3. Size(payload, rest) = 0
    BY <2>1, <2>2, SizeEmpty
  <2>4. /\ all = Labels(walk.start, max_jumps)
        /\ EndOf(payload, walk.start) = PlaceEnd(walk.start)
    BY SpelledHere
  <2>5. Size(payload, all) = Total([k \in DOMAIN all |-> Cell(all[k]) + 1])
    BY SpelledHere, Zenon DEF Size
  <2> HIDE DEF all, rest
  <2>6. walk.out = Size(payload, all) - One(all # << >>)
    BY <2>1, <2>2, <2>3 DEF One, Walks
  <2> QED BY <2>2, <2>4, <2>5, <2>6
<1> QED BY <1>2, <1>3, DnsInvariant, PTL
=============================================================================
