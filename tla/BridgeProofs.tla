---------------------------- MODULE BridgeProofs ----------------------------
(***************************************************************************)
(* Theorems about Bridge, for any traffic, limits and failures of          *)
(* allocations, when both directions of a flow are received by one lcore:  *)
(* the parser of a flow is the one of its protocol, an HTTP connection is  *)
(* sound, its finished transactions do not change, and each was inspected; *)
(* the warnings of a TLS connection have a cause.  For any lcores: a rule  *)
(* engine keeps the newest of its alerts.                                  *)
(***************************************************************************)
EXTENDS Bridge, FiniteSetTheorems, WellFoundedInduction, TLAPS

-----------------------------------------------------------------------------
(* The HTTP parser *)

\* what the sides of a flow send, and what is read of it
Units == UNION {Range(s[f][d]) : s \in Traffic, f \in Flows, d \in Dirs}
Uris == {u.uri : u \in Units} \cup {NoText}
Statuses == {u.status : u \in Units} \cup {0}
Buffers == [units : Seq(Units), part : BOOLEAN]

Requests == [uri : Uris, header_count : Nat, complete : BOOLEAN]
Responses == [status : Statuses, header_count : Nat, complete : BOOLEAN, null : BOOLEAN]
Txs == [request : Requests, response : Responses,
        state : {"REQUEST_LINE", "REQUEST_HEADERS", "RESPONSE_HEADERS", "DONE"}]
Conns == [state : {"IDLE", "REQUEST_HEADERS", "RESPONSE_LINE", "RESPONSE_HEADERS", "ERROR"},
          transactions : Seq(Txs), current_tx : Nat, requests_parsed : Nat,
          responses_parsed : Nat, parse_errors : Nat]

Responding == {"RESPONSE_LINE", "RESPONSE_HEADERS"}

\* the transactions whose request, and whose response, is complete
Asked(txs) == {i \in DOMAIN txs : txs[i].request.complete}
Answered(txs) == {i \in DOMAIN txs : txs[i].response.complete}

TxOK(t) ==
    /\ t.state = "DONE" <=> t.response.complete
    /\ t.request.header_count <= HTTP_MAX_HEADERS
    /\ t.response.header_count <= HTTP_MAX_HEADERS

\* the open transaction t in a state of the connection; there is room for a
\* header in a message that is not complete
OpenOK(state, t) ==
    /\ ~t.response.complete /\ t.response.header_count < HTTP_MAX_HEADERS
    /\ ~t.request.complete => t.request.header_count < HTTP_MAX_HEADERS
    /\ state \in {"IDLE", "REQUEST_HEADERS"} => ~t.request.complete
    /\ state \in Responding => t.request.complete

ConnOK(c) ==
    /\ c \in Conns
    /\ c.current_tx <= Len(c.transactions)
    /\ \A i \in DOMAIN c.transactions :
          TxOK(c.transactions[i]) /\ (i # c.current_tx => c.transactions[i].state = "DONE")
    /\ c.current_tx # 0 => OpenOK(c.state, c.transactions[c.current_tx])
    /\ c.state \in Responding \cup {"REQUEST_HEADERS"} => c.current_tx # 0
    /\ c.requests_parsed = Cardinality(Asked(c.transactions))
    /\ c.responses_parsed = Cardinality(Answered(c.transactions))

\* transactions that are done stay what they are, and no other is done after
Keeps(c, d) ==
    /\ \A i \in DOMAIN c.transactions : i \in DOMAIN d.transactions
    /\ \A i \in DOMAIN c.transactions :
          c.transactions[i].state = "DONE" => d.transactions[i] = c.transactions[i]
    /\ \A i \in DOMAIN d.transactions :
          d.transactions[i].state = "DONE" =>
              i \in DOMAIN c.transactions /\ c.transactions[i].state = "DONE"

\* or the open one whose response was being read
Parses(c, d) ==
    /\ \A i \in DOMAIN c.transactions : i \in DOMAIN d.transactions
    /\ \A i \in DOMAIN c.transactions :
          c.transactions[i].state = "DONE" => d.transactions[i] = c.transactions[i]
    /\ \A i \in DOMAIN d.transactions :
          d.transactions[i].state = "DONE" =>
              \/ i \in DOMAIN c.transactions /\ c.transactions[i].state = "DONE"
              \/ i = c.current_tx /\ c.state \in Responding

LEMMA LeastNat ==
  ASSUME NEW S \in SUBSET Nat, S # {}
  PROVE  Min(S) \in S /\ \A y \in S : Min(S) <= y
<1>1. IsWellFoundedOn(OpToRel(<, Nat), Nat)
  BY NatLessThanWellFounded
<1>2. PICK x \in S : \A y \in S : ~(<<y, x>> \in OpToRel(<, Nat))
  BY <1>1, WFMin, Zenon
<1>3. \A y \in S : ~(y < x)
  BY <1>2 DEF OpToRel
<1>4. x \in Nat /\ \A y \in S : y \in Nat
  OBVIOUS
<1>5. \A y \in S : x <= y
  BY <1>3, <1>4
<1> QED BY <1>5 DEF Min

LEMMA MaxZero == ASSUME NEW n \in Nat PROVE H!Max({n, 0}) = n
BY DEF H!Max

(***************************************************************************)
(* The loop over the header lines, on a message that is not complete       *)
(***************************************************************************)
\* the message after the loop
Looped(msg, h, n, b) ==
    /\ h.ret \in {"ok", "error"}
    /\ h.msg = [msg EXCEPT !.header_count = n, !.complete = b]
    /\ n <= HTTP_MAX_HEADERS /\ (~b => n < HTTP_MAX_HEADERS)
    /\ h.ret = "error" => ~b

LEMMA HeaderLoopOK ==
  ASSUME NEW msg \in Requests \cup Responses, NEW lines \in Seq(Units), NEW i \in {1, 2}, i <= Len(lines) + 1, NEW mem,
         msg.header_count < HTTP_MAX_HEADERS, ~msg.complete
  PROVE  \E n \in Nat, b \in BOOLEAN : Looped(msg, H!HeaderLoop(msg, lines, i, mem), n, b)
<1> DEFINE count == msg.header_count
           Fills(k) == lines[k].colon /\ "header" \in mem
                        /\ count + k - i + 1 >= HTTP_MAX_HEADERS
           Ends(k) == ~lines[k].colon \/ "header" \notin mem \/ Fills(k)
           stops == {k \in i .. Len(lines) : Ends(k)}
           stop == H!Min(stops)
           AddTo(n) == [msg EXCEPT !.header_count = @ + n]
           h == H!HeaderLoop(msg, lines, i, mem)
<1>1. Len(lines) \in Nat /\ HTTP_MAX_HEADERS \in Nat \ {0} /\ count \in Nat
  BY BridgeAssumption DEF Requests, Responses
<1>2. h = IF stops = {}
          THEN [msg |-> AddTo(H!Max({Len(lines) - i + 1, 0})), ret |-> "ok"]
          ELSE IF Fills(stop)
               THEN [msg |-> [AddTo(stop - i + 1) EXCEPT !.complete = TRUE], ret |-> "ok"]
               ELSE [msg |-> [AddTo(stop - i) EXCEPT !.complete = lines[stop] = H!EmptyLine],
                     ret |-> IF lines[stop] = H!EmptyLine THEN "ok" ELSE "error"]
  BY DEF H!HeaderLoop
<1> HIDE DEF h
<1>3. CASE stops = {}
  <2> DEFINE n == Len(lines) - i + 1
  <2>1. n \in Nat /\ H!Max({n, 0}) = n
    BY <1>1, MaxZero
  <2>2. count + n < HTTP_MAX_HEADERS
    <3>1. CASE n = 0
      BY <1>1, <3>1
    <3>2. CASE n # 0
      <4>1. Len(lines) \in i .. Len(lines) /\ ~Ends(Len(lines))
        BY <1>1, <1>3, <2>1, <3>2
      <4>2. ~(count + Len(lines) - i + 1 >= HTTP_MAX_HEADERS)
        BY <4>1
      <4> QED BY <1>1, <4>2
    <3> QED BY <3>1, <3>2
  <2>3. h.msg = AddTo(n) /\ h.ret = "ok"
    BY <1>2, <1>3, <2>1
  <2>4. h.msg = [msg EXCEPT !.header_count = count + n, !.complete = FALSE]
    <3>1. msg.complete = FALSE
      BY DEF Requests, Responses
    <3>2. CASE msg \in Requests
      BY <2>3, <3>1, <3>2 DEF Requests
    <3>3. CASE msg \in Responses
      BY <2>3, <3>1, <3>3 DEF Responses
    <3> QED BY <3>2, <3>3
  <2>5. count + n \in Nat /\ Looped(msg, h, count + n, FALSE)
    <3> HIDE DEF n, count
    <3> QED BY <2>1, <2>2, <2>3, <2>4, <1>1 DEF Looped
  <2> QED BY <2>5 DEF h
<1>4. CASE stops # {}
  <2>1. stops \in SUBSET Nat
    BY <1>1
  <2>2. stop \in stops /\ \A k \in stops : stop <= k
    <3> HIDE DEF stops
    <3> QED BY <1>4, <2>1, LeastNat DEF Min, H!Min
  <2> HIDE DEF stop
  <2>3. stop \in i .. Len(lines) /\ Ends(stop) /\ stop \in Nat
    BY <1>1, <2>2
  <2>4. count + (stop - i) < HTTP_MAX_HEADERS
    <3>1. CASE stop = i
      BY <1>1, <2>3, <3>1
    <3>2. CASE stop # i
      <4>1. stop - 1 \in i .. Len(lines) /\ stop - 1 \notin stops
        <5> HIDE DEF stops
        <5> QED BY <1>1, <2>2, <2>3, <3>2
      <4>2. ~Ends(stop - 1)
        BY <4>1
      <4>3. ~(count + (stop - 1) - i + 1 >= HTTP_MAX_HEADERS)
        BY <4>2
      <4> QED BY <1>1, <2>3, <4>3
    <3> QED BY <3>1, <3>2
  <2>6. CASE Fills(stop)
    <3>1. h.msg = [AddTo(stop - i + 1) EXCEPT !.complete = TRUE] /\ h.ret = "ok"
      BY <1>2, <1>4, <2>6
    <3>2. /\ count + (stop - i + 1) \in Nat /\ count + (stop - i + 1) <= HTTP_MAX_HEADERS
          /\ h.msg = [msg EXCEPT !.header_count = count + (stop - i + 1), !.complete = TRUE]
      BY <1>1, <2>3, <2>4, <3>1
    <3>3. Looped(msg, h, count + (stop - i + 1), TRUE)
      <4> HIDE DEF count
      <4> QED BY <3>1, <3>2 DEF Looped
    <3> QED BY <3>2, <3>3 DEF h
  <2>7. CASE ~Fills(stop)
    <3> DEFINE b == lines[stop] = H!EmptyLine
    <3>1. h.msg = [AddTo(stop - i) EXCEPT !.complete = b] /\ h.ret = IF b THEN "ok" ELSE "error"
      BY <1>2, <1>4, <2>7
    <3>2. b \in BOOLEAN
      OBVIOUS
    <3> HIDE DEF b
    <3>3. /\ count + (stop - i) \in Nat /\ count + (stop - i) < HTTP_MAX_HEADERS
          /\ h.msg = [msg EXCEPT !.header_count = count + (stop - i), !.complete = b]
      BY <1>1, <2>3, <2>4, <3>1
    <3>4. Looped(msg, h, count + (stop - i), b)
      <4> HIDE DEF count
      <4> QED BY <1>1, <3>1, <3>2, <3>3 DEF Looped
    <3> QED BY <3>2, <3>3, <3>4 DEF h
  <2> QED BY <2>6, <2>7
<1> QED BY <1>3, <1>4

-----------------------------------------------------------------------------
(***************************************************************************)
(* The open transaction changes: what becomes of the counts                *)
(***************************************************************************)
LEMMA CountsFinite ==
  ASSUME NEW txs \in Seq(Txs)
  PROVE  /\ IsFiniteSet(DOMAIN txs) /\ Cardinality(DOMAIN txs) = Len(txs)
         /\ IsFiniteSet(Asked(txs)) /\ IsFiniteSet(Answered(txs))
<1>1. DOMAIN txs = 1 .. Len(txs) /\ Len(txs) \in Nat
  OBVIOUS
<1>2. IsFiniteSet(DOMAIN txs) /\ Cardinality(DOMAIN txs) = Len(txs)
  BY <1>1, FS_Interval
<1>3. Asked(txs) \subseteq DOMAIN txs /\ Answered(txs) \subseteq DOMAIN txs
  BY DEF Asked, Answered
<1> QED BY <1>2, <1>3, FS_Subset

\* all transactions but number k stay the same
LEMMA CountsReplaced ==
  ASSUME NEW txs \in Seq(Txs), NEW us \in Seq(Txs), Len(us) = Len(txs), NEW k \in DOMAIN txs,
         \A i \in DOMAIN txs : i # k => us[i] = txs[i]
  PROVE  /\ (us[k].request.complete <=> txs[k].request.complete) => Asked(us) = Asked(txs)
         /\ us[k].request.complete /\ ~txs[k].request.complete =>
                Cardinality(Asked(us)) = Cardinality(Asked(txs)) + 1
         /\ (us[k].response.complete <=> txs[k].response.complete) => Answered(us) = Answered(txs)
         /\ us[k].response.complete /\ ~txs[k].response.complete =>
                Cardinality(Answered(us)) = Cardinality(Answered(txs)) + 1
<1>1. DOMAIN us = DOMAIN txs
  OBVIOUS
<1>2. IsFiniteSet(Asked(txs)) /\ IsFiniteSet(Answered(txs))
  BY CountsFinite
<1>3. (us[k].request.complete <=> txs[k].request.complete) => Asked(us) = Asked(txs)
  BY <1>1 DEF Asked
<1>4. (us[k].response.complete <=> txs[k].response.complete) => Answered(us) = Answered(txs)
  BY <1>1 DEF Answered
<1>5. ASSUME us[k].request.complete, ~txs[k].request.complete
      PROVE  Cardinality(Asked(us)) = Cardinality(Asked(txs)) + 1
  <2>1. Asked(us) = Asked(txs) \cup {k} /\ k \notin Asked(txs)
    BY <1>1, <1>5 DEF Asked
  <2> QED BY <1>2, <2>1, FS_AddElement
<1>6. ASSUME us[k].response.complete, ~txs[k].response.complete
      PROVE  Cardinality(Answered(us)) = Cardinality(Answered(txs)) + 1
  <2>1. Answered(us) = Answered(txs) \cup {k} /\ k \notin Answered(txs)
    BY <1>1, <1>6 DEF Answered
  <2> QED BY <1>2, <2>1, FS_AddElement
<1> QED BY <1>3, <1>4, <1>5, <1>6

LEMMA NewConnOK == ConnOK(H!NewConn)
<1> DEFINE c == H!NewConn
<1>1. << >> \in Seq(Txs) /\ Len(<< >>) = 0 /\ DOMAIN << >> = {}
  OBVIOUS
<1>2. /\ c \in Conns /\ c.transactions = << >> /\ c.current_tx = 0 /\ c.state = "IDLE"
      /\ c.requests_parsed = 0 /\ c.responses_parsed = 0
  BY <1>1 DEF H!NewConn, Conns
<1> HIDE DEF c
<1>3. Asked(c.transactions) = {} /\ Answered(c.transactions) = {}
  BY <1>1, <1>2 DEF Asked, Answered
<1>4. Cardinality({}) = 0
  BY FS_EmptySet
<1>5. DOMAIN c.transactions = {} /\ Len(c.transactions) = 0
  BY <1>1, <1>2
<1>6. /\ c.requests_parsed = Cardinality(Asked(c.transactions))
      /\ c.responses_parsed = Cardinality(Answered(c.transactions))
  BY <1>2, <1>3, <1>4
<1>7. ConnOK(c)
  BY <1>2, <1>5, <1>6 DEF ConnOK, Responding
<1> QED BY <1>7 DEF c

LEMMA ErrorConn ==
  ASSUME NEW c, ConnOK(c)
  PROVE  LET d == H!Error(c)
         IN  ConnOK(d) /\ d.state = "ERROR" /\ d.transactions = c.transactions
             /\ d.current_tx = c.current_tx
<1> DEFINE d == H!Error(c)
<1>1. /\ d \in Conns /\ d.state = "ERROR" /\ d.transactions = c.transactions
      /\ d.current_tx = c.current_tx /\ d.requests_parsed = c.requests_parsed
      /\ d.responses_parsed = c.responses_parsed
  <2> DEFINE n == c.parse_errors + 1
  <2>1. c \in Conns /\ n \in Nat /\ d = [c EXCEPT !.parse_errors = n, !.state = "ERROR"]
    BY DEF ConnOK, Conns, H!Error
  <2> HIDE DEF n, d
  <2> QED BY <2>1 DEF Conns
<1> HIDE DEF d
<1>2. ConnOK(d)
  BY <1>1 DEF ConnOK, OpenOK, Responding
<1> QED BY <1>1, <1>2 DEF d

\* the open transaction of c replaced by t, the connection goes to a state
LEMMA ReplaceOpen ==
  ASSUME NEW c, ConnOK(c), c.current_tx # 0, NEW t \in Txs, TxOK(t),
         NEW d \in Conns, d.transactions = [c.transactions EXCEPT ![c.current_tx] = t],
         d.current_tx = c.current_tx, OpenOK(d.state, t),
         LET o == c.transactions[c.current_tx]
         IN  \/ /\ (t.request.complete <=> o.request.complete)
                /\ d.requests_parsed = c.requests_parsed
             \/ /\ t.request.complete /\ ~o.request.complete
                /\ d.requests_parsed = c.requests_parsed + 1,
         d.responses_parsed = c.responses_parsed
  PROVE  ConnOK(d) /\ Keeps(c, d)
<1> DEFINE k == c.current_tx
           txs == c.transactions
           us == d.transactions
           o == txs[k]
<1>1. /\ txs \in Seq(Txs) /\ k \in DOMAIN txs /\ c.requests_parsed \in Nat
      /\ ~o.response.complete /\ ~t.response.complete /\ o \in Txs
  BY DEF ConnOK, Conns, OpenOK
<1>2. (t.response.complete <=> o.response.complete)
  BY <1>1 DEF Txs, Responses
<1>3. us = [txs EXCEPT ![k] = t]
  OBVIOUS
<1> HIDE DEF k, txs, us, o
<1>4. /\ us \in Seq(Txs) /\ Len(us) = Len(txs) /\ DOMAIN us = DOMAIN txs /\ us[k] = t
      /\ \A i \in DOMAIN txs : i # k => us[i] = txs[i]
      /\ (t.request.complete <=> o.request.complete) => Asked(us) = Asked(txs)
      /\ t.request.complete /\ ~o.request.complete =>
             Cardinality(Asked(us)) = Cardinality(Asked(txs)) + 1
      /\ Answered(us) = Answered(txs)
  <2>1. us \in Seq(Txs) /\ Len(us) = Len(txs) /\ DOMAIN us = DOMAIN txs /\ us[k] = t
    BY <1>1, <1>3
  <2>2. \A i \in DOMAIN txs : i # k => us[i] = txs[i]
    BY <1>1, <1>3
  <2> QED BY <1>1, <1>2, <2>1, <2>2, CountsReplaced DEF o
<1>5. /\ \A i \in DOMAIN txs : TxOK(txs[i]) /\ (i # k => txs[i].state = "DONE")
      /\ d.current_tx = k /\ d.transactions = us /\ k <= Len(txs) /\ k # 0
      /\ c.requests_parsed = Cardinality(Asked(txs))
      /\ c.responses_parsed = Cardinality(Answered(txs))
  BY DEF ConnOK, k, txs, us
<1>6. d.requests_parsed = Cardinality(Asked(us)) /\ d.responses_parsed = Cardinality(Answered(us))
  BY <1>4, <1>5 DEF o, k, txs
<1>7. ConnOK(d)
  BY <1>4, <1>5, <1>6, ZenonT(60) DEF ConnOK
<1>8. t.state # "DONE" /\ o.state # "DONE"
  BY <1>1, <1>5 DEF TxOK, o
<1>9. Keeps(c, d)
  BY <1>1, <1>4, <1>5, <1>8 DEF Keeps, txs, us, o
<1> QED BY <1>7, <1>9

LEMMA KeepsTransitive ==
  ASSUME NEW c, NEW d, NEW e, Keeps(c, d), Keeps(d, e)
  PROVE  Keeps(c, e)
BY DEF Keeps

LEMMA OpenTransactionOK ==
  ASSUME NEW c, ConnOK(c), c.state = "IDLE"
  PROVE  LET d == H!OpenTransaction(c)
         IN  ConnOK(d) /\ Keeps(c, d) /\ d.state = "IDLE" /\ d.current_tx # 0
<1> DEFINE d == H!OpenTransaction(c)
           t == [request |-> H!NewRequest, response |-> H!NoResponse, state |-> "REQUEST_LINE"]
           txs == c.transactions
           us == Append(txs, t)
<1>1. CASE c.current_tx # 0
  BY <1>1 DEF H!OpenTransaction, Keeps
<1>2. CASE c.current_tx = 0
  <2>1. /\ t \in Txs /\ TxOK(t) /\ OpenOK("IDLE", t) /\ ~t.request.complete
        /\ ~t.response.complete /\ t.state # "DONE"
    BY BridgeAssumption DEF H!NewRequest, H!NoResponse, Txs, Requests, Responses, Uris, Statuses,
                            TxOK, OpenOK, Responding
  <2> HIDE DEF t
  <2>2. txs \in Seq(Txs) /\ c \in Conns
    BY DEF ConnOK, Conns
  <2>3. /\ us \in Seq(Txs) /\ Len(us) = Len(txs) + 1 /\ us[Len(txs) + 1] = t
        /\ \A i \in DOMAIN txs : i \in DOMAIN us /\ us[i] = txs[i]
        /\ \A i \in DOMAIN us : i \in DOMAIN txs \/ i = Len(txs) + 1
        /\ Len(txs) \in Nat /\ Len(txs) + 1 \in DOMAIN us /\ Len(txs) + 1 \notin DOMAIN txs
    BY <2>1, <2>2
  <2>4. d = [c EXCEPT !.transactions = us, !.current_tx = Len(txs) + 1]
    BY <1>2 DEF H!OpenTransaction, t
  <2> HIDE DEF d, us
  <2>5. /\ d \in Conns /\ d.transactions = us /\ d.current_tx = Len(txs) + 1 /\ d.state = "IDLE"
        /\ d.requests_parsed = c.requests_parsed /\ d.responses_parsed = c.responses_parsed
    <3> DEFINE n == Len(txs) + 1
    <3>1. n \in Nat /\ us \in Seq(Txs) /\ d = [c EXCEPT !.transactions = us, !.current_tx = n]
      BY <2>3, <2>4
    <3> HIDE DEF n, txs
    <3>2. /\ d \in Conns /\ d.transactions = us /\ d.current_tx = n /\ d.state = c.state
          /\ d.requests_parsed = c.requests_parsed /\ d.responses_parsed = c.responses_parsed
      BY <2>2, <3>1 DEF Conns
    <3> QED BY <3>2 DEF n
  <2>6. Asked(us) = Asked(txs) /\ Answered(us) = Answered(txs)
    BY <2>1, <2>3 DEF Asked, Answered
  <2> HIDE DEF txs
  <2>7. ConnOK(d)
    <3>1. \A i \in DOMAIN us : TxOK(us[i]) /\ (i # Len(txs) + 1 => us[i].state = "DONE")
      BY <1>2, <2>1, <2>3 DEF ConnOK, txs
    <3>2. d.requests_parsed = Cardinality(Asked(us)) /\ d.responses_parsed = Cardinality(Answered(us))
      BY <2>5, <2>6 DEF ConnOK, txs
    <3> QED BY <2>1, <2>3, <2>5, <3>1, <3>2 DEF ConnOK, Responding
  <2>8. Keeps(c, d)
    BY <2>1, <2>3, <2>5 DEF Keeps, txs
  <2> QED BY <2>3, <2>5, <2>7, <2>8 DEF d
<1> QED BY <1>1, <1>2

\* the open transaction
LEMMA OpenIs ==
  ASSUME NEW c, ConnOK(c), c.current_tx # 0
  PROVE  /\ c \in Conns /\ c.transactions \in Seq(Txs) /\ c.current_tx \in DOMAIN c.transactions
         /\ H!Current(c) = c.transactions[c.current_tx]
         /\ H!Current(c) \in Txs /\ TxOK(H!Current(c)) /\ OpenOK(c.state, H!Current(c))
         /\ H!Current(c).state # "DONE"
<1>1. /\ c \in Conns /\ c.transactions \in Seq(Txs) /\ c.current_tx \in DOMAIN c.transactions
  BY DEF ConnOK, Conns
<1>2. c.transactions[c.current_tx] \in Txs /\ TxOK(c.transactions[c.current_tx])
      /\ OpenOK(c.state, c.transactions[c.current_tx])
  BY <1>1 DEF ConnOK
<1> QED BY <1>1, <1>2 DEF H!Current, TxOK, OpenOK

\* parse_request_line
LEMMA ReadRequestLineOK ==
  ASSUME NEW c, ConnOK(c), c.state = "IDLE", c.current_tx # 0, NEW line \in Units, NEW mem
  PROVE  LET d == H!ReadRequestLine(c, line, mem)
         IN  ConnOK(d) /\ Keeps(c, d) /\ d.state = "REQUEST_HEADERS"
<1> DEFINE d == H!ReadRequestLine(c, line, mem)
           uri == IF "uri" \in mem THEN line.uri ELSE NoText
           k == c.current_tx
           o == c.transactions[k]
           t == [o EXCEPT !.state = "REQUEST_HEADERS", !.request.uri = uri]
<1>1. /\ c \in Conns /\ c.transactions \in Seq(Txs) /\ k \in DOMAIN c.transactions
      /\ o \in Txs /\ TxOK(o) /\ OpenOK(c.state, o) /\ o.state # "DONE"
  BY OpenIs
<1>2. uri \in Uris
  BY DEF Uris
<1> HIDE DEF uri, o
<1>3. /\ t \in Txs /\ t.request.complete = o.request.complete /\ t.response = o.response
      /\ t.request.header_count = o.request.header_count /\ t.state = "REQUEST_HEADERS"
  BY <1>1, <1>2 DEF Txs, Requests
<1> HIDE DEF t
<1>4. TxOK(t) /\ OpenOK("REQUEST_HEADERS", t)
  BY <1>1, <1>3 DEF TxOK, OpenOK, Responding
<1>5. /\ d \in Conns /\ d.state = "REQUEST_HEADERS" /\ d.current_tx = k
      /\ d.transactions = [c.transactions EXCEPT ![k] = t]
      /\ d.requests_parsed = c.requests_parsed /\ d.responses_parsed = c.responses_parsed
  <2> DEFINE us == [c.transactions EXCEPT ![k] = t]
  <2>1. d = [c EXCEPT !.state = "REQUEST_HEADERS", !.transactions = us]
    <3> DEFINE u1 == [o EXCEPT !.state = "REQUEST_HEADERS"]
               t1 == [c.transactions EXCEPT ![k] = u1]
               t2 == [t1 EXCEPT ![k] = [t1[k] EXCEPT !.request = [t1[k].request EXCEPT !.uri = uri]]]
    <3>1. d = [c EXCEPT !.state = "REQUEST_HEADERS", !.transactions = t2]
      <4> DEFINE c1 == [c EXCEPT !.state = "REQUEST_HEADERS"]
                 c2 == [c1 EXCEPT !.transactions[k].state = "REQUEST_HEADERS"]
      <4>1. d = [c2 EXCEPT !.transactions[k].request.uri = uri]
        BY DEF H!ReadRequestLine, uri
      <4>2. c1 \in Conns /\ c1.transactions = c.transactions
        BY <1>1 DEF Conns
      <4> HIDE DEF c1
      <4>3. c2 = [c1 EXCEPT !.transactions = t1]
        BY <4>2, <1>1 DEF Conns, o
      <4>3a. c2.transactions = t1 /\ DOMAIN c2 = DOMAIN c1 /\ \A x \in DOMAIN c1 : x # "transactions" => c2[x] = c1[x]
        BY <4>2, <4>3 DEF Conns
      <4> HIDE DEF c2, t1
      <4>4. d = [c2 EXCEPT !.transactions = t2]
        BY <4>1, <4>3a
      <4> QED BY <4>2, <4>3, <4>4 DEF Conns, c1
    <3>2. t1[k] = u1
      BY <1>1 DEF o
    <3>3. [u1 EXCEPT !.request = [u1.request EXCEPT !.uri = uri]] = t
      BY <1>1 DEF t, Txs, Requests
    <3>4. t2 = us
      BY <1>1, <3>2, <3>3, ZenonT(60)
    <3> QED BY <3>1, <3>4
  <2>2. us \in Seq(Txs)
    BY <1>1, <1>3
  <2> HIDE DEF us, d
  <2> QED BY <1>1, <2>1, <2>2 DEF us, Conns
<1> HIDE DEF d
<1>6. ConnOK(d) /\ Keeps(c, d)
  BY <1>3, <1>4, <1>5, ReplaceOpen DEF o
<1> QED BY <1>5, <1>6 DEF d

\* transaction k of a connection replaced
Put(c, k, t) == [c EXCEPT !.transactions[k] = t]

LEMMA PutTx ==
  ASSUME NEW c \in Conns, NEW k \in DOMAIN c.transactions, NEW t \in Txs,
         NEW d, d = Put(c, k, t)
  PROVE  /\ d \in Conns /\ d.transactions = [c.transactions EXCEPT ![k] = t]
         /\ d.state = c.state /\ d.current_tx = c.current_tx
         /\ d.requests_parsed = c.requests_parsed /\ d.responses_parsed = c.responses_parsed
<1> DEFINE us == [c.transactions EXCEPT ![k] = t]
<1>1. us \in Seq(Txs)
  BY DEF Conns
<1>2. d = [c EXCEPT !.transactions = us]
  BY DEF Conns, Put
<1> HIDE DEF us
<1>3. /\ d \in Conns /\ d.transactions = us
      /\ d.state = c.state /\ d.current_tx = c.current_tx
      /\ d.requests_parsed = c.requests_parsed /\ d.responses_parsed = c.responses_parsed
  BY <1>1, <1>2 DEF Conns
<1> QED BY <1>3 DEF us

\* parse_request_headers
LEMMA RequestHeadersOK ==
  ASSUME NEW c, ConnOK(c), c.state = "REQUEST_HEADERS", NEW lines \in Seq(Units),
         NEW i \in {1, 2}, i <= Len(lines) + 1, NEW mem
  PROVE  LET d == H!RequestHeaders(c, lines, i, mem)
         IN  ConnOK(d) /\ Keeps(c, d)
<1> DEFINE d == H!RequestHeaders(c, lines, i, mem)
           k == c.current_tx
           o == c.transactions[k]
           h == H!HeaderLoop(o.request, lines, i, mem)
           r == h.msg
           t == [o EXCEPT !.request = r]
           e == [c EXCEPT !.transactions[k].request = r]
<1>1. /\ k # 0 /\ c \in Conns /\ c.transactions \in Seq(Txs) /\ k \in DOMAIN c.transactions
      /\ H!Current(c) = o /\ o \in Txs /\ TxOK(o) /\ OpenOK(c.state, o) /\ o.state # "DONE"
  <2>1. k # 0
    BY DEF ConnOK
  <2> QED BY <2>1, OpenIs
<1>2. d = IF h.ret = "error" THEN H!Error(e)
          ELSE IF r.complete
               THEN [e EXCEPT !.requests_parsed = @ + 1, !.state = "RESPONSE_LINE"]
               ELSE e
  BY <1>1 DEF H!RequestHeaders
<1>3. o.request \in Requests /\ ~o.request.complete /\ o.request.header_count < HTTP_MAX_HEADERS
  BY <1>1 DEF Txs, OpenOK
<1> HIDE DEF d, o
<1>4. PICK n \in Nat, b \in BOOLEAN : Looped(o.request, h, n, b)
  BY <1>3, HeaderLoopOK
<1> HIDE DEF h
<1>5. /\ r \in Requests /\ r.complete = b /\ r.header_count = n
      /\ n <= HTTP_MAX_HEADERS /\ (~b => n < HTTP_MAX_HEADERS) /\ (h.ret = "error" => ~b)
  BY <1>3, <1>4 DEF Looped, Requests
<1>6. e = Put(c, k, t)
  BY <1>1 DEF Put, o, Conns
<1> HIDE DEF r
<1>7. t \in Txs /\ t.request = r /\ t.response = o.response /\ t.state = o.state
  BY <1>1, <1>5 DEF Txs
<1>8. TxOK(t)
  BY <1>1, <1>5, <1>7 DEF TxOK
<1> HIDE DEF t
<1> HIDE DEF e
<1>9. /\ e \in Conns /\ e.transactions = [c.transactions EXCEPT ![k] = t]
      /\ e.state = c.state /\ e.current_tx = c.current_tx
      /\ e.requests_parsed = c.requests_parsed /\ e.responses_parsed = c.responses_parsed
  BY <1>1, <1>6, <1>7, PutTx
<1>10. CASE ~b
  <2>1. OpenOK(e.state, t)
    BY <1>1, <1>5, <1>7, <1>9, <1>10 DEF OpenOK, Responding
  <2>2. t.request.complete <=> o.request.complete
    BY <1>3, <1>5, <1>7, <1>10
  <2>3. ConnOK(e) /\ Keeps(c, e)
    BY <1>1, <1>7, <1>8, <1>9, <2>1, <2>2, ReplaceOpen DEF o
  <2>4. CASE h.ret = "error"
    <3>1. d = H!Error(e)
      BY <1>2, <2>4
    <3>2. ConnOK(d) /\ d.transactions = e.transactions
      BY <2>3, <3>1, ErrorConn
    <3> QED BY <2>3, <3>2 DEF Keeps, d
  <2>5. CASE h.ret # "error"
    <3>1. d = e
      BY <1>2, <1>5, <1>10, <2>5
    <3> QED BY <2>3, <3>1 DEF d
  <2> QED BY <2>4, <2>5
<1>11. CASE b
  <2> DEFINE m == c.requests_parsed + 1
  <2>1. m \in Nat /\ d = [e EXCEPT !.requests_parsed = m, !.state = "RESPONSE_LINE"]
    BY <1>1, <1>2, <1>5, <1>9, <1>11 DEF Conns
  <2> HIDE DEF m
  <2>2. /\ d \in Conns /\ d.transactions = e.transactions /\ d.state = "RESPONSE_LINE"
        /\ d.current_tx = e.current_tx /\ d.requests_parsed = m
        /\ d.responses_parsed = e.responses_parsed
    BY <1>9, <2>1 DEF Conns
  <2>3. OpenOK(d.state, t) /\ t.request.complete /\ ~o.request.complete
    BY <1>1, <1>3, <1>5, <1>7, <1>11, <2>2 DEF OpenOK
  <2>4. ConnOK(d) /\ Keeps(c, d)
    BY <1>1, <1>7, <1>8, <1>9, <2>2, <2>3, ReplaceOpen DEF o, m
  <2> QED BY <2>4 DEF d
<1> QED BY <1>10, <1>11

(***************************************************************************)
(* The response half                                                       *)
(***************************************************************************)
\* the response of the open transaction is complete: it is closed
LEMMA CloseOpen ==
  ASSUME NEW c, ConnOK(c), c.current_tx # 0, c.state \in Responding, NEW t \in Txs, TxOK(t),
         NEW d \in Conns, d.transactions = [c.transactions EXCEPT ![c.current_tx] = t],
         d.current_tx = 0, d.state = "IDLE", t.response.complete,
         t.request.complete <=> c.transactions[c.current_tx].request.complete,
         d.requests_parsed = c.requests_parsed,
         d.responses_parsed = c.responses_parsed + 1
  PROVE  ConnOK(d) /\ Parses(c, d)
<1> DEFINE k == c.current_tx
           txs == c.transactions
           us == d.transactions
           o == txs[k]
<1>1. /\ txs \in Seq(Txs) /\ k \in DOMAIN txs /\ c.responses_parsed \in Nat
      /\ ~o.response.complete /\ o \in Txs
  BY DEF ConnOK, Conns, OpenOK
<1>2. us = [txs EXCEPT ![k] = t]
  OBVIOUS
<1> HIDE DEF k, txs, us, o
<1>3. us \in Seq(Txs) /\ Len(us) = Len(txs) /\ DOMAIN us = DOMAIN txs /\ us[k] = t
  BY <1>1, <1>2
<1>4. \A i \in DOMAIN txs : i # k => us[i] = txs[i]
  BY <1>1, <1>2
<1>5. Asked(us) = Asked(txs) /\ Cardinality(Answered(us)) = Cardinality(Answered(txs)) + 1
  BY <1>1, <1>3, <1>4, CountsReplaced DEF o, k, txs
<1>6. /\ \A i \in DOMAIN txs : TxOK(txs[i]) /\ (i # k => txs[i].state = "DONE")
      /\ c.requests_parsed = Cardinality(Asked(txs))
      /\ c.responses_parsed = Cardinality(Answered(txs))
      /\ d.transactions = us /\ Len(us) \in Nat
  BY <1>3 DEF ConnOK, k, txs, us
<1>7. t.state = "DONE" /\ o.state # "DONE"
  BY <1>1, <1>6 DEF TxOK, o
<1>8. d.requests_parsed = Cardinality(Asked(us)) /\ d.responses_parsed = Cardinality(Answered(us))
  BY <1>5, <1>6
<1>9. \A i \in DOMAIN us : TxOK(us[i]) /\ us[i].state = "DONE"
  BY <1>3, <1>4, <1>6, <1>7
<1>10. ConnOK(d)
  BY <1>6, <1>8, <1>9 DEF ConnOK, Responding
<1>11. Parses(c, d)
  BY <1>1, <1>3, <1>4, <1>6, <1>7 DEF Parses, txs, us, o, k
<1> QED BY <1>10, <1>11

\* parse_response_headers
LEMMA ResponseHeadersOK ==
  ASSUME NEW c, ConnOK(c), c.state = "RESPONSE_HEADERS", NEW lines \in Seq(Units),
         NEW i \in {1, 2}, i <= Len(lines) + 1, NEW mem
  PROVE  LET d == H!ResponseHeaders(c, lines, i, mem)
         IN  ConnOK(d) /\ Parses(c, d)
<1> DEFINE d == H!ResponseHeaders(c, lines, i, mem)
           k == c.current_tx
           o == c.transactions[k]
           h == H!HeaderLoop(o.response, lines, i, mem)
           r == h.msg
           t == [o EXCEPT !.response = r]
           e == [c EXCEPT !.transactions[k].response = r]
           f == [e EXCEPT !.responses_parsed = @ + 1, !.state = "IDLE",
                          !.transactions[k].state = "DONE", !.current_tx = 0]
<1>1. /\ k # 0 /\ c \in Conns /\ c.transactions \in Seq(Txs) /\ k \in DOMAIN c.transactions
      /\ H!Current(c) = o /\ o \in Txs /\ TxOK(o) /\ OpenOK(c.state, o) /\ o.state # "DONE"
  <2>1. k # 0
    BY DEF ConnOK, Responding
  <2> QED BY <2>1, OpenIs
<1>2. d = IF h.ret = "error" THEN H!Error(e) ELSE IF r.complete THEN f ELSE e
  BY <1>1 DEF H!ResponseHeaders
<1>3. o.response \in Responses /\ ~o.response.complete /\ o.response.header_count < HTTP_MAX_HEADERS
  BY <1>1 DEF Txs, OpenOK
<1> HIDE DEF d, o
<1>4. PICK n \in Nat, b \in BOOLEAN : Looped(o.response, h, n, b)
  BY <1>3, HeaderLoopOK
<1> HIDE DEF h
<1>5. /\ r \in Responses /\ r.complete = b /\ r.header_count = n
      /\ n <= HTTP_MAX_HEADERS /\ (~b => n < HTTP_MAX_HEADERS) /\ (h.ret = "error" => ~b)
  BY <1>3, <1>4 DEF Looped, Responses
<1>6. e = Put(c, k, t)
  BY <1>1 DEF Put, o, Conns
<1> HIDE DEF r
<1>7. t \in Txs /\ t.response = r /\ t.request = o.request /\ t.state = o.state
  BY <1>1, <1>5 DEF Txs
<1> HIDE DEF t, e, f
<1>8. /\ e \in Conns /\ e.transactions = [c.transactions EXCEPT ![k] = t]
      /\ e.state = c.state /\ e.current_tx = c.current_tx
      /\ e.requests_parsed = c.requests_parsed /\ e.responses_parsed = c.responses_parsed
  BY <1>1, <1>6, <1>7, PutTx
<1>9. CASE ~b
  <2>1. TxOK(t)
    BY <1>1, <1>3, <1>5, <1>7, <1>9 DEF TxOK
  <2>2. OpenOK(e.state, t)
    BY <1>1, <1>5, <1>7, <1>8, <1>9 DEF OpenOK
  <2>3. t.request.complete <=> o.request.complete
    BY <1>7
  <2>4. ConnOK(e) /\ Keeps(c, e)
    BY <1>1, <1>7, <1>8, <2>1, <2>2, <2>3, ReplaceOpen DEF o
  <2>5. CASE h.ret = "error"
    <3>1. d = H!Error(e)
      BY <1>2, <2>5
    <3>2. ConnOK(d) /\ d.transactions = e.transactions
      BY <2>4, <3>1, ErrorConn
    <3> QED BY <2>4, <3>2 DEF Keeps, Parses, d
  <2>6. CASE h.ret # "error"
    <3>1. d = e
      BY <1>2, <1>5, <1>9, <2>6
    <3> QED BY <2>4, <3>1 DEF Keeps, Parses, d
  <2> QED BY <2>5, <2>6
<1>10. CASE b
  <2> DEFINE m == c.responses_parsed + 1
             u == [t EXCEPT !.state = "DONE"]
             us == [c.transactions EXCEPT ![k] = u]
  <2>1. /\ u \in Txs /\ u.response = r /\ u.request = o.request /\ u.state = "DONE"
    BY <1>7 DEF Txs
  <2>2. m \in Nat /\ us \in Seq(Txs)
    BY <1>1, <2>1 DEF Conns
  <2>3. d = [e EXCEPT !.responses_parsed = m, !.state = "IDLE", !.transactions = us, !.current_tx = 0]
    <3>1. d = f /\ e.responses_parsed + 1 = m
      BY <1>2, <1>5, <1>8, <1>10
    <3> DEFINE g == [e EXCEPT !.responses_parsed = m, !.state = "IDLE"]
    <3>2. g \in Conns /\ g.transactions = e.transactions
      BY <1>8, <2>2 DEF Conns
    <3>3. f = [[g EXCEPT !.transactions[k].state = "DONE"] EXCEPT !.current_tx = 0]
      BY <3>1 DEF f
    <3> HIDE DEF g
    <3>4. [g EXCEPT !.transactions[k].state = "DONE"] = [g EXCEPT !.transactions = us]
      <4>1. g.transactions[k] = t
        BY <1>1, <1>8, <3>2
      <4>2. [g.transactions EXCEPT ![k] = u] = us
        BY <1>1, <1>8, <3>2
      <4> QED BY <3>2, <4>1, <4>2
    <3> QED BY <3>1, <3>3, <3>4 DEF g
  <2> HIDE DEF m, us
  <2>4. /\ d \in Conns /\ d.transactions = us /\ d.state = "IDLE" /\ d.current_tx = 0
        /\ d.requests_parsed = c.requests_parsed /\ d.responses_parsed = m
    BY <1>8, <2>2, <2>3 DEF Conns
  <2> HIDE DEF u
  <2>5. TxOK(u) /\ u.response.complete /\ (u.request.complete <=> o.request.complete)
    BY <1>1, <1>5, <1>10, <2>1 DEF TxOK
  <2>6. ConnOK(d) /\ Parses(c, d)
    BY <1>1, <2>1, <2>4, <2>5, CloseOpen DEF Responding, o, m, us
  <2> QED BY <2>6 DEF d
<1> QED BY <1>9, <1>10

\* http_response_t is allocated
LEMMA NewResponseOK ==
  ASSUME NEW c, ConnOK(c), c.state = "RESPONSE_LINE",
         NEW k, k = c.current_tx
  PROVE  LET d == [c EXCEPT !.transactions[k].response = H!NewResponse]
         IN  ConnOK(d) /\ Keeps(c, d) /\ d.state = c.state /\ d.current_tx = c.current_tx
<1> DEFINE d == [c EXCEPT !.transactions[k].response = H!NewResponse]
           o == c.transactions[k]
           r == H!NewResponse
           t == [o EXCEPT !.response = r]
<1>1. /\ k # 0 /\ c \in Conns /\ c.transactions \in Seq(Txs) /\ k \in DOMAIN c.transactions
      /\ o \in Txs /\ TxOK(o) /\ OpenOK(c.state, o) /\ o.state # "DONE"
  <2>1. k # 0
    BY DEF ConnOK, Responding
  <2> QED BY <2>1, OpenIs
<1>2. r \in Responses /\ r.complete = FALSE /\ r.header_count = 0
  BY DEF H!NewResponse, H!NoResponse, Responses, Statuses
<1>3. d = Put(c, k, t)
  BY <1>1 DEF Put, Conns
<1> HIDE DEF r, o, d
<1>4. t \in Txs /\ t.response = r /\ t.request = o.request /\ t.state = o.state
  BY <1>1, <1>2 DEF Txs
<1> HIDE DEF t
<1>5. /\ d \in Conns /\ d.transactions = [c.transactions EXCEPT ![k] = t]
      /\ d.state = c.state /\ d.current_tx = c.current_tx
      /\ d.requests_parsed = c.requests_parsed /\ d.responses_parsed = c.responses_parsed
  BY <1>1, <1>3, <1>4, PutTx
<1>6. TxOK(t) /\ OpenOK(d.state, t) /\ (t.request.complete <=> o.request.complete)
  BY <1>1, <1>2, <1>4, <1>5, BridgeAssumption DEF TxOK, OpenOK
<1>7. ConnOK(d) /\ Keeps(c, d)
  BY <1>1, <1>4, <1>5, <1>6, ReplaceOpen DEF o
<1> QED BY <1>5, <1>7 DEF d

\* parse_response_line
LEMMA ReadStatusLineOK ==
  ASSUME NEW c, ConnOK(c), c.state = "RESPONSE_LINE", NEW line \in Units
  PROVE  LET d == H!ReadStatusLine(c, line)
         IN  /\ ConnOK(d) /\ Keeps(c, d)
             /\ d.state = "RESPONSE_HEADERS" /\ d.current_tx = c.current_tx
<1> DEFINE d == H!ReadStatusLine(c, line)
           k == c.current_tx
           o == c.transactions[k]
           r == [o.response EXCEPT !.status = line.status]
           o1 == [o EXCEPT !.state = "RESPONSE_HEADERS"]
           t == [o1 EXCEPT !.response = r]
           c1 == [c EXCEPT !.state = "RESPONSE_HEADERS"]
           c2 == [c1 EXCEPT !.transactions[k].state = "RESPONSE_HEADERS"]
<1>1. /\ k # 0 /\ c \in Conns /\ c.transactions \in Seq(Txs) /\ k \in DOMAIN c.transactions
      /\ o \in Txs /\ TxOK(o) /\ OpenOK(c.state, o) /\ o.state # "DONE"
  <2>1. k # 0
    BY DEF ConnOK, Responding
  <2> QED BY <2>1, OpenIs
<1>2. line.status \in Statuses
  BY DEF Statuses
<1>3. d = [c2 EXCEPT !.transactions[k].response.status = line.status]
  BY DEF H!ReadStatusLine
<1>4. /\ c1 \in Conns /\ c1.transactions = c.transactions /\ c1.state = "RESPONSE_HEADERS"
      /\ c1.current_tx = k /\ c1.requests_parsed = c.requests_parsed
      /\ c1.responses_parsed = c.responses_parsed
  BY <1>1 DEF Conns
<1> HIDE DEF c1, d
<1>5. c2 = Put(c1, k, o1)
  BY <1>1, <1>4 DEF Put, Conns
<1> HIDE DEF c2, o
<1>6. o1 \in Txs /\ o1.response = o.response /\ o1.request = o.request /\ o1.state = "RESPONSE_HEADERS"
  BY <1>1 DEF Txs
<1> HIDE DEF o1
<1>7. /\ c2 \in Conns /\ c2.transactions = [c.transactions EXCEPT ![k] = o1]
      /\ c2.state = "RESPONSE_HEADERS" /\ c2.current_tx = k
      /\ c2.requests_parsed = c.requests_parsed /\ c2.responses_parsed = c.responses_parsed
  <2> HIDE DEF k
  <2> QED BY <1>1, <1>4, <1>5, <1>6, PutTx
<1>8. /\ r \in Responses /\ r.complete = o.response.complete
      /\ r.header_count = o.response.header_count
  BY <1>1, <1>2 DEF Txs, Responses
<1>9. c2.transactions[k] = o1 /\ k \in DOMAIN c2.transactions
  BY <1>1, <1>7
<1>10. d = Put(c2, k, t)
  BY <1>3, <1>6, <1>7, <1>9 DEF Put, Conns
<1> HIDE DEF r
<1>11. t \in Txs /\ t.response = r /\ t.request = o.request /\ t.state = "RESPONSE_HEADERS"
  BY <1>6, <1>8 DEF Txs
<1> HIDE DEF t
<1>12. /\ d \in Conns /\ d.transactions = [c2.transactions EXCEPT ![k] = t]
       /\ d.state = "RESPONSE_HEADERS" /\ d.current_tx = k
       /\ d.requests_parsed = c.requests_parsed /\ d.responses_parsed = c.responses_parsed
  <2>1. c2 \in Conns
    BY <1>7
  <2> HIDE DEF k
  <2>2. /\ d \in Conns /\ d.transactions = [c2.transactions EXCEPT ![k] = t]
        /\ d.state = c2.state /\ d.current_tx = c2.current_tx
        /\ d.requests_parsed = c2.requests_parsed /\ d.responses_parsed = c2.responses_parsed
    BY <2>1, <1>9, <1>10, <1>11, PutTx
  <2> QED BY <1>7, <2>2
<1>13. [c2.transactions EXCEPT ![k] = t] = [c.transactions EXCEPT ![k] = t]
  BY <1>1, <1>7
<1>14. TxOK(t) /\ OpenOK(d.state, t) /\ (t.request.complete <=> o.request.complete)
  BY <1>1, <1>8, <1>11, <1>12 DEF TxOK, OpenOK, Responding
<1>15. ConnOK(d) /\ Keeps(c, d)
  BY <1>1, <1>11, <1>12, <1>13, <1>14, ReplaceOpen DEF o
<1> QED BY <1>12, <1>15 DEF d

LEMMA ParsesAfterKeeps ==
  ASSUME NEW c, NEW d, NEW e, Keeps(c, d), Parses(d, e),
         c.state \in Responding, d.current_tx = c.current_tx
  PROVE  Parses(c, e)
BY DEF Keeps, Parses

(***************************************************************************)
(* http_parser_parse                                                       *)
(***************************************************************************)
LEMMA ParseRequestOK ==
  ASSUME NEW c, ConnOK(c), NEW buf \in Buffers, NEW mem
  PROVE  LET d == H!ParseRequest(c, buf, mem)
         IN  ConnOK(d) /\ Keeps(c, d)
<1> DEFINE d == H!ParseRequest(c, buf, mem)
<1>1. Keeps(c, c)
  BY DEF Keeps
<1>2. buf.units \in Seq(Units)
  BY DEF Buffers
<1>3. CASE c.state = "REQUEST_HEADERS"
  <2>1. d = H!RequestHeaders(c, buf.units, 1, mem)
    BY <1>3 DEF H!ParseRequest
  <2>2. 1 <= Len(buf.units) + 1
    BY <1>2
  <2>3. ConnOK(H!RequestHeaders(c, buf.units, 1, mem)) /\ Keeps(c, H!RequestHeaders(c, buf.units, 1, mem))
    BY <1>2, <1>3, <2>2, RequestHeadersOK
  <2> QED BY <2>1, <2>3
<1>4. CASE c.state = "IDLE"
  <2> DEFINE e == H!OpenTransaction(c)
             g == H!ReadRequestLine(e, Head(buf.units), mem)
             h == H!RequestHeaders(g, buf.units, 2, mem)
  <2>1. CASE c.current_tx = 0 /\ ~({"tx", "request"} \subseteq mem)
    <3>1. d = c
      BY <1>4, <2>1 DEF H!ParseRequest
    <3> QED BY <1>1, <3>1
  <2>2. CASE ~(c.current_tx = 0 /\ ~({"tx", "request"} \subseteq mem))
    <3>1. d = IF buf.units = << >> THEN e
              ELSE IF Head(buf.units).uri = NoText THEN H!Error(e) ELSE h
      BY <1>4, <2>2 DEF H!ParseRequest
    <3>2. ConnOK(e) /\ Keeps(c, e) /\ e.state = "IDLE" /\ e.current_tx # 0
      BY <1>4, OpenTransactionOK
    <3> HIDE DEF d, e, h, g
    <3>3. CASE d = e
      BY <3>2, <3>3 DEF d
    <3>4. CASE d = H!Error(e)
      <4>1. ConnOK(d) /\ d.transactions = e.transactions
        BY <3>2, <3>4, ErrorConn
      <4> QED BY <3>2, <4>1 DEF Keeps, d
    <3>5. CASE buf.units # << >> /\ d = h
      <4>1. Head(buf.units) \in Units /\ 2 <= Len(buf.units) + 1
        BY <1>2, <3>5
      <4>2. ConnOK(g) /\ Keeps(e, g) /\ g.state = "REQUEST_HEADERS"
        BY <3>2, <4>1, ReadRequestLineOK DEF g
      <4>3. ConnOK(h) /\ Keeps(g, h)
        BY <1>2, <4>1, <4>2, RequestHeadersOK DEF h
      <4>4. Keeps(c, h)
        BY <3>2, <4>2, <4>3, KeepsTransitive
      <4> QED BY <3>5, <4>3, <4>4 DEF d
    <3> QED BY <3>1, <3>3, <3>4, <3>5
  <2> QED BY <2>1, <2>2
<1>5. CASE c.state \notin {"IDLE", "REQUEST_HEADERS"}
  <2>1. d = c
    BY <1>5 DEF H!ParseRequest
  <2> QED BY <1>1, <2>1
<1> QED BY <1>3, <1>4, <1>5

LEMMA ParseResponseOK ==
  ASSUME NEW c, ConnOK(c), NEW buf \in Buffers, NEW mem
  PROVE  LET d == H!ParseResponse(c, buf, mem)
         IN  ConnOK(d) /\ Parses(c, d)
<1> DEFINE d == H!ParseResponse(c, buf, mem)
<1>1. Keeps(c, c) /\ Parses(c, c)
  BY DEF Keeps, Parses
<1>2. buf.units \in Seq(Units)
  BY DEF Buffers
<1>3. CASE c.state = "RESPONSE_HEADERS"
  <2> DEFINE e == H!ResponseHeaders(c, buf.units, 1, mem)
  <2>1. d = e
    BY <1>3 DEF H!ParseResponse
  <2>2. 1 <= Len(buf.units) + 1
    BY <1>2
  <2>3. ConnOK(e) /\ Parses(c, e)
    BY <1>2, <1>3, <2>2, ResponseHeadersOK
  <2> QED BY <2>1, <2>3
<1>4. CASE c.state = "RESPONSE_LINE"
  <2> DEFINE e == IF H!Current(c).response.null
                  THEN [c EXCEPT !.transactions[c.current_tx].response = H!NewResponse]
                  ELSE c
             g == H!ReadStatusLine(e, Head(buf.units))
             h == H!ResponseHeaders(g, buf.units, 2, mem)
  <2>1. CASE c.current_tx = 0 \/ (H!Current(c).response.null /\ "response" \notin mem)
    <3>1. d = c
      BY <1>4, <2>1 DEF H!ParseResponse
    <3> QED BY <1>1, <3>1
  <2>2. CASE ~(c.current_tx = 0 \/ (H!Current(c).response.null /\ "response" \notin mem))
    <3>1. d = IF buf.units = << >> THEN e
              ELSE IF Head(buf.units).status = 0 THEN H!Error(e) ELSE h
      BY <1>4, <2>2 DEF H!ParseResponse
    <3> HIDE DEF d, h, g
    <3>2. ConnOK(e) /\ Keeps(c, e) /\ e.state = "RESPONSE_LINE" /\ e.current_tx = c.current_tx
      <4>1. CASE e = c
        BY <1>1, <1>4, <4>1
      <4>2. CASE e = [c EXCEPT !.transactions[c.current_tx].response = H!NewResponse]
        <5> HIDE DEF e
        <5> QED BY <1>4, <4>2, NewResponseOK
      <4> QED BY <4>1, <4>2
    <3> HIDE DEF e
    <3>3. CASE d = e
      BY <3>2, <3>3 DEF d, Keeps, Parses
    <3>4. CASE d = H!Error(e)
      <4>1. ConnOK(d) /\ d.transactions = e.transactions
        BY <3>2, <3>4, ErrorConn
      <4> QED BY <3>2, <4>1 DEF Keeps, Parses, d
    <3>5. CASE buf.units # << >> /\ d = h
      <4>1. Head(buf.units) \in Units /\ 2 <= Len(buf.units) + 1
        BY <1>2, <3>5
      <4>2. ConnOK(g) /\ Keeps(e, g) /\ g.state = "RESPONSE_HEADERS" /\ g.current_tx = e.current_tx
        BY <3>2, <4>1, ReadStatusLineOK DEF g
      <4>3. ConnOK(h) /\ Parses(g, h)
        BY <1>2, <4>1, <4>2, ResponseHeadersOK DEF h
      <4>4. Keeps(c, g)
        BY <3>2, <4>2, KeepsTransitive
      <4>5. Parses(c, h)
        BY <1>4, <3>2, <4>2, <4>3, <4>4, ParsesAfterKeeps DEF Responding
      <4> QED BY <3>5, <4>3, <4>5 DEF d
    <3> QED BY <3>1, <3>3, <3>4, <3>5
  <2> QED BY <2>1, <2>2
<1>5. CASE c.state \notin {"RESPONSE_LINE", "RESPONSE_HEADERS"}
  <2>1. d = c
    BY <1>5 DEF H!ParseResponse
  <2> QED BY <1>1, <2>1
<1> QED BY <1>3, <1>4, <1>5

\* http_parser_parse leaves a sound connection sound
LEMMA HttpParseOK ==
  ASSUME NEW c, ConnOK(c), NEW buf \in Buffers, NEW dir, NEW mem
  PROVE  LET d == H!HttpParse(c, buf, dir, mem)
         IN  ConnOK(d) /\ Parses(c, d)
<1>1. Parses(c, c)
  BY DEF Parses
<1>2. ConnOK(H!ParseRequest(c, buf, mem)) /\ Parses(c, H!ParseRequest(c, buf, mem))
  BY ParseRequestOK DEF Keeps, Parses
<1>3. ConnOK(H!ParseResponse(c, buf, mem)) /\ Parses(c, H!ParseResponse(c, buf, mem))
  BY ParseResponseOK
<1> QED BY <1>1, <1>2, <1>3 DEF H!HttpParse

-----------------------------------------------------------------------------
(***************************************************************************)
(* The packet bridge                                                       *)
(***************************************************************************)
\* both directions of a flow are received by one lcore, as with a symmetric
\* hash, or a single forwarding lcore
Affine == \A f \in Flows : LcoreOf(f, "ts") = LcoreOf(f, "tc")

StreamsOK ==
    /\ stream \in Traffic
    /\ sent \in [Flows -> [Dirs -> Nat]]
    /\ buffer \in [Flows -> [Dirs -> Buffers]]

Packets == [at : {"detect", "inspect"}, flow : Flows, dir : Dirs, proto : D!Protocols]

\* the packet of an lcore is one it receives, and the protocol of its flow is
\* still unknown when the detection started
WorkOK ==
    /\ DOMAIN work = Lcores
    /\ \A l \in Lcores : work[l] # Idle =>
          LET w == work[l]
          IN  /\ w \in Packets /\ LcoreOf(w.flow, w.dir) = l
              /\ w.at = "detect" => /\ alproto[w.flow] = "UNKNOWN"
                                    /\ attempts[w.flow][w.dir] < FLOW_ALPROTO_MAX_ATTEMPTS

\* the transactions of flow f that are done, and the one whose response is
\* read, were inspected, or there was no rule engine
Watched(f, c, inspected) ==
    /\ \A i \in DOMAIN c.transactions :
          c.transactions[i].state = "DONE" => <<f, i>> \in inspected
    /\ c.state \in Responding => <<f, c.current_tx>> \in inspected

ParserOK(f, p, proto, inspected) ==
    p # NoParser =>
        /\ proto \in {"HTTP", "TLS"} /\ p = [kind |-> proto, conn |-> p.conn]
        /\ proto = "HTTP" => ConnOK(p.conn) /\ Watched(f, p.conn, inspected)

FlowsOK ==
    /\ alproto \in [Flows -> D!Protocols]
    /\ attempts \in [Flows -> [Dirs -> 0 .. FLOW_ALPROTO_MAX_ATTEMPTS]]
    /\ DOMAIN app_parser = Flows
    /\ \A f \in Flows : ParserOK(f, app_parser[f], alproto[f], seen \cup unwatched)

BridgeInv == StreamsOK /\ WorkOK /\ FlowsOK

LEMMA GetProtoType ==
  ASSUME NEW ports, NEW p, NEW dir
  PROVE  D!GetProto(ports, p, dir) \in D!Protocols
<1> DEFINE q == [p EXCEPT !.len = IF @ > max_inspect_depth THEN max_inspect_depth ELSE @]
           probed == D!TryProber(ports, q, dir)
<1>1. D!TryPattern(q, dir) \in D!Protocols
  <2> DEFINE found == {i \in 1 .. Len(D!HttpPatterns) :
                        D!HttpPatterns[i].dir = dir /\ D!HttpPatterns[i].word \in q.words}
  <2>1. \A i \in 1 .. Len(D!HttpPatterns) : D!HttpPatterns[i].proto = "HTTP"
    BY DEF D!HttpPatterns
  <2>2. CASE found = {}
    BY <2>2 DEF D!TryPattern, D!Protocols
  <2>3. CASE found # {}
    <3>1. (CHOOSE i \in found : TRUE) \in found
      BY <2>3
    <3>2. D!TryPattern(q, dir) = D!HttpPatterns[CHOOSE i \in found : TRUE].proto
      BY <2>3 DEF D!TryPattern
    <3> QED BY <2>1, <3>1, <3>2 DEF D!Protocols
  <2> QED BY <2>2, <2>3
<1> HIDE DEF q
<1>2. \A r : D!Probe(r, q) \in D!Protocols
  BY DEF D!Probe, D!TlsProbe, D!DnsProbe, D!Protocols
<1>3. probed \in D!Protocols
  BY <1>2 DEF D!TryProber, D!Protocols
<1>4. D!TryPort(ports, dir) \in D!Protocols
  BY DEF D!TryPort, D!Protocols
<1> HIDE DEF probed
<1>5. D!GetProto(ports, p, dir) =
         IF q.len < 4 THEN "UNKNOWN"
         ELSE IF D!TryPattern(q, dir) # "UNKNOWN" THEN D!TryPattern(q, dir)
         ELSE IF probed # "UNKNOWN" THEN probed
         ELSE IF enable_port_detection THEN D!TryPort(ports, dir) ELSE "UNKNOWN"
  BY DEF D!GetProto, q, probed
<1> QED BY <1>1, <1>3, <1>4, <1>5 DEF D!Protocols

LEMMA BridgeInit ==
  ASSUME Init
  PROVE  BridgeInv
<1>1. << >> \in Seq(Units)
  OBVIOUS
<1>2. StreamsOK
  BY <1>1 DEF Init, StreamsOK, Buffers
<1>3. WorkOK
  BY DEF Init, WorkOK
<1>4. FlowsOK
  BY BridgeAssumption DEF Init, FlowsOK, ParserOK, D!Protocols
<1> QED BY <1>2, <1>3, <1>4 DEF BridgeInv

\* flow_update puts units of the stream into the buffer
LEMMA InsertType ==
  ASSUME StreamsOK, NEW f \in Flows, NEW d \in Dirs, NEW n \in Nat, NEW part \in BOOLEAN,
         sent[f][d] + n <= Len(stream[f][d])
  PROVE  Insert(f, d, n, part) \in Buffers
<1> DEFINE b == buffer[f][d]
           s == stream[f][d]
           a == sent[f][d]
<1>1. b \in Buffers /\ b.units \in Seq(Units) /\ a \in Nat
  BY DEF StreamsOK, Buffers
<1>2. s \in Seq(Units)
  <2>1. stream \in Traffic /\ s \in Seq(Range(s))
    BY TrafficAssumption DEF StreamsOK
  <2>2. Range(s) \subseteq Units
    BY <2>1 DEF Units
  <2> HIDE DEF s
  <2> QED BY <2>1, <2>2
<1> HIDE DEF b, s, a
<1>3. SubSeq(s, a + 1, a + n) \in Seq(Units)
  BY <1>1, <1>2 DEF a, s
<1>4. b.units \o SubSeq(s, a + 1, a + n) \in Seq(Units)
  BY <1>1, <1>3
<1>5. Insert(f, d, n, part) = IF Len(b.units) = a /\ a + n <= BufferUnits
        THEN [units |-> b.units \o SubSeq(s, a + 1, a + n), part |-> part] ELSE b
  BY DEF Insert, a, b, s
<1> QED BY <1>1, <1>4, <1>5 DEF Buffers

LEMMA ReceiveStep ==
  ASSUME BridgeInv, NEW l \in Lcores, NEW f \in Flows, NEW d \in Dirs, NEW n \in Sizes,
         NEW part \in BOOLEAN, NEW payload, Receive(l, f, d, n, part, payload)
  PROVE  BridgeInv'
<1>1. StreamsOK /\ WorkOK /\ FlowsOK /\ n \in Nat
  BY BridgeAssumption DEF BridgeInv
<1>2. /\ sent[f][d] + n <= Len(stream[f][d]) /\ LcoreOf(f, d) = l
      /\ buffer' = [buffer EXCEPT ![f][d] = Insert(f, d, n, part)]
      /\ sent' = [sent EXCEPT ![f][d] = @ + n]
      /\ UNCHANGED <<stream, alproto, attempts, app_parser, seen, unwatched>>
  BY DEF Receive
<1>3. Insert(f, d, n, part) \in Buffers
  BY <1>1, <1>2, InsertType
<1>4. StreamsOK'
  BY <1>1, <1>2, <1>3 DEF StreamsOK
<1>5. FlowsOK'
  BY <1>1, <1>2 DEF FlowsOK
<1>6. PICK w \in Packets :
         /\ w.flow = f /\ w.dir = d /\ work' = [work EXCEPT ![l] = w]
         /\ w.at = "detect" => Detects(f, d, payload)
  <2> DEFINE w1 == [at |-> "detect", flow |-> f, dir |-> d, proto |-> D!GetProto(Ports[f], payload, d)]
             w2 == [at |-> "inspect", flow |-> f, dir |-> d, proto |-> "UNKNOWN"]
  <2>1. work' = [work EXCEPT ![l] = IF Detects(f, d, payload) THEN w1 ELSE w2]
    BY DEF Receive
  <2>2. w1 \in Packets /\ w2 \in Packets
    BY GetProtoType DEF Packets, D!Protocols
  <2> QED BY <2>1, <2>2
<1>7. WorkOK'
  BY <1>1, <1>2, <1>6 DEF WorkOK, Detects
<1> QED BY <1>4, <1>5, <1>7 DEF BridgeInv

\* the two directions of a flow are not processed at once
LEMMA OneAtATime ==
  ASSUME Affine, WorkOK, NEW l \in Lcores, NEW m \in Lcores, work[l] # Idle, work[m] # Idle,
         work[l].flow = work[m].flow
  PROVE  l = m
<1>1. /\ work[l].flow \in Flows /\ work[l].dir \in Dirs /\ LcoreOf(work[l].flow, work[l].dir) = l
      /\ work[m].flow \in Flows /\ work[m].dir \in Dirs /\ LcoreOf(work[m].flow, work[m].dir) = m
  BY DEF WorkOK, Packets
<1> QED BY <1>1 DEF Affine, Dirs

LEMMA SetProtoStep ==
  ASSUME Affine, BridgeInv, NEW l \in Lcores, SetProto(l)
  PROVE  BridgeInv'
<1> DEFINE w == work[l]
           f == w.flow
           d == w.dir
<1>1. StreamsOK /\ WorkOK /\ FlowsOK
  BY DEF BridgeInv
<1>2. /\ w # Idle /\ w \in Packets /\ f \in Flows /\ d \in Dirs /\ alproto[f] = "UNKNOWN"
      /\ attempts[f][d] < FLOW_ALPROTO_MAX_ATTEMPTS /\ w.proto \in D!Protocols
  <2>1. w.at = "detect" /\ w # Idle
    BY DEF SetProto, Idle
  <2> QED BY <1>1, <2>1 DEF WorkOK, Packets
<1>3. /\ \/ alproto' = [alproto EXCEPT ![f] = w.proto]
         \/ alproto' = alproto
      /\ attempts' = [attempts EXCEPT ![f][d] = @ + 1]
      /\ work' = [work EXCEPT ![l].at = "inspect"]
      /\ UNCHANGED <<stream, sent, buffer, app_parser, seen, unwatched>>
  BY DEF SetProto
<1>4. StreamsOK'
  BY <1>1, <1>3 DEF StreamsOK
<1>5. app_parser[f] = NoParser
  BY <1>1, <1>2 DEF FlowsOK, ParserOK
<1>6. /\ alproto' \in [Flows -> D!Protocols]
      /\ \A g \in Flows : g # f => alproto'[g] = alproto[g]
  BY <1>1, <1>2, <1>3 DEF FlowsOK
<1>7. /\ attempts' \in [Flows -> [Dirs -> 0 .. FLOW_ALPROTO_MAX_ATTEMPTS]]
      /\ \A g \in Flows : g # f => attempts'[g] = attempts[g]
  <2> DEFINE a == attempts[f][d] + 1
  <2>1. a \in 0 .. FLOW_ALPROTO_MAX_ATTEMPTS
    BY <1>1, <1>2, BridgeAssumption DEF FlowsOK
  <2>2. attempts' = [attempts EXCEPT ![f][d] = a]
    BY <1>3
  <2> HIDE DEF a
  <2> QED BY <1>1, <1>2, <2>1, <2>2 DEF FlowsOK
<1>8. FlowsOK'
  <2>1. \A g \in Flows : ParserOK(g, app_parser'[g], alproto'[g], seen' \cup unwatched')
    <3> TAKE g \in Flows
    <3>1. CASE g = f
      BY <1>3, <1>5, <3>1 DEF ParserOK
    <3>2. CASE g # f
      BY <1>1, <1>3, <1>6, <3>2 DEF FlowsOK
    <3> QED BY <3>1, <3>2
  <2> QED BY <1>1, <1>3, <1>6, <1>7, <2>1 DEF FlowsOK
<1>9. WorkOK'
  <2> DEFINE v == [w EXCEPT !.at = "inspect"]
  <2>1. v \in Packets /\ v.flow = f /\ v.dir = d /\ v.at = "inspect"
    BY <1>2 DEF Packets
  <2>2. work' = [work EXCEPT ![l] = v]
    BY <1>3
  <2> HIDE DEF v
  <2>3. \A m \in Lcores : m # l /\ work[m] # Idle => work[m].flow # f
    BY <1>1, <1>2, OneAtATime
  <2>4. DOMAIN work = Lcores /\ LcoreOf(f, d) = l
    BY <1>1, <1>2 DEF WorkOK
  <2> HIDE DEF w, f, d
  <2>5. DOMAIN work' = Lcores /\ work'[l] = v /\ \A m \in Lcores : m # l => work'[m] = work[m]
    BY <2>2, <2>4
  <2>6. ASSUME NEW m \in Lcores, work'[m] # Idle
        PROVE  LET x == work'[m]
               IN  /\ x \in Packets /\ LcoreOf(x.flow, x.dir) = m
                   /\ x.at = "detect" => /\ alproto'[x.flow] = "UNKNOWN"
                                         /\ attempts'[x.flow][x.dir] < FLOW_ALPROTO_MAX_ATTEMPTS
    <3>1. CASE m = l
      BY <2>1, <2>4, <2>5, <3>1
    <3>2. CASE m # l
      <4>1. work[m] # Idle /\ work[m].flow # f /\ work'[m] = work[m]
        BY <2>3, <2>5, <2>6, <3>2
      <4>2. work[m].flow \in Flows
        BY <1>1, <4>1 DEF WorkOK, Packets
      <4> QED BY <1>1, <1>6, <1>7, <4>1, <4>2 DEF WorkOK
    <3> QED BY <3>1, <3>2
  <2> QED BY <2>5, <2>6 DEF WorkOK
<1> QED BY <1>4, <1>8, <1>9 DEF BridgeInv

\* the parser p of flow f after its connection was c
Parsed(f, p, c) ==
    /\ p = [kind |-> "HTTP", conn |-> p.conn]
    /\ ConnOK(c) /\ Watched(f, c, seen \cup unwatched)
    /\ ConnOK(p.conn) /\ Parses(c, p.conn)
    /\ app_parser[f] # NoParser => c = app_parser[f].conn

\* what parsing makes of the parser of an HTTP flow
LEMMA HttpParsedOK ==
  ASSUME StreamsOK, FlowsOK, NEW f \in Flows, alproto[f] = "HTTP", NEW d \in Dirs, NEW mem,
         NEW p, p = HttpParsed(f, d, mem), p # NoParser \/ app_parser[f] # NoParser
  PROVE  \E c : Parsed(f, p, c)
<1> DEFINE q == ParserFor(f, "HTTP", H!NewConn, mem)
           c == q.conn
           e == H!HttpParse(c, buffer[f][d], d, mem)
<1>1. q # NoParser /\ p = [q EXCEPT !.conn = e]
  <2>1. p = IF q = NoParser THEN q ELSE [q EXCEPT !.conn = e]
    BY DEF HttpParsed
  <2>2. app_parser[f] # NoParser => q = app_parser[f]
    BY DEF ParserFor
  <2> HIDE DEF q, e
  <2> QED BY <2>1, <2>2
<1>2. /\ q = [kind |-> "HTTP", conn |-> c] /\ ConnOK(c) /\ Watched(f, c, seen \cup unwatched)
      /\ app_parser[f] # NoParser => c = app_parser[f].conn
  <2>1. CASE app_parser[f] # NoParser
    <3>1. q = app_parser[f]
      BY <2>1 DEF ParserFor
    <3>2. ParserOK(f, app_parser[f], "HTTP", seen \cup unwatched)
      BY DEF FlowsOK
    <3> HIDE DEF q
    <3> QED BY <2>1, <3>1, <3>2 DEF ParserOK
  <2>2. CASE app_parser[f] = NoParser
    <3>1. q = [kind |-> "HTTP", conn |-> H!NewConn]
      BY <1>1, <2>2 DEF ParserFor
    <3> HIDE DEF q
    <3>2. c = H!NewConn
      BY <3>1
    <3>3. Watched(f, H!NewConn, seen \cup unwatched)
      <4>1. H!NewConn.transactions = << >> /\ H!NewConn.state = "IDLE"
        BY DEF H!NewConn
      <4>2. DOMAIN << >> = {}
        OBVIOUS
      <4> QED BY <4>1, <4>2 DEF Watched, Responding
    <3> QED BY <2>2, <3>1, <3>2, <3>3, NewConnOK
  <2> QED BY <2>1, <2>2
<1>3. ConnOK(e) /\ Parses(c, e)
  <2>1. buffer[f][d] \in Buffers
    BY DEF StreamsOK
  <2> HIDE DEF q
  <2> QED BY <1>2, <2>1, HttpParseOK
<1> HIDE DEF q, e
<1>4. p = [kind |-> "HTTP", conn |-> e]
  BY <1>1, <1>2
<1>5. p.conn = e
  BY <1>4
<1>6. Parsed(f, p, c)
  BY <1>2, <1>3, <1>4, <1>5 DEF Parsed
<1> QED BY <1>6

\* and what is recorded of its inspection
LEMMA HttpStep ==
  ASSUME BridgeInv, NEW l \in Lcores, NEW f \in Flows, alproto[f] = "HTTP", NEW d \in Dirs,
         NEW mem, NEW lost, NEW alert, InspectHttpFlow(l, f, d, mem, lost, alert), UNCHANGED alproto
  PROVE  /\ DOMAIN app_parser' = Flows
         /\ \A g \in Flows : ParserOK(g, app_parser'[g], alproto'[g], seen' \cup unwatched')
<1> DEFINE p == HttpParsed(f, d, mem)
           e == IF p = NoParser THEN rule_engine[l] ELSE EngineFor(l, mem, lost)
           tx == TxToInspect(p, d)
<1>1. StreamsOK /\ FlowsOK
  BY DEF BridgeInv
<1>2. /\ app_parser' = [app_parser EXCEPT ![f] = p]
      /\ seen' = IF /\ e # NoEngine /\ tx # 0
                    /\ p.conn.transactions[tx].request.complete
                 THEN seen \cup {<<f, tx>>} ELSE seen
      /\ unwatched' = IF e = NoEngine /\ tx # 0
                      THEN unwatched \cup {<<f, tx>>} ELSE unwatched
  BY DEF InspectHttpFlow
<1> HIDE DEF e
<1>3. \A x \in seen \cup unwatched : x \in seen' \cup unwatched'
  <2> HIDE DEF p, tx
  <2> QED BY <1>2
<1>4. DOMAIN app_parser' = Flows /\ app_parser'[f] = p
      /\ \A g \in Flows : g # f => app_parser'[g] = app_parser[g]
  <2> HIDE DEF p
  <2> QED BY <1>1, <1>2 DEF FlowsOK
<1>5. ASSUME p # NoParser
      PROVE  ParserOK(f, p, "HTTP", seen' \cup unwatched')
  <2>1. tx = p.conn.current_tx
    BY <1>5 DEF TxToInspect
  <2>1a. p = HttpParsed(f, d, mem)
    OBVIOUS
  <2> HIDE DEF p, tx
  <2>1b. PICK c : Parsed(f, p, c)
    BY <1>1, <1>5, <2>1a, HttpParsedOK
  <2>2. /\ p = [kind |-> "HTTP", conn |-> p.conn]
        /\ ConnOK(c) /\ Watched(f, c, seen \cup unwatched)
        /\ ConnOK(p.conn) /\ Parses(c, p.conn)
    BY <2>1b DEF Parsed
  <2> DEFINE a == p.conn
  <2>3. \A i \in DOMAIN a.transactions :
            a.transactions[i].state = "DONE" => <<f, i>> \in seen' \cup unwatched'
    <3> HIDE DEF a
    <3> QED BY <1>3, <2>2 DEF Parses, Watched, a
  <2>4. ASSUME a.state \in Responding
        PROVE  <<f, a.current_tx>> \in seen' \cup unwatched'
    <3>1. a.current_tx # 0 /\ a.transactions[a.current_tx].request.complete
      BY <2>2, <2>4 DEF ConnOK, OpenOK
    <3> QED BY <1>2, <2>1, <3>1
  <2> QED BY <2>2, <2>3, <2>4 DEF ParserOK, Watched
<1>6. ASSUME NEW g \in Flows
      PROVE  ParserOK(g, app_parser'[g], alproto'[g], seen' \cup unwatched')
  <2> HIDE DEF p, tx
  <2>1. CASE g # f
    <3>1. ParserOK(g, app_parser[g], alproto[g], seen \cup unwatched)
      BY <1>1 DEF FlowsOK
    <3> QED BY <1>3, <1>4, <2>1, <3>1 DEF ParserOK, Watched
  <2>2. CASE g = f /\ p = NoParser
    BY <1>4, <2>2 DEF ParserOK
  <2>3. CASE g = f /\ p # NoParser
    BY <1>4, <1>5, <2>3
  <2> QED BY <2>1, <2>2, <2>3
<1> QED BY <1>4, <1>6

LEMMA TlsStep ==
  ASSUME BridgeInv, NEW l \in Lcores, NEW f \in Flows, alproto[f] = "TLS", NEW d \in Dirs,
         NEW mem, NEW alert, InspectTlsFlow(l, f, d, mem, alert), UNCHANGED alproto
  PROVE  /\ DOMAIN app_parser' = Flows
         /\ \A g \in Flows : ParserOK(g, app_parser'[g], alproto'[g], seen' \cup unwatched')
<1> DEFINE p == TlsParsed(f, d, mem)
           q == ParserFor(f, "TLS", T!NewTlsConn, mem)
<1>1. FlowsOK
  BY DEF BridgeInv
<1>2. app_parser' = [app_parser EXCEPT ![f] = p] /\ UNCHANGED <<seen, unwatched>>
  BY DEF InspectTlsFlow
<1>3. ASSUME p # NoParser
      PROVE  ParserOK(f, p, "TLS", seen \cup unwatched)
  <2> DEFINE e == T!TlsParse(q.conn, buffer[f][d], d, mem)
  <2>1. q # NoParser /\ p = [q EXCEPT !.conn = e]
    BY <1>3 DEF TlsParsed
  <2>2. q = [kind |-> "TLS", conn |-> q.conn]
    <3>1. CASE app_parser[f] # NoParser
      <4>1. q = app_parser[f]
        BY <3>1 DEF ParserFor
      <4>2. ParserOK(f, app_parser[f], "TLS", seen \cup unwatched)
        BY <1>1 DEF FlowsOK
      <4> HIDE DEF q
      <4> QED BY <3>1, <4>1, <4>2 DEF ParserOK
    <3>2. CASE app_parser[f] = NoParser
      <4>1. q = [kind |-> "TLS", conn |-> T!NewTlsConn]
        BY <2>1, <3>2 DEF ParserFor
      <4> HIDE DEF q
      <4> QED BY <4>1
    <3> QED BY <3>1, <3>2
  <2> HIDE DEF p, q, e
  <2>3. p = [kind |-> "TLS", conn |-> e]
    BY <2>1, <2>2
  <2>4. p = [kind |-> "TLS", conn |-> p.conn]
    BY <2>3
  <2> QED BY <2>4 DEF ParserOK
<1> HIDE DEF p
<1>4. DOMAIN app_parser' = Flows /\ app_parser'[f] = p
      /\ \A g \in Flows : g # f => app_parser'[g] = app_parser[g]
  BY <1>1, <1>2 DEF FlowsOK
<1>5. ASSUME NEW g \in Flows
      PROVE  ParserOK(g, app_parser'[g], alproto'[g], seen' \cup unwatched')
  <2>1. CASE g # f
    BY <1>1, <1>2, <1>4, <2>1 DEF FlowsOK
  <2>2. CASE g = f /\ p = NoParser
    BY <1>4, <2>2 DEF ParserOK
  <2>3. CASE g = f /\ p # NoParser
    BY <1>2, <1>3, <1>4, <2>3
  <2> QED BY <2>1, <2>2, <2>3
<1> QED BY <1>4, <1>5

LEMMA InspectStep ==
  ASSUME BridgeInv, NEW l \in Lcores, Inspect(l)
  PROVE  BridgeInv'
<1> DEFINE f == work[l].flow
           d == work[l].dir
<1>1. StreamsOK /\ WorkOK /\ FlowsOK
  BY DEF BridgeInv
<1>2. /\ work[l].at = "inspect" /\ work' = [work EXCEPT ![l] = Idle]
      /\ UNCHANGED <<stream, sent, buffer, alproto, attempts>>
  BY DEF Inspect
<1>3. f \in Flows /\ d \in Dirs
  <2>1. work[l] # Idle
    BY <1>2 DEF Idle
  <2> QED BY <1>1, <2>1 DEF WorkOK, Packets
<1>4. PICK alert \in BOOLEAN :
        \/ /\ alproto[f] = "HTTP"
           /\ \E mem \in MemoriesFor(Allocs), lost \in {{}} \cup {{a} : a \in MayLose} :
                 InspectHttpFlow(l, f, d, mem, lost, alert)
        \/ /\ alproto[f] = "TLS"
           /\ \E mem \in MemoriesFor(Allocs) : InspectTlsFlow(l, f, d, mem, alert)
        \/ /\ alproto[f] \notin {"HTTP", "TLS"}
           /\ InspectOther(l, f, alert)
  BY DEF Inspect
<1> HIDE DEF f, d
<1>5. /\ DOMAIN app_parser' = Flows
      /\ \A g \in Flows : ParserOK(g, app_parser'[g], alproto'[g], seen' \cup unwatched')
  <2>1. CASE /\ alproto[f] = "HTTP"
             /\ \E mem \in MemoriesFor(Allocs), lost \in {{}} \cup {{a} : a \in MayLose} :
                   InspectHttpFlow(l, f, d, mem, lost, alert)
    BY <1>2, <1>3, <2>1, HttpStep
  <2>2. CASE /\ alproto[f] = "TLS"
             /\ \E mem \in MemoriesFor(Allocs) : InspectTlsFlow(l, f, d, mem, alert)
    BY <1>2, <1>3, <2>2, TlsStep
  <2>3. CASE InspectOther(l, f, alert)
    BY <1>1, <1>2, <2>3 DEF InspectOther, FlowsOK
  <2> QED BY <1>4, <2>1, <2>2, <2>3
<1>6. StreamsOK' /\ FlowsOK'
  BY <1>1, <1>2, <1>5 DEF StreamsOK, FlowsOK
<1>7. WorkOK'
  BY <1>1, <1>2 DEF WorkOK
<1> QED BY <1>6, <1>7 DEF BridgeInv

LEMMA BridgeNext ==
  ASSUME Affine, BridgeInv, [Next]_vars
  PROVE  BridgeInv'
<1>1. CASE UNCHANGED vars
  BY <1>1 DEF vars, BridgeInv, StreamsOK, WorkOK, FlowsOK
<1>2. CASE Next
  <2>1. PICK l \in Lcores : Step(l)
    BY <1>2 DEF Next
  <2>2. CASE \E f \in Flows, d \in Dirs, n \in Sizes, part \in BOOLEAN :
               \E payload : Receive(l, f, d, n, part, payload)
    BY <2>2, ReceiveStep
  <2>3. CASE SetProto(l)
    BY <2>3, SetProtoStep
  <2>4. CASE Inspect(l)
    BY <2>4, InspectStep
  <2> QED BY <2>1, <2>2, <2>3, <2>4 DEF Step
<1> QED BY <1>1, <1>2

\* the inductive invariant holds of flows whose packets all go to one lcore
LEMMA BridgeSafe ==
  ASSUME Affine
  PROVE  Spec => []BridgeInv
<1>1. Init => BridgeInv
  BY BridgeInit
<1>2. BridgeInv /\ [Next]_vars => BridgeInv'
  BY BridgeNext
<1> QED BY <1>1, <1>2, PTL DEF Spec

-----------------------------------------------------------------------------
(***************************************************************************)
(* The theorems, for flows whose two directions one lcore receives         *)
(***************************************************************************)

\* The parser of a flow (tcp->app_parser, cast by what alproto says) is the
\* one of its protocol, and the attempts to detect it are limited.
THEOREM BridgeFlowSound ==
  ASSUME Affine
  PROVE  Spec => []FlowSound
<1>1. BridgeInv => FlowSound
  <2> SUFFICES ASSUME BridgeInv PROVE FlowSound
    OBVIOUS
  <2>1. \A f \in Flows : app_parser[f] # NoParser =>
            app_parser[f].kind = alproto[f] /\ alproto[f] \in {"HTTP", "TLS"}
    <3> TAKE f \in Flows
    <3>1. ParserOK(f, app_parser[f], alproto[f], seen \cup unwatched)
      BY DEF BridgeInv, FlowsOK
    <3> QED BY <3>1 DEF ParserOK
  <2>2. \A l \in Lcores : work[l].at \in {"idle", "detect", "inspect"}
    BY DEF BridgeInv, WorkOK, Packets, Idle
  <2>3. TypeOK
    BY <2>1, <2>2 DEF BridgeInv, FlowsOK, TypeOK
  <2> QED BY <2>1, <2>3 DEF FlowSound, ParserMatchesProtocol
<1> QED BY <1>1, BridgeSafe, PTL

\* the HTTP parsers
LEMMA HttpConnsOK ==
  ASSUME BridgeInv, NEW c \in HttpConns
  PROVE  ConnOK(c)
<1>1. PICK f \in Flows : app_parser[f] # NoParser /\ app_parser[f].kind = "HTTP" /\ c = app_parser[f].conn
  BY DEF HttpConns
<1>2. ParserOK(f, app_parser[f], alproto[f], seen \cup unwatched)
  BY DEF BridgeInv, FlowsOK
<1>3. alproto[f] = "HTTP"
  BY <1>1, <1>2 DEF ParserOK
<1> QED BY <1>1, <1>2, <1>3 DEF ParserOK

\* a transaction is open unless all are answered
LEMMA AllAnswered ==
  ASSUME NEW c, ConnOK(c)
  PROVE  /\ {i \in DOMAIN c.transactions : c.transactions[i].state = "DONE"} = Answered(c.transactions)
         /\ (c.current_tx = 0) = (c.responses_parsed = Len(c.transactions))
<1> DEFINE txs == c.transactions
           k == c.current_tx
<1>1. /\ txs \in Seq(Txs) /\ k \in Nat /\ k <= Len(txs)
      /\ \A i \in DOMAIN txs : TxOK(txs[i]) /\ (i # k => txs[i].state = "DONE")
      /\ k # 0 => OpenOK(c.state, txs[k])
      /\ c.responses_parsed = Cardinality(Answered(txs))
  BY DEF ConnOK, Conns
<1> HIDE DEF txs, k
<1>2. {i \in DOMAIN txs : txs[i].state = "DONE"} = Answered(txs)
  BY <1>1 DEF TxOK, Answered
<1>3. IsFiniteSet(DOMAIN txs) /\ Cardinality(DOMAIN txs) = Len(txs)
  BY <1>1, CountsFinite
<1>4. Answered(txs) \subseteq DOMAIN txs
  BY DEF Answered
<1>5. CASE k = 0
  <2>1. \A i \in DOMAIN txs : i # k
    BY <1>1, <1>5
  <2>2. Answered(txs) = DOMAIN txs
    BY <1>1, <2>1 DEF TxOK, Answered
  <2> QED BY <1>1, <1>2, <1>3, <1>5, <2>2 DEF k, txs
<1>6. CASE k # 0
  <2>1. k \in DOMAIN txs /\ ~txs[k].response.complete
    BY <1>1, <1>6 DEF OpenOK
  <2>2. Answered(txs) # DOMAIN txs
    BY <2>1 DEF Answered
  <2>3. Cardinality(Answered(txs)) # Cardinality(DOMAIN txs)
    BY <1>3, <1>4, <2>2, FS_Subset
  <2> QED BY <1>1, <1>2, <1>3, <1>6, <2>3 DEF k, txs
<1> QED BY <1>5, <1>6

\* The counters and the state of an HTTP connection agree with its list of
\* transactions, and no message has more headers than http_parser.c keeps.
THEOREM BridgeHttpSound ==
  ASSUME Affine
  PROVE  Spec => []HttpSound
<1>1. BridgeInv => HttpSound
  <2> SUFFICES ASSUME BridgeInv PROVE HttpSound
    OBVIOUS
  <2>1. HeadersBounded
    <3>1. \A c \in HttpConns : ConnOK(c)
      BY HttpConnsOK
    <3> QED BY <3>1 DEF HeadersBounded, ConnOK, TxOK
  <2>2. TxAccounting
    <3> SUFFICES ASSUME NEW c \in HttpConns
                 PROVE  LET txs == c.transactions
                            Count(P(_)) == Cardinality({i \in DOMAIN txs : P(txs[i])})
                        IN  /\ c.requests_parsed = Count(LAMBDA t : t.request.complete)
                            /\ c.responses_parsed = Count(LAMBDA t : t.response.complete)
                            /\ c.responses_parsed = Count(LAMBDA t : t.state = "DONE")
                            /\ \A i \in DOMAIN txs : i # c.current_tx => txs[i].state = "DONE"
                            /\ (c.current_tx = 0) = (c.responses_parsed = Len(txs))
                            /\ c.state \in {"RESPONSE_LINE", "RESPONSE_HEADERS"} =>
                                   c.current_tx # 0 /\ txs[c.current_tx].request.complete
      BY DEF TxAccounting
    <3>1. ConnOK(c)
      BY HttpConnsOK
    <3>2. /\ c.requests_parsed = Cardinality({i \in DOMAIN c.transactions : c.transactions[i].request.complete})
          /\ c.responses_parsed = Cardinality({i \in DOMAIN c.transactions : c.transactions[i].response.complete})
      BY <3>1 DEF ConnOK, Asked, Answered
    <3>3. c.responses_parsed = Cardinality({i \in DOMAIN c.transactions : c.transactions[i].state = "DONE"})
      BY <3>1, AllAnswered DEF ConnOK
    <3>4. (c.current_tx = 0) = (c.responses_parsed = Len(c.transactions))
      BY <3>1, AllAnswered
    <3>5. /\ \A i \in DOMAIN c.transactions : i # c.current_tx => c.transactions[i].state = "DONE"
          /\ c.state \in {"RESPONSE_LINE", "RESPONSE_HEADERS"} =>
                  c.current_tx # 0 /\ c.transactions[c.current_tx].request.complete
      BY <3>1 DEF ConnOK, OpenOK, Responding
    <3> QED BY <3>2, <3>3, <3>4, <3>5
  <2> QED BY <2>1, <2>2 DEF HttpSound
<1> QED BY <1>1, BridgeSafe, PTL

\* A transaction that is done was inspected after its request was complete,
\* unless its lcore had no rule engine: process_packet inspects the open
\* transaction after each parse, and a response is read by a later packet.
THEOREM BridgeRequestsInspected ==
  ASSUME Affine
  PROVE  Spec => []EveryRequestInspected
<1>1. BridgeInv => EveryRequestInspected
  <2> SUFFICES ASSUME BridgeInv, NEW f \in Flows, app_parser[f] # NoParser,
                      app_parser[f].kind = "HTTP"
               PROVE  Watched(f, app_parser[f].conn, seen \cup unwatched)
    BY DEF EveryRequestInspected, Watched
  <2>1. ParserOK(f, app_parser[f], alproto[f], seen \cup unwatched)
    BY DEF BridgeInv, FlowsOK
  <2>2. alproto[f] = "HTTP"
    BY <2>1 DEF ParserOK
  <2> QED BY <2>1, <2>2 DEF ParserOK
<1> QED BY <1>1, BridgeSafe, PTL

\* No later packet changes a transaction that is done: http_parser_parse
\* reads the whole buffer again, and only touches the open transaction.
THEOREM BridgeDoneFrozen ==
  ASSUME Affine
  PROVE  Spec => DoneFrozen
<1> DEFINE Frozen(f) ==
             app_parser[f] # NoParser /\ app_parser[f].kind = "HTTP" =>
                LET old == app_parser[f].conn.transactions
                    new == app_parser'[f].conn.transactions
                IN  \A i \in DOMAIN old : old[i].state = "DONE" => new[i] = old[i]
<1>1. ASSUME BridgeInv, Next
      PROVE  \A f \in Flows : Frozen(f)
  <2> SUFFICES ASSUME NEW f \in Flows, app_parser[f] # NoParser, app_parser[f].kind = "HTTP"
               PROVE  Frozen(f)
    OBVIOUS
  <2>1. StreamsOK /\ FlowsOK /\ WorkOK
    BY <1>1 DEF BridgeInv
  <2>2. ParserOK(f, app_parser[f], alproto[f], seen \cup unwatched)
    BY <2>1 DEF FlowsOK
  <2>3. alproto[f] = "HTTP"
    BY <2>2 DEF ParserOK
  <2>4. CASE app_parser'[f] = app_parser[f]
    BY <2>4
  <2>5. CASE \E d \in Dirs : \E mem : app_parser'[f] = HttpParsed(f, d, mem)
    <3>0. PICK d \in Dirs : \E mem : app_parser'[f] = HttpParsed(f, d, mem)
      BY <2>5
    <3>1. PICK mem : app_parser'[f] = HttpParsed(f, d, mem)
      BY <3>0
    <3>2. PICK c : Parsed(f, app_parser'[f], c)
      BY <2>1, <2>3, <3>1, HttpParsedOK
    <3>3. c = app_parser[f].conn /\ Parses(c, app_parser'[f].conn)
      BY <3>2 DEF Parsed
    <3> QED BY <3>3 DEF Parses
  <2>6. ASSUME NEW l \in Lcores, Inspect(l)
        PROVE  \/ app_parser'[f] = app_parser[f]
               \/ \E d \in Dirs : \E mem : app_parser'[f] = HttpParsed(f, d, mem)
    <3> DEFINE g == work[l].flow
               d == work[l].dir
    <3>1. g \in Flows /\ d \in Dirs
      <4>1. work[l] # Idle
        BY <2>6 DEF Inspect, Idle
      <4> QED BY <2>1, <4>1 DEF WorkOK, Packets
    <3>2. \/ /\ alproto[g] = "HTTP"
             /\ \E mem : app_parser' = [app_parser EXCEPT ![g] = HttpParsed(g, d, mem)]
          \/ /\ alproto[g] = "TLS"
             /\ \E mem : app_parser' = [app_parser EXCEPT ![g] = TlsParsed(g, d, mem)]
          \/ app_parser' = app_parser
      BY <2>6, ZenonT(60) DEF Inspect, InspectHttpFlow, InspectTlsFlow, InspectOther
    <3> HIDE DEF g, d
    <3> QED BY <2>1, <2>3, <3>1, <3>2 DEF FlowsOK
  <2>7. PICK l \in Lcores : Step(l)
    BY <1>1 DEF Next
  <2>8. CASE Inspect(l)
    BY <2>4, <2>5, <2>6, <2>8
  <2>9. CASE ~Inspect(l)
    <3>1. app_parser' = app_parser
      <4>1. CASE SetProto(l)
        BY <4>1 DEF SetProto
      <4>2. CASE ~SetProto(l)
        <5>1. PICK fl \in Flows, dr \in Dirs, n \in Sizes, part \in BOOLEAN :
                 \E payload : Receive(l, fl, dr, n, part, payload)
          BY <2>7, <2>9, <4>2, Zenon DEF Step
        <5> QED BY <5>1, Zenon DEF Receive
      <4> QED BY <4>1, <4>2
    <3> QED BY <2>4, <3>1
  <2> QED BY <2>8, <2>9
<1>2. BridgeInv /\ [Next]_vars => [\A f \in Flows : Frozen(f)]_vars
  BY <1>1
<1> QED BY <1>2, BridgeSafe, PTL DEF Spec, DoneFrozen

-----------------------------------------------------------------------------
(***************************************************************************)
(* Loops.  A loop over 1 .. n that stays in a set has a result: the        *)
(* recursion has a solution, and every solution stays in the set.          *)
(***************************************************************************)
Passes(st, n, C) == st \in [C \X (1 .. n) -> C]
Ran(g, n, C, base, st) ==
    /\ g \in [0 .. n -> C] /\ g[0] = base
    /\ \A k \in 1 .. n : g[k] = st[<<g[k - 1], k>>]

LEMMA LoopExists ==
  ASSUME NEW n \in Nat, NEW C, NEW base \in C, NEW st, Passes(st, n, C)
  PROVE  \E g : Ran(g, n, C, base, st)
<1>0. st \in [C \X (1 .. n) -> C]
  BY DEF Passes
<1> DEFINE Up(g, m) == g[0] = base /\ \A k \in 1 .. m : g[k] = st[<<g[k - 1], k>>]
           Bad == {m \in 0 .. n : ~ \E g \in [0 .. n -> C] : Up(g, m)}
<1>1. Bad = {}
  <2> SUFFICES ASSUME Bad # {} PROVE FALSE
    OBVIOUS
  <2>1. Bad \in SUBSET Nat
    OBVIOUS
  <2> DEFINE m == Min(Bad)
  <2>2. m \in Bad /\ \A y \in Bad : m <= y
    <3> HIDE DEF Bad
    <3> QED BY <2>1, LeastNat
  <2> HIDE DEF m
  <2>3. m \in 0 .. n /\ ~ \E g \in [0 .. n -> C] : Up(g, m)
    BY <2>2
  <2>4. m # 0
    <3> DEFINE g == [k \in 0 .. n |-> base]
    <3>1. g \in [0 .. n -> C] /\ Up(g, 0)
      OBVIOUS
    <3> QED BY <2>3, <3>1
  <2>5. m - 1 \in 0 .. n /\ m - 1 \notin Bad
    <3> HIDE DEF Bad, Up
    <3> QED BY <2>2, <2>3, <2>4
  <2>6. PICK g \in [0 .. n -> C] : Up(g, m - 1)
    BY <2>5
  <2> DEFINE v == st[<<g[m - 1], m>>]
             h == [g EXCEPT ![m] = v]
  <2>7. v \in C
    <3>1. m \in 1 .. n /\ g[m - 1] \in C
      BY <2>3, <2>4, <2>5
    <3>2. <<g[m - 1], m>> \in C \X (1 .. n)
      BY <3>1
    <3> QED BY <1>0, <3>2
  <2>8. h \in [0 .. n -> C] /\ h[m] = v /\ \A k \in 0 .. n : k # m => h[k] = g[k]
    <3> HIDE DEF v
    <3> QED BY <2>3, <2>7
  <2> HIDE DEF h
  <2>9. h[0] = base
    BY <2>3, <2>4, <2>6, <2>8
  <2>10. ASSUME NEW k \in 1 .. m PROVE h[k] = st[<<h[k - 1], k>>]
    <3>1. k - 1 \in 0 .. n /\ k - 1 # m /\ h[k - 1] = g[k - 1]
      BY <2>3, <2>8
    <3>2. CASE k = m
      BY <2>8, <3>1, <3>2
    <3>3. CASE k # m
      <4>1. k \in 1 .. m - 1 /\ k \in 0 .. n
        BY <2>3, <3>3
      <4>2. h[k] = g[k] /\ g[k] = st[<<g[k - 1], k>>]
        BY <2>6, <2>8, <3>3, <4>1
      <4> QED BY <3>1, <4>2
    <3> QED BY <3>2, <3>3
  <2> QED BY <2>3, <2>8, <2>9, <2>10
<1>2. n \in 0 .. n
  OBVIOUS
<1>3. PICK g \in [0 .. n -> C] : Up(g, n)
  BY <1>1, <1>2
<1> QED BY <1>3 DEF Ran

LEMMA LoopStays ==
  ASSUME NEW n \in Nat, NEW C, NEW g, g[0] \in C,
         \A k \in 1 .. n : g[k - 1] \in C => g[k] \in C
  PROVE  g[n] \in C
<1> DEFINE Bad == {k \in 0 .. n : g[k] \notin C}
<1> SUFFICES ASSUME g[n] \notin C PROVE FALSE
  OBVIOUS
<1>1. Bad \in SUBSET Nat /\ Bad # {}
  OBVIOUS
<1> DEFINE m == Min(Bad)
<1>2. m \in Bad /\ \A y \in Bad : m <= y
  <2> HIDE DEF Bad
  <2> QED BY <1>1, LeastNat
<1> HIDE DEF m
<1>3. m \in 1 .. n /\ g[m] \notin C
  BY <1>2
<1>4. m - 1 \in 0 .. n /\ m - 1 \notin Bad
  BY <1>2, <1>3
<1> QED BY <1>3, <1>4

-----------------------------------------------------------------------------
(***************************************************************************)
(* The warnings of TLS connections                                         *)
(***************************************************************************)
Versions == {u.version : u \in Units}
Wordings == {u.words : u \in Units} \cup {{}}
TlsConns ==
    [client_hello : {NoHello} \cup [version : Versions, words : Wordings],
     server_hello : {NoHello} \cup [version : Versions],
     client_cert_seen : BOOLEAN, server_cert_seen : BOOLEAN,
     weak_cipher : BOOLEAN, version_downgrade : BOOLEAN,
     expired_cert : BOOLEAN, self_signed_cert : BOOLEAN, handshake_completed : BOOLEAN]

\* the records in the two streams of a flow
Arrived(f) == UNION {Range(buffer[f][d].units) : d \in Dirs}

\* what a connection remembers comes from hellos among the records U: the
\* version of the last client hello too, which the warning is derived from
Justified(c, U) ==
    /\ c.client_hello # NoHello =>
          \E r \in U : r.hs = "client_hello" /\ r.version = c.client_hello.version
    /\ c.weak_cipher => \E r \in U : r.hs = "server_hello" /\ r.weak
    /\ c.version_downgrade =>
          /\ \E r \in U : r.hs = "client_hello" /\ r.version >= TLS13
          /\ \E r \in U : r.hs = "server_hello" /\ r.version < TLS13
Warned(U) == {c \in TlsConns : Justified(c, U)}

LEMMA NewTlsWarned == ASSUME NEW U PROVE T!NewTlsConn \in Warned(U)
BY DEF T!NewTlsConn, Warned, TlsConns, Justified

LEMMA WarnedMore == ASSUME NEW U, NEW V, U \subseteq V PROVE Warned(U) \subseteq Warned(V)
BY DEF Warned, Justified

LEMMA HandshakeWarned ==
  ASSUME NEW U, U \subseteq Units, NEW c \in Warned(U), NEW r \in U, NEW dir, NEW mem
  PROVE  T!ParseHandshake(c, r, dir, mem) \in Warned(U)
<1>1. c \in TlsConns /\ Justified(c, U) /\ r \in Units
  BY DEF Warned
<1>2. CASE r.hs = "client_hello"
  <2> DEFINE w == IF "sni" \in mem THEN r.words ELSE {}
             x == [version |-> r.version, words |-> w]
             e == [c EXCEPT !.client_hello = x]
  <2>1. w \in Wordings /\ r.version \in Versions
    BY <1>1 DEF Wordings, Versions
  <2> HIDE DEF w
  <2>2. x \in [version : Versions, words : Wordings] /\ x.version = r.version
    BY <2>1
  <2> HIDE DEF x
  <2>3. e \in TlsConns
    BY <1>1, <2>2 DEF TlsConns
  <2>4. /\ e.client_hello = x /\ e.weak_cipher = c.weak_cipher
        /\ e.version_downgrade = c.version_downgrade
    BY <1>1 DEF TlsConns
  <2> HIDE DEF e
  <2>5. Justified(e, U)
    BY <1>1, <1>2, <2>2, <2>4 DEF Justified
  <2>6. T!ParseClientHello(c, r, mem) \in {c, e}
    BY DEF T!ParseClientHello, e, x, w
  <2>7. T!ParseHandshake(c, r, dir, mem) = T!ParseClientHello(c, r, mem)
    BY <1>2 DEF T!ParseHandshake
  <2> QED BY <1>1, <2>3, <2>5, <2>6, <2>7 DEF Warned
<1>3. CASE r.hs = "server_hello"
  <2> DEFINE x == [version |-> r.version]
             wk == c.weak_cipher \/ r.weak
             vd == c.version_downgrade \/ (/\ c.client_hello # NoHello
                                           /\ c.client_hello.version >= TLS13
                                           /\ r.version < TLS13)
             e == [c EXCEPT !.server_hello = x, !.weak_cipher = wk, !.version_downgrade = vd]
  <2>1. x \in [version : Versions]
    BY <1>1 DEF Versions
  <2>2. wk \in BOOLEAN /\ vd \in BOOLEAN
    OBVIOUS
  <2>3. wk => \E u \in U : u.hs = "server_hello" /\ u.weak
    BY <1>1, <1>3 DEF Justified
  <2>4. vd => /\ \E u \in U : u.hs = "client_hello" /\ u.version >= TLS13
              /\ \E u \in U : u.hs = "server_hello" /\ u.version < TLS13
    BY <1>1, <1>3 DEF Justified
  <2>5. e = T!ParseServerHello(c, r, mem) \/ c = T!ParseServerHello(c, r, mem)
    <3> HIDE DEF x
    <3> QED BY <1>1 DEF T!ParseServerHello, TlsConns, x
  <2> HIDE DEF x, wk, vd
  <2>6. e \in TlsConns
    BY <1>1, <2>1, <2>2 DEF TlsConns
  <2>7. e.client_hello = c.client_hello /\ e.weak_cipher = wk /\ e.version_downgrade = vd
    BY <1>1 DEF TlsConns
  <2> HIDE DEF e
  <2>8. Justified(e, U)
    BY <1>1, <2>3, <2>4, <2>7 DEF Justified
  <2>9. T!ParseHandshake(c, r, dir, mem) = T!ParseServerHello(c, r, mem)
    BY <1>3 DEF T!ParseHandshake
  <2> QED BY <1>1, <2>5, <2>6, <2>8, <2>9 DEF Warned
<1>4. ASSUME r.hs \notin {"client_hello", "server_hello"}
      PROVE  T!ParseHandshake(c, r, dir, mem) \in Warned(U)
  <2> DEFINE e1 == [c EXCEPT !.client_cert_seen = TRUE]
             e2 == [c EXCEPT !.server_cert_seen = TRUE]
             e3 == [c EXCEPT !.handshake_completed = c.handshake_completed \/ r.fits]
  <2>1. T!ParseHandshake(c, r, dir, mem) \in {c, e1, e2, e3}
    BY <1>4 DEF T!ParseHandshake, T!ParseCertificate
  <2>2. e1 \in TlsConns /\ Justified(e1, U)
    BY <1>1 DEF TlsConns, Justified
  <2>3. e2 \in TlsConns /\ Justified(e2, U)
    BY <1>1 DEF TlsConns, Justified
  <2>4. e3 \in TlsConns /\ Justified(e3, U)
    BY <1>1 DEF TlsConns, Justified
  <2> QED BY <1>1, <2>1, <2>2, <2>3, <2>4 DEF Warned
<1> QED BY <1>2, <1>3, <1>4

\* tls_parser_parse keeps to what is in the stream it reads
LEMMA TlsParseWarned ==
  ASSUME NEW U, U \subseteq Units, NEW c \in Warned(U), NEW buf, buf.units \in Seq(U),
         NEW dir, NEW mem
  PROVE  T!TlsParse(c, buf, dir, mem) \in Warned(U)
<1> DEFINE n == Len(buf.units)
           Reached(k) == \A j \in 1 .. k : ~buf.units[j].oversize
           Read(k) == Reached(k) /\ buf.units[k].content = "handshake"
           After(x, k) == IF Read(k) THEN T!ParseHandshake(x, buf.units[k], dir, mem) ELSE x
           Loop(g) == [k \in 0 .. n |-> IF k = 0 THEN c ELSE After(g[k - 1], k)]
           C == Warned(U)
<1>1. n \in Nat /\ \A k \in 1 .. n : buf.units[k] \in U
  OBVIOUS
<1>2. ASSUME NEW x \in C, NEW k \in 1 .. n PROVE After(x, k) \in C
  <2> HIDE DEF Read
  <2> QED BY <1>1, HandshakeWarned
<1>3. T!TlsParse(c, buf, dir, mem) = (CHOOSE g : g = Loop(g))[n]
  BY DEF T!TlsParse
<1> HIDE DEF n, After, C
<1>4. \E g : g = Loop(g)
  <2> DEFINE st == [x \in C \X (1 .. n) |-> After(x[1], x[2])]
  <2>1. st \in [C \X (1 .. n) -> C]
    BY <1>2
  <2>2. \A x \in C, k \in 1 .. n : st[<<x, k>>] = After(x, k)
    OBVIOUS
  <2> HIDE DEF st
  <2>21. c \in C /\ Passes(st, n, C)
    BY <2>1 DEF C, Passes
  <2>22. PICK g : Ran(g, n, C, c, st)
    BY <1>1, <2>21, LoopExists
  <2>3. g \in [0 .. n -> C] /\ g[0] = c /\ \A k \in 1 .. n : g[k] = st[<<g[k - 1], k>>]
    BY <2>22 DEF Ran
  <2>4. ASSUME NEW k \in 0 .. n PROVE g[k] = IF k = 0 THEN c ELSE After(g[k - 1], k)
    <3>1. CASE k = 0
      BY <2>3, <3>1
    <3>2. CASE k # 0
      <4>1. k \in 1 .. n /\ k - 1 \in 0 .. n
        BY <1>1, <3>2
      <4> QED BY <2>2, <2>3, <3>2, <4>1
    <3> QED BY <3>1, <3>2
  <2>5. g = [k \in 0 .. n |-> g[k]]
    BY <2>3
  <2>6. g = Loop(g)
    BY <2>4, <2>5, Zenon
  <2> QED BY <2>6
<1> DEFINE u == CHOOSE g : g = Loop(g)
<1>5. u = Loop(u)
  <2> HIDE DEF Loop
  <2> QED BY <1>4
<1> HIDE DEF u
<1>6. u[0] \in C
  <2>1. 0 \in 0 .. n
    BY <1>1
  <2>2. u[0] = c
    BY <1>5, <2>1
  <2> QED BY <2>2 DEF C
<1>7. ASSUME NEW k \in 1 .. n, u[k - 1] \in C PROVE u[k] \in C
  <2>1. k \in 0 .. n /\ k # 0
    BY <1>1
  <2>2. u[k] = After(u[k - 1], k)
    BY <1>5, <2>1
  <2> QED BY <1>2, <1>7, <2>2
<1>8. u[n] \in C
  BY <1>1, <1>6, <1>7, LoopStays
<1> QED BY <1>3, <1>8 DEF u, C

ConnWarned(p, U) == p # NoParser /\ p.kind = "TLS" => p.conn \in Warned(U)
WarnInv == \A f \in Flows : ConnWarned(app_parser[f], Arrived(f))

LEMMA ArrivedUnits ==
  ASSUME StreamsOK, NEW f \in Flows
  PROVE  /\ Arrived(f) \subseteq Units
         /\ \A d \in Dirs : buffer[f][d].units \in Seq(Arrived(f))
<1>1. \A d \in Dirs : buffer[f][d].units \in Seq(Units)
  BY DEF StreamsOK, Buffers
<1>2. ASSUME NEW d \in Dirs
      PROVE  Range(buffer[f][d].units) \subseteq Units /\ buffer[f][d].units \in Seq(Arrived(f))
  <2> DEFINE u == buffer[f][d].units
  <2>1. u \in Seq(Units) /\ Range(u) \subseteq Arrived(f)
    BY <1>1 DEF Arrived
  <2> HIDE DEF u
  <2>2. Range(u) \subseteq Units
    BY <2>1 DEF Range
  <2>3. \A i \in 1 .. Len(u) : u[i] \in Arrived(f)
    BY <2>1 DEF Range
  <2>4. u \in Seq(Arrived(f))
    BY <2>1, <2>3
  <2> QED BY <2>2, <2>4 DEF u
<1> QED BY <1>2 DEF Arrived

\* flow_update takes nothing out of a stream
LEMMA ArrivedMore ==
  ASSUME StreamsOK, NEW l, NEW f \in Flows, NEW d \in Dirs, NEW n \in Sizes, NEW part \in BOOLEAN,
         NEW payload, Receive(l, f, d, n, part, payload), NEW g \in Flows
  PROVE  Arrived(g) \subseteq Arrived(g)'
<1> DEFINE b == buffer[f][d]
           s == stream[f][d]
           a == sent[f][d]
           e == SubSeq(s, a + 1, a + n)
           c == Insert(f, d, n, part)
<1>1. /\ buffer' = [buffer EXCEPT ![f][d] = c] /\ a + n <= Len(s)
      /\ n \in Nat /\ a \in Nat /\ b.units \in Seq(Units)
  BY BridgeAssumption DEF Receive, StreamsOK, Buffers
<1>2. Range(b.units) \subseteq Range(c.units)
  <2>1. s \in Seq(Range(s))
    BY TrafficAssumption DEF StreamsOK
  <2>2. c = b \/ c.units = b.units \o e
    BY DEF Insert
  <2>3. e \in Seq(Range(s))
    <3> HIDE DEF s, a
    <3> QED BY <1>1, <2>1
  <2> HIDE DEF e, c, b
  <2>4. CASE c = b
    BY <2>4
  <2>5. CASE c.units = b.units \o e
    <3> DEFINE x == b.units
               y == c.units
    <3>1. /\ y = x \o e /\ x \in Seq(Units) /\ e \in Seq(Range(s))
      BY <1>1, <2>3, <2>5
    <3> HIDE DEF x, y, s
    <3>2. DOMAIN x \subseteq DOMAIN y /\ \A i \in DOMAIN x : y[i] = x[i]
      BY <3>1
    <3>3. Range(x) \subseteq Range(y)
      BY <3>2 DEF Range
    <3> QED BY <3>3 DEF x, y
  <2> QED BY <2>2, <2>4, <2>5
<1> HIDE DEF c
<1>3. ASSUME NEW h \in Dirs
      PROVE  Range(buffer[g][h].units) \subseteq Range(buffer'[g][h].units)
  <2>1. CASE g = f /\ h = d
    <3>1. buffer'[g][h] = c
      BY <1>1, <2>1 DEF StreamsOK
    <3> QED BY <1>2, <2>1, <3>1
  <2>2. CASE ~(g = f /\ h = d)
    <3>1. buffer'[g][h] = buffer[g][h]
      BY <1>1, <2>2 DEF StreamsOK
    <3> QED BY <3>1
  <2> QED BY <2>1, <2>2
<1> QED BY <1>3 DEF Arrived

LEMMA TlsParsedWarned ==
  ASSUME StreamsOK, FlowsOK, WarnInv, NEW f \in Flows, alproto[f] = "TLS", NEW d \in Dirs, NEW mem
  PROVE  ConnWarned(TlsParsed(f, d, mem), Arrived(f))
<1> DEFINE q == ParserFor(f, "TLS", T!NewTlsConn, mem)
           p == TlsParsed(f, d, mem)
           e == T!TlsParse(q.conn, buffer[f][d], d, mem)
<1>1. p = IF q = NoParser THEN q ELSE [q EXCEPT !.conn = e]
  BY DEF TlsParsed
<1>2. ASSUME q # NoParser
      PROVE  q = [kind |-> "TLS", conn |-> q.conn] /\ q.conn \in Warned(Arrived(f))
  <2>1. CASE app_parser[f] # NoParser
    <3>1. q = app_parser[f]
      BY <2>1 DEF ParserFor
    <3>2. ParserOK(f, app_parser[f], "TLS", seen \cup unwatched) /\ ConnWarned(app_parser[f], Arrived(f))
      BY DEF FlowsOK, WarnInv
    <3> HIDE DEF q
    <3>3. q = [kind |-> "TLS", conn |-> q.conn]
      BY <2>1, <3>1, <3>2 DEF ParserOK
    <3>4. q.kind = "TLS"
      BY <3>3
    <3> QED BY <2>1, <3>1, <3>2, <3>3, <3>4 DEF ConnWarned
  <2>2. CASE app_parser[f] = NoParser
    <3>1. q = [kind |-> "TLS", conn |-> T!NewTlsConn]
      BY <1>2, <2>2 DEF ParserFor
    <3> HIDE DEF q
    <3>2. q.conn = T!NewTlsConn
      BY <3>1
    <3> QED BY <3>1, <3>2, NewTlsWarned
  <2> QED BY <2>1, <2>2
<1>3. ASSUME q # NoParser PROVE e \in Warned(Arrived(f))
  <2>1. Arrived(f) \subseteq Units /\ buffer[f][d].units \in Seq(Arrived(f))
    BY ArrivedUnits
  <2> HIDE DEF q
  <2> QED BY <1>2, <1>3, <2>1, TlsParseWarned
<1> HIDE DEF p, q, e
<1>4. CASE q = NoParser
  BY <1>1, <1>4 DEF p, ConnWarned
<1>5. CASE q # NoParser
  <2>1. p = [kind |-> "TLS", conn |-> e]
    BY <1>1, <1>2, <1>5
  <2>2. p.conn = e
    BY <2>1
  <2> QED BY <1>3, <1>5, <2>2 DEF p, ConnWarned
<1> QED BY <1>4, <1>5

LEMMA WarnNext ==
  ASSUME BridgeInv, BridgeInv', WarnInv, [Next]_vars
  PROVE  WarnInv'
<1>0. StreamsOK /\ WorkOK /\ FlowsOK /\ FlowsOK'
  BY DEF BridgeInv
<1>1. CASE UNCHANGED <<app_parser, buffer>>
  BY <1>1 DEF WarnInv, Arrived
<1>2. CASE UNCHANGED vars
  BY <1>1, <1>2 DEF vars
<1>3. ASSUME NEW l, NEW f \in Flows, NEW d \in Dirs, NEW n \in Sizes, NEW part \in BOOLEAN,
             NEW payload, Receive(l, f, d, n, part, payload)
      PROVE  WarnInv'
  <2>1. app_parser' = app_parser
    BY <1>3 DEF Receive
  <2>2. ASSUME NEW g \in Flows PROVE ConnWarned(app_parser[g], Arrived(g)')
    <3>1. ConnWarned(app_parser[g], Arrived(g)) /\ Arrived(g) \subseteq Arrived(g)'
      BY <1>0, <1>3, ArrivedMore DEF WarnInv
    <3>2. Warned(Arrived(g)) \subseteq Warned(Arrived(g)')
      BY <3>1, WarnedMore
    <3> QED BY <3>1, <3>2 DEF ConnWarned
  <2> QED BY <2>1, <2>2 DEF WarnInv
<1>4. ASSUME NEW l, SetProto(l) PROVE WarnInv'
  BY <1>1, <1>4 DEF SetProto
<1>5. ASSUME NEW l \in Lcores, Inspect(l) PROVE WarnInv'
  <2> DEFINE f == work[l].flow
             d == work[l].dir
  <2>1. UNCHANGED <<buffer, alproto>>
    BY <1>5 DEF Inspect
  <2>2. f \in Flows /\ d \in Dirs
    <3>1. work[l] # Idle
      BY <1>5 DEF Inspect, Idle
    <3> QED BY <1>0, <3>1 DEF WorkOK, Packets
  <2>3. \/ /\ alproto[f] = "HTTP"
           /\ \E mem : app_parser' = [app_parser EXCEPT ![f] = HttpParsed(f, d, mem)]
        \/ /\ alproto[f] = "TLS"
           /\ \E mem : app_parser' = [app_parser EXCEPT ![f] = TlsParsed(f, d, mem)]
        \/ app_parser' = app_parser
    BY <1>5, ZenonT(60) DEF Inspect, InspectHttpFlow, InspectTlsFlow, InspectOther
  <2> HIDE DEF f, d
  <2>4. CASE app_parser' = app_parser
    BY <1>1, <2>1, <2>4
  <2>5. ASSUME NEW p, app_parser' = [app_parser EXCEPT ![f] = p], ConnWarned(p, Arrived(f))
        PROVE  WarnInv'
    <3>1. DOMAIN app_parser = Flows
      BY <1>0 DEF FlowsOK
    <3>2. \A g \in Flows : app_parser'[g] = IF g = f THEN p ELSE app_parser[g]
      BY <2>2, <2>5, <3>1
    <3>3. \A g \in Flows : Arrived(g)' = Arrived(g)
      BY <2>1 DEF Arrived
    <3> QED BY <2>5, <3>2, <3>3 DEF WarnInv
  <2>6. CASE /\ alproto[f] = "HTTP"
             /\ \E mem : app_parser' = [app_parser EXCEPT ![f] = HttpParsed(f, d, mem)]
    <3>1. PICK p : app_parser' = [app_parser EXCEPT ![f] = p]
      BY <2>6
    <3>2. alproto'[f] = "HTTP"
      BY <2>1, <2>6
    <3>3. app_parser'[f] = p
      BY <1>0, <2>2, <3>1 DEF FlowsOK
    <3>4. ParserOK(f, p, "HTTP", seen' \cup unwatched')
      BY <1>0, <2>2, <3>2, <3>3 DEF FlowsOK
    <3>5. ConnWarned(p, Arrived(f))
      BY <3>4 DEF ParserOK, ConnWarned
    <3> QED BY <2>5, <3>1, <3>5
  <2>7. CASE /\ alproto[f] = "TLS"
             /\ \E mem : app_parser' = [app_parser EXCEPT ![f] = TlsParsed(f, d, mem)]
    <3>1. PICK mem : app_parser' = [app_parser EXCEPT ![f] = TlsParsed(f, d, mem)]
      BY <2>7
    <3>2. ConnWarned(TlsParsed(f, d, mem), Arrived(f))
      BY <1>0, <2>2, <2>7, TlsParsedWarned
    <3> QED BY <2>5, <3>1, <3>2
  <2> QED BY <2>3, <2>4, <2>6, <2>7
<1> QED BY <1>2, <1>3, <1>4, <1>5, Zenon DEF Next, Step

\* The warnings of a TLS connection come from hellos that are in its streams,
\* however often the streams are parsed again, in whatever order the two
\* directions arrive and whatever allocation fails (tls_parser_parse).
THEOREM BridgeWarnings ==
  ASSUME Affine
  PROVE  Spec => []WarningsJustified
<1>1. Init => WarnInv
  BY DEF Init, WarnInv, ConnWarned
<1>2. WarnInv => WarningsJustified
  BY DEF WarnInv, ConnWarned, Warned, Justified, Arrived, WarningsJustified
<1>3. BridgeInv /\ BridgeInv' /\ WarnInv /\ [Next]_vars => WarnInv'
  BY WarnNext
<1> QED BY <1>1, <1>2, <1>3, BridgeSafe, PTL DEF Spec

-----------------------------------------------------------------------------
(***************************************************************************)
(* Sums over a finite set                                                  *)
(***************************************************************************)
One(s) == CHOOSE x \in s : TRUE
IsSum(g, f, S) ==
    g = [s \in SUBSET S |-> IF s = {} THEN 0 ELSE f[One(s)] + g[s \ {One(s)}]]

\* The recursion that a fold over a finite set stands for has a solution.
LEMMA SumExists ==
  ASSUME NEW S, IsFiniteSet(S), NEW f
  PROVE  \E g : IsSum(g, f, S)
<1> DEFINE N == Cardinality(S)
           Next1(g) == [s \in SUBSET S |-> IF s = {} THEN 0 ELSE f[One(s)] + g[s \ {One(s)}]]
           Up(g, n) == \A s \in SUBSET S : Cardinality(s) <= n => g[s] = Next1(g)[s]
           Good(n) == \E g : Up(g, n)
           Bad == {n \in Nat : ~Good(n)}
<1>1. N \in Nat
  BY FS_CardinalityType
<1>2. ASSUME NEW s \in SUBSET S
      PROVE  /\ IsFiniteSet(s) /\ Cardinality(s) \in Nat /\ Cardinality(s) <= N
             /\ Cardinality(s) = 0 <=> s = {}
             /\ s # {} => /\ One(s) \in s /\ s \ {One(s)} \in SUBSET S
                          /\ Cardinality(s \ {One(s)}) = Cardinality(s) - 1
  <2>1. IsFiniteSet(s) /\ Cardinality(s) <= N
    BY FS_Subset
  <2>2. Cardinality(s) \in Nat /\ (Cardinality(s) = 0 <=> s = {})
    BY <2>1, FS_CardinalityType, FS_EmptySet
  <2>3. s # {} => One(s) \in s
    BY DEF One
  <2>4. s # {} => Cardinality(s \ {One(s)}) = Cardinality(s) - 1
    BY <2>1, <2>3, FS_RemoveElement
  <2> QED BY <2>1, <2>2, <2>3, <2>4
<1>3. ASSUME NEW n \in Nat, NEW g, n = 0 \/ Up(g, n - 1)
      PROVE  Up(Next1(g), n)
  <2> SUFFICES ASSUME NEW s \in SUBSET S, Cardinality(s) <= n
               PROVE  Next1(g)[s] = Next1(Next1(g))[s]
    OBVIOUS
  <2>1. CASE s = {}
    BY <2>1
  <2>2. CASE s # {}
    <3> DEFINE t == s \ {One(s)}
    <3>1. t \in SUBSET S /\ Cardinality(t) \in Nat /\ Cardinality(t) <= n - 1 /\ n # 0
      BY <1>2, <2>2
    <3> HIDE DEF t
    <3>2. g[t] = Next1(g)[t]
      BY <1>3, <3>1
    <3>3. Next1(g)[s] = f[One(s)] + g[t]
      BY <2>2 DEF t
    <3> DEFINE h == Next1(g)
    <3> HIDE DEF h
    <3>4. Next1(h)[s] = f[One(s)] + h[t]
      BY <2>2 DEF t
    <3> QED BY <3>2, <3>3, <3>4 DEF h
  <2> QED BY <2>1, <2>2
<1>4. Bad = {}
  <2> SUFFICES ASSUME Bad # {} PROVE FALSE
    OBVIOUS
  <2>1. Bad \in SUBSET Nat
    OBVIOUS
  <2> HIDE DEF Bad
  <2>2. PICK n \in Bad : \A y \in Bad : n <= y
    BY <2>1, LeastNat, Zenon
  <2>3. n \in Nat /\ ~Good(n)
    BY DEF Bad
  <2> HIDE DEF Good, Up, Next1
  <2>4. CASE n = 0
    BY <1>3, <2>3, <2>4 DEF Good
  <2>5. CASE n # 0
    <3>1. n - 1 \in Nat /\ n - 1 \notin Bad
      BY <2>2, <2>3, <2>5
    <3>2. PICK g : Up(g, n - 1)
      BY <3>1 DEF Bad, Good
    <3> QED BY <1>3, <2>3, <3>2 DEF Good
  <2> QED BY <2>4, <2>5
<1>5. PICK g : Up(g, N)
  BY <1>1, <1>4
<1> DEFINE h == Next1(g)
<1>6. \A s \in SUBSET S : g[s] = h[s]
  BY <1>2, <1>5
<1>7. h = Next1(h)
  <2>1. ASSUME NEW s \in SUBSET S PROVE h[s] = Next1(h)[s]
    <3>1. CASE s = {}
      BY <3>1
    <3>2. CASE s # {}
      <4> DEFINE t == s \ {One(s)}
      <4>1. g[t] = h[t]
        BY <1>2, <1>6, <3>2
      <4>2. h[s] = f[One(s)] + g[t]
        BY <3>2
      <4> HIDE DEF h
      <4> QED BY <3>2, <4>1, <4>2
    <3> QED BY <3>1, <3>2
  <2> HIDE DEF h
  <2>2. Next1(h) = [s \in SUBSET S |-> Next1(h)[s]] /\ h = [s \in SUBSET S |-> h[s]]
    BY DEF h
  <2> QED BY <2>1, <2>2, Zenon
<1> HIDE DEF h
<1> QED BY <1>7 DEF IsSum

LEMMA Size == ASSUME NEW S, IsFiniteSet(S), NEW s \in SUBSET S PROVE Cardinality(s) \in Nat
BY FS_Subset, FS_CardinalityType

LEMMA Smaller ==
  ASSUME NEW S, IsFiniteSet(S), NEW s \in SUBSET S, NEW x \in s
  PROVE  /\ s \ {x} \in SUBSET S /\ Cardinality(s) \in Nat
         /\ Cardinality(s \ {x}) \in Nat /\ Cardinality(s \ {x}) < Cardinality(s)
<1>1. IsFiniteSet(s) /\ Cardinality(s) \in Nat
  BY FS_Subset, Size
<1>2. Cardinality(s \ {x}) = Cardinality(s) - 1 /\ Cardinality(s \ {x}) \in Nat
  BY <1>1, Size, FS_RemoveElement
<1> QED BY <1>1, <1>2

LEMMA SumEmpty == ASSUME NEW S, NEW f, NEW g, IsSum(g, f, S) PROVE g[{}] = 0
BY DEF IsSum

LEMMA SumOne ==
  ASSUME NEW S, NEW f, NEW g, IsSum(g, f, S), NEW s \in SUBSET S, NEW y \in s
  PROVE  One(s) \in s /\ g[s] = f[One(s)] + g[s \ {One(s)}]
<1>1. One(s) \in s
  BY DEF One
<1> QED BY <1>1 DEF IsSum

\* Sets of which no smallest one exists do not exist.
LEMMA SmallestSet ==
  ASSUME NEW S, IsFiniteSet(S), NEW B \in SUBSET (SUBSET S), B # {}
  PROVE  \E s \in B : \A x \in s : s \ {x} \notin B
<1> DEFINE Counts == {Cardinality(s) : s \in B}
<1>1. Counts \in SUBSET Nat /\ Counts # {}
  BY Size
<1>2. PICK n \in Counts : \A k \in Counts : n <= k
  <2> HIDE DEF Counts
  <2> QED BY <1>1, LeastNat, Zenon
<1>3. PICK s \in B : n = Cardinality(s)
  OBVIOUS
<1>4. ASSUME NEW x \in s, s \ {x} \in B PROVE FALSE
  <2>1. /\ Cardinality(s) \in Nat /\ Cardinality(s \ {x}) \in Nat
        /\ Cardinality(s \ {x}) < Cardinality(s)
    BY Smaller
  <2>2. n <= Cardinality(s \ {x})
    BY <1>2, <1>4
  <2> QED BY <1>3, <2>1, <2>2
<1> QED BY <1>4

LEMMA SumType ==
  ASSUME NEW S, IsFiniteSet(S), NEW f \in [S -> Int], NEW g, IsSum(g, f, S), NEW t \in SUBSET S
  PROVE  g[t] \in Int
<1> DEFINE B == {s \in SUBSET S : g[s] \notin Int}
<1>1. ASSUME NEW s \in B, \A x \in s : s \ {x} \notin B PROVE FALSE
  <2>1. s \in SUBSET S /\ g[s] \notin Int
    OBVIOUS
  <2>11. s \in SUBSET S
    OBVIOUS
  <2>2. PICK y \in s : TRUE
    BY <2>1, SumEmpty
  <2> DEFINE x == One(s)
  <2> HIDE DEF B
  <2>3. x \in s /\ g[s] = f[x] + g[s \ {x}]
    BY <2>11, <2>2, SumOne
  <2> HIDE DEF x
  <2>4. g[s \ {x}] \in Int /\ f[x] \in Int
    BY <1>1, <2>1, <2>3 DEF B
  <2> QED BY <2>1, <2>3, <2>4
<1>2. B \in SUBSET (SUBSET S)
  OBVIOUS
<1> HIDE DEF B
<1>3. B = {}
  BY <1>1, <1>2, SmallestSet
<1> QED BY <1>3 DEF B

\* Any element can be the first one.
LEMMA SumFirst ==
  ASSUME NEW S, IsFiniteSet(S), NEW f \in [S -> Int], NEW g, IsSum(g, f, S),
         NEW t \in SUBSET S, NEW x \in t
  PROVE  g[t] = f[x] + g[t \ {x}]
<1> DEFINE Ok(s) == \A y \in s : g[s] = f[y] + g[s \ {y}]
           B == {s \in SUBSET S : ~Ok(s)}
<1>1. ASSUME NEW s \in B, \A y \in s : s \ {y} \notin B PROVE FALSE
  <2>1. s \in SUBSET S /\ ~Ok(s)
    OBVIOUS
  <2>2. PICK y \in s : g[s] # f[y] + g[s \ {y}]
    BY <2>1
  <2> DEFINE z == One(s)
  <2>3. z \in s /\ g[s] = f[z] + g[s \ {z}]
    BY <2>1, SumOne
  <2> HIDE DEF z
  <2>4. z # y
    BY <2>2, <2>3
  <2> DEFINE a == s \ {z}
             b == s \ {y}
             c == a \ {y}
  <2>5. /\ a \in SUBSET S /\ b \in SUBSET S /\ c \in SUBSET S
        /\ y \in a /\ z \in b /\ b \ {z} = c /\ a \ {y} = c
    BY <2>1, <2>3, <2>4
  <2>6. a \notin B /\ b \notin B
    BY <1>1, <2>3
  <2>7. g[s] = f[z] + g[a] /\ g[s] # f[y] + g[b]
    BY <2>2, <2>3
  <2> HIDE DEF a, b, c
  <2>8. Ok(a) /\ Ok(b)
    BY <2>5, <2>6
  <2>9. g[a] = f[y] + g[c] /\ g[b] = f[z] + g[c]
    BY <2>5, <2>8
  <2>10. f[y] \in Int /\ f[z] \in Int /\ g[c] \in Int
    BY <2>1, <2>3, <2>5, SumType
  <2> QED BY <2>7, <2>9, <2>10
<1>2. B \in SUBSET (SUBSET S)
  OBVIOUS
<1> HIDE DEF B
<1>3. B = {}
  BY <1>1, <1>2, SmallestSet
<1> QED BY <1>3 DEF B

LEMMA SumSame ==
  ASSUME NEW S, IsFiniteSet(S), NEW f, NEW g, IsSum(g, f, S), NEW e, NEW h, IsSum(h, e, S),
         NEW t \in SUBSET S, \A x \in t : f[x] = e[x]
  PROVE  g[t] = h[t]
<1> DEFINE B == {s \in SUBSET t : g[s] # h[s]}
<1>1. ASSUME NEW s \in B, \A x \in s : s \ {x} \notin B PROVE FALSE
  <2>1. s \in SUBSET S /\ s \in SUBSET t /\ g[s] # h[s]
    OBVIOUS
  <2>11. s \in SUBSET S
    OBVIOUS
  <2>2. PICK y \in s : TRUE
    BY <2>1, SumEmpty
  <2> DEFINE x == One(s)
  <2> HIDE DEF B
  <2>3. x \in s /\ g[s] = f[x] + g[s \ {x}] /\ h[s] = e[x] + h[s \ {x}]
    <3>1. x \in s /\ g[s] = f[x] + g[s \ {x}]
      BY <2>11, <2>2, SumOne
    <3>2. h[s] = e[x] + h[s \ {x}]
      BY <2>11, <2>2, SumOne
    <3> QED BY <3>1, <3>2
  <2> HIDE DEF x
  <2>4. g[s \ {x}] = h[s \ {x}] /\ f[x] = e[x]
    BY <1>1, <2>1, <2>3 DEF B
  <2> QED BY <2>1, <2>3, <2>4
<1>2. B \in SUBSET (SUBSET S)
  OBVIOUS
<1> HIDE DEF B
<1>3. B = {}
  BY <1>1, <1>2, SmallestSet
<1> QED BY <1>3 DEF B

LEMMA SumIs ==
  ASSUME NEW S, IsFiniteSet(S), NEW f \in [S -> Int]
  PROVE  \E g : IsSum(g, f, S) /\ SumFunction(f) = g[S]
<1> DEFINE F(g) == [s \in SUBSET S |-> IF s = {} THEN 0 ELSE f[One(s)] + g[s \ {One(s)}]]
           u == CHOOSE g : g = F(g)
<1>1. PICK g : g = F(g)
  <2>1. PICK g : IsSum(g, f, S)
    BY SumExists
  <2> QED BY <2>1, Zenon DEF IsSum
<1>2. u = F(u)
  <2> HIDE DEF F
  <2> QED BY <1>1
<1>3. DOMAIN f = S
  OBVIOUS
<1>4. SumFunction(f) = u[S]
  BY <1>3 DEF SumFunction, SumFunctionOnSet, FoldFunctionOnSet, MapThenFoldSet, One
<1> HIDE DEF u
<1> QED BY <1>2, <1>4 DEF IsSum

\* What a change of one number makes of the sum.
LEMMA SumUpdate ==
  ASSUME NEW S, IsFiniteSet(S), NEW f \in [S -> Int], NEW q \in S, NEW v \in Int
  PROVE  SumFunction(f) \in Int /\ SumFunction([f EXCEPT ![q] = v]) = SumFunction(f) - f[q] + v
<1> DEFINE e == [f EXCEPT ![q] = v]
<1>1. e \in [S -> Int] /\ e[q] = v /\ \A x \in S \ {q} : f[x] = e[x]
  OBVIOUS
<1> HIDE DEF e
<1>2. PICK g : IsSum(g, f, S) /\ SumFunction(f) = g[S]
  BY SumIs
<1>3. PICK h : IsSum(h, e, S) /\ SumFunction(e) = h[S]
  BY <1>1, SumIs
<1>4. S \in SUBSET S /\ S \ {q} \in SUBSET S /\ f[q] \in Int
  OBVIOUS
<1>5. g[S] = f[q] + g[S \ {q}]
  BY <1>2, <1>4, SumFirst
<1>51. g[S \ {q}] \in Int /\ g[S] \in Int
  BY <1>2, <1>4, SumType
<1>6. h[S] = v + h[S \ {q}]
  BY <1>1, <1>3, <1>4, SumFirst
<1>7. g[S \ {q}] = h[S \ {q}]
  BY <1>1, <1>2, <1>3, <1>4, SumSame
<1>8. SumFunction(e) = SumFunction(f) - f[q] + v
  BY <1>2, <1>3, <1>4, <1>5, <1>51, <1>6, <1>7
<1> QED BY <1>2, <1>51, <1>8 DEF e

LEMMA SumZero ==
  ASSUME NEW S, IsFiniteSet(S)
  PROVE  SumFunction([q \in S |-> 0]) = 0
<1> DEFINE f == [q \in S |-> 0]
<1>1. f \in [S -> Int] /\ \A x \in S : f[x] = 0
  OBVIOUS
<1> HIDE DEF f
<1>2. PICK g : IsSum(g, f, S) /\ SumFunction(f) = g[S]
  BY <1>1, SumIs
<1> DEFINE B == {s \in SUBSET S : g[s] # 0}
<1>3. ASSUME NEW s \in B, \A x \in s : s \ {x} \notin B PROVE FALSE
  <2>1. s \in SUBSET S /\ g[s] # 0
    OBVIOUS
  <2>2. PICK y \in s : TRUE
    BY <1>2, <2>1, SumEmpty
  <2> DEFINE x == One(s)
  <2>3. x \in s /\ g[s] = f[x] + g[s \ {x}]
    BY <1>2, <2>1, <2>2, SumOne
  <2> HIDE DEF x
  <2>4. g[s \ {x}] = 0 /\ f[x] = 0
    BY <1>1, <1>3, <2>1, <2>3
  <2> QED BY <2>1, <2>3, <2>4
<1>4. B \in SUBSET (SUBSET S)
  OBVIOUS
<1> HIDE DEF B
<1>5. B = {}
  BY <1>3, <1>4, SmallestSet
<1> QED BY <1>2, <1>5 DEF B, f

-----------------------------------------------------------------------------
(***************************************************************************)
(* The alerts of a rule engine                                             *)
(***************************************************************************)
Engines(R, X) ==
    [rules : Seq(R), alerts : Seq(X), alert_count : Nat, alert_id_counter : Nat,
     generated : Nat, by_severity : [Severities -> Nat]]

\* what AlertsKept says of one engine, and the counter the ids are made from
Kept(e) ==
    /\ e.alert_count = Len(e.alerts)
    /\ Len(e.alerts) = Min({e.generated, MAX_ALERTS})
    /\ \A i \in DOMAIN e.alerts : e.alerts[i].id = e.generated - i + 1
    /\ e.alert_id_counter = e.generated
    /\ SumFunction(e.by_severity) = e.generated
KeptEngines(R, X) == {e \in Engines(R, X) : Kept(e)}

Graded(R) == \A r \in R : r.severity \in Severities
EngineOK(e) == \E R, X : Graded(R) /\ e \in KeptEngines(R, X)

Alert(i, rule, flow, text) == [id |-> i, rule |-> rule.id, flow |-> flow, text |-> text]

LEMMA MinOfTwo ==
  ASSUME NEW a \in Nat, NEW b \in Nat
  PROVE  Min({a, b}) = IF a <= b THEN a ELSE b
BY DEF Min

\* one alert more in a list, at the front
LEMMA AlertAdded ==
  ASSUME NEW X, NEW s \in Seq(X), NEW a \in X
  PROVE  /\ <<a>> \o s \in Seq(X) /\ Len(<<a>> \o s) = Len(s) + 1
         /\ (<<a>> \o s)[1] = a /\ \A i \in 1 .. Len(s) : (<<a>> \o s)[i + 1] = s[i]
OBVIOUS

\* and one less, at the end
LEMMA AlertDropped ==
  ASSUME NEW X, NEW s \in Seq(X), Len(s) > 1
  PROVE  /\ SubSeq(s, 1, Len(s) - 1) \in Seq(X) /\ Len(SubSeq(s, 1, Len(s) - 1)) = Len(s) - 1
         /\ \A i \in 1 .. Len(s) - 1 : SubSeq(s, 1, Len(s) - 1)[i] = s[i]
OBVIOUS

Engine(r, l, k, j, g, b) ==
    [rules |-> r, alerts |-> l, alert_count |-> k, alert_id_counter |-> j, generated |-> g,
     by_severity |-> b]
Is(e, r, l, k, j, g, b) == e = Engine(r, l, k, j, g, b)
Adds(c, e, x, y, z) == c = [e EXCEPT !.alert_id_counter = x, !.alerts = y, !.alert_count = z]
Limits(c, e, y, z) == c = [e EXCEPT !.alerts = y, !.alert_count = z]
Counts(c, e, x, y) == c = [e EXCEPT !.generated = x, !.by_severity = y]

LEMMA EngineAdded ==
  ASSUME NEW e, NEW r, NEW l, NEW k, NEW j, NEW g, NEW b, Is(e, r, l, k, j, g, b),
         NEW x, NEW y, NEW z, NEW c, Adds(c, e, x, y, z)
  PROVE  Is(c, r, y, z, x, g, b)
<1>0. e = Engine(r, l, k, j, g, b)
  BY DEF Is
<1> DEFINE e1 == [e EXCEPT !.alert_id_counter = x]
           e2 == [e1 EXCEPT !.alerts = y]
           e3 == [e2 EXCEPT !.alert_count = z]
<1>1. e1 = Engine(r, l, k, x, g, b)
  BY <1>0 DEF Engine
<1> HIDE DEF e1
<1>2. e2 = Engine(r, y, k, x, g, b)
  BY <1>1 DEF Engine
<1> HIDE DEF e2
<1>3. e3 = Engine(r, y, z, x, g, b)
  BY <1>2 DEF Engine
<1> QED BY <1>3, Zenon DEF e1, e2, Adds, Is

LEMMA EngineLimited ==
  ASSUME NEW e, NEW r, NEW l, NEW k, NEW j, NEW g, NEW b, Is(e, r, l, k, j, g, b),
         NEW y, NEW z, NEW c, Limits(c, e, y, z)
  PROVE  Is(c, r, y, z, j, g, b)
<1>0. e = Engine(r, l, k, j, g, b)
  BY DEF Is
<1> DEFINE e1 == [e EXCEPT !.alerts = y]
           e2 == [e1 EXCEPT !.alert_count = z]
<1>1. e1 = Engine(r, y, k, j, g, b)
  BY <1>0 DEF Engine
<1> HIDE DEF e1
<1>2. e2 = Engine(r, y, z, j, g, b)
  BY <1>1 DEF Engine
<1> QED BY <1>2, Zenon DEF e1, Limits, Is

LEMMA EngineCounted ==
  ASSUME NEW e, NEW r, NEW l, NEW k, NEW j, NEW g, NEW b, Is(e, r, l, k, j, g, b),
         NEW x, NEW y, NEW c, Counts(c, e, x, y)
  PROVE  Is(c, r, l, k, j, x, y)
<1>0. e = Engine(r, l, k, j, g, b)
  BY DEF Is
<1> DEFINE e1 == [e EXCEPT !.generated = x]
           e2 == [e1 EXCEPT !.by_severity = y]
<1>1. e1 = Engine(r, l, k, j, x, b)
  BY <1>0 DEF Engine
<1> HIDE DEF e1
<1>2. e2 = Engine(r, l, k, j, x, y)
  BY <1>1 DEF Engine
<1> QED BY <1>2, Zenon DEF e1, Counts, Is

\* create_alert counts the alert and keeps the newest MAX_ALERTS of the list
LEMMA CreateAlertKept ==
  ASSUME NEW R, NEW X, NEW e \in KeptEngines(R, X), NEW rule, rule.severity \in Severities,
         NEW flow, NEW text, \A i \in Nat : Alert(i, rule, flow, text) \in X
  PROVE  CreateAlert(e, rule, flow, text) \in KeptEngines(R, X)
<1> DEFINE n == e.generated
           a == Alert(n + 1, rule, flow, text)
           s == <<a>> \o e.alerts
           sev == rule.severity
           c == CreateAlert(e, rule, flow, text)
<1>1. /\ e \in Engines(R, X) /\ e.alert_count = Len(e.alerts)
      /\ Len(e.alerts) = Min({n, MAX_ALERTS})
      /\ \A i \in DOMAIN e.alerts : e.alerts[i].id = n - i + 1
      /\ e.alert_id_counter = n /\ SumFunction(e.by_severity) = n
  BY DEF KeptEngines, Kept
<1>2. /\ n \in Nat /\ e.alerts \in Seq(X) /\ e.by_severity \in [Severities -> Nat]
      /\ e.rules \in Seq(R) /\ e.alert_count \in Nat /\ sev \in Severities
  BY <1>1 DEF Engines
<1>3. a \in X /\ a.id = n + 1
  BY <1>2 DEF Alert
<1>4. /\ s \in Seq(X) /\ Len(s) = Len(e.alerts) + 1 /\ s[1] = a
      /\ \A i \in 1 .. Len(e.alerts) : s[i + 1] = e.alerts[i]
  <2> HIDE DEF a
  <2> QED BY <1>2, <1>3, AlertAdded
<1>5. Len(e.alerts) \in Nat /\ MAX_ALERTS \in Nat \ {0}
      /\ Len(e.alerts) = IF n <= MAX_ALERTS THEN n ELSE MAX_ALERTS
  BY <1>1, <1>2, MinOfTwo, RuleAssumption
<1>6. \A i \in 1 .. Len(s) : s[i].id = (n + 1) - i + 1
  <2> SUFFICES ASSUME NEW i \in 1 .. Len(s) PROVE s[i].id = (n + 1) - i + 1
    OBVIOUS
  <2> HIDE DEF s, a, n
  <2>1. CASE i = 1
    BY <1>2, <1>3, <1>4, <2>1
  <2>2. CASE i # 1
    <3>1. i - 1 \in 1 .. Len(e.alerts) /\ i - 1 \in DOMAIN e.alerts
      BY <1>2, <1>4, <1>5, <2>2
    <3>2. s[(i - 1) + 1] = e.alerts[i - 1] /\ e.alerts[i - 1].id = n - (i - 1) + 1
      BY <1>1, <1>4, <3>1
    <3>3. (i - 1) + 1 = i
      OBVIOUS
    <3> QED BY <1>2, <3>2, <3>3
  <2> QED BY <2>1, <2>2
<1> DEFINE full == Len(s) > MAX_ALERTS /\ Len(s) > 1
           t == IF full THEN Front(s) ELSE s
           by == [e.by_severity EXCEPT ![sev] = @ + 1]
           added == [rules |-> e.rules, alerts |-> s, alert_count |-> Len(s),
                     alert_id_counter |-> n + 1, generated |-> n, by_severity |-> e.by_severity]
           new == [rules |-> e.rules, alerts |-> t, alert_count |-> Len(t),
                   alert_id_counter |-> n + 1, generated |-> n + 1, by_severity |-> by]
<1>7. /\ t \in Seq(X) /\ Len(t) = Min({n + 1, MAX_ALERTS}) /\ Len(t) <= Len(s)
      /\ Len(t) = IF full THEN Len(s) - 1 ELSE Len(s)
      /\ \A i \in 1 .. Len(t) : t[i] = s[i]
  <2>1. n + 1 \in Nat /\ Min({n + 1, MAX_ALERTS}) = IF n + 1 <= MAX_ALERTS THEN n + 1 ELSE MAX_ALERTS
    BY <1>2, <1>5, MinOfTwo
  <2> HIDE DEF s, n
  <2>2. CASE full
    <3>1. t = SubSeq(s, 1, Len(s) - 1)
      BY <2>2 DEF Front
    <3>2. /\ t \in Seq(X) /\ Len(t) = Len(s) - 1
          /\ \A i \in 1 .. Len(t) : t[i] = s[i]
      <4>1. s \in Seq(X) /\ Len(s) > 1
        BY <1>4, <2>2
      <4> HIDE DEF t, full
      <4> QED BY <3>1, <4>1, AlertDropped
    <3> HIDE DEF t
    <3> QED BY <1>2, <1>4, <1>5, <2>1, <2>2, <3>2
  <2>3. CASE ~full
    <3>1. t = s
      BY <2>3
    <3> HIDE DEF t
    <3> QED BY <1>2, <1>4, <1>5, <2>1, <2>3, <3>1
  <2> QED BY <2>2, <2>3
<1>8. by \in [Severities -> Nat] /\ SumFunction(by) = n + 1
  <2> DEFINE f == e.by_severity
             v == f[sev] + 1
  <2>1. f \in [Severities -> Int] /\ v \in Int /\ f[sev] \in Int /\ v \in Nat
    BY <1>2
  <2>2. SumFunction([f EXCEPT ![sev] = v]) = SumFunction(f) - f[sev] + v
    <3> HIDE DEF f, v, sev
    <3> QED BY <1>2, <2>1, SumUpdate, RuleAssumption
  <2>3. by = [f EXCEPT ![sev] = v]
    BY <1>2
  <2>4. SumFunction(f) = n
    BY <1>1
  <2>5. by \in [Severities -> Nat]
    BY <1>2
  <2> HIDE DEF f, n, by
  <2>6. SumFunction(by) = n - f[sev] + (f[sev] + 1)
    BY <2>2, <2>3, <2>4
  <2> QED BY <1>2, <2>1, <2>5, <2>6
<1>9. c = new
  <2>1. e = Engine(e.rules, e.alerts, e.alert_count, e.alert_id_counter, n, e.by_severity)
    BY <1>1 DEF Engines, Engine
  <2>2. e.alert_id_counter + 1 = n + 1 /\ e.alert_count + 1 = Len(s)
    BY <1>1, <1>2, <1>4
  <2>3. c = [LimitAlerts([e EXCEPT !.alert_id_counter = n + 1, !.alerts = s,
                                   !.alert_count = e.alert_count + 1])
             EXCEPT !.generated = @ + 1, !.by_severity[sev] = @ + 1]
    BY <1>1 DEF CreateAlert, Alert
  <2> HIDE DEF s, n, c, sev
  <2>4. added = [e EXCEPT !.alert_id_counter = n + 1, !.alerts = s,
                          !.alert_count = e.alert_count + 1]
    <3> DEFINE x == [e EXCEPT !.alert_id_counter = n + 1, !.alerts = s,
                              !.alert_count = e.alert_count + 1]
    <3>1. Adds(x, e, n + 1, s, e.alert_count + 1)
      BY Zenon DEF Adds
    <3>2. Is(e, e.rules, e.alerts, e.alert_count, e.alert_id_counter, n, e.by_severity)
      BY <2>1, Zenon DEF Is
    <3> HIDE DEF x
    <3>3. Is(x, e.rules, s, e.alert_count + 1, n + 1, n, e.by_severity)
      BY <3>1, <3>2, EngineAdded
    <3>4. x = added
      BY <2>2, <3>3 DEF Engine, Is
    <3> QED BY <3>4, Zenon DEF x
  <2>5. added = Engine(e.rules, s, Len(s), n + 1, n, e.by_severity)
        /\ added.alerts = s /\ added.alert_count = Len(s)
    BY DEF Engine
  <2> HIDE DEF added
  <2> DEFINE m == LimitAlerts(added)
  <2>6. m = Engine(e.rules, t, Len(t), n + 1, n, e.by_severity)
    <3>1. CASE full
      <4>1. m = [added EXCEPT !.alerts = Front(added.alerts),
                              !.alert_count = added.alert_count - 1]
        BY <2>5, <3>1 DEF LimitAlerts
      <4>2. t = Front(s) /\ Len(t) = Len(s) - 1
        BY <1>7, <3>1
      <4> HIDE DEF t, full, m
      <4>3. m = [added EXCEPT !.alerts = t, !.alert_count = Len(t)]
        BY <2>5, <4>1, <4>2, Zenon
      <4>4. Limits(m, added, t, Len(t)) /\ Is(added, e.rules, s, Len(s), n + 1, n, e.by_severity)
        BY <2>5, <4>3, Zenon DEF Limits, Is
      <4>5. Is(m, e.rules, t, Len(t), n + 1, n, e.by_severity)
        BY <4>4, EngineLimited
      <4> QED BY <4>5, Zenon DEF Is
    <3>2. CASE ~full
      <4>1. m = added
        BY <2>5, <3>2 DEF LimitAlerts
      <4>2. t = s
        BY <3>2
      <4> HIDE DEF t, full, m
      <4> QED BY <2>5, <4>1, <4>2, Zenon
    <3> QED BY <3>1, <3>2
  <2>7. c = [m EXCEPT !.generated = m.generated + 1,
                      !.by_severity = [m.by_severity EXCEPT ![sev] = m.by_severity[sev] + 1]]
    BY <2>3, <2>4
  <2> HIDE DEF t, m
  <2>8. m.generated = n /\ m.by_severity = e.by_severity
    BY <2>6 DEF Engine
  <2>9. c = [m EXCEPT !.generated = n + 1, !.by_severity = by]
    BY <2>7, <2>8, Zenon
  <2> HIDE DEF by
  <2>10. c = Engine(e.rules, t, Len(t), n + 1, n + 1, by)
    <3>1. Counts(c, m, n + 1, by) /\ Is(m, e.rules, t, Len(t), n + 1, n, e.by_severity)
      BY <2>6, <2>9, Zenon DEF Counts, Is
    <3>2. Is(c, e.rules, t, Len(t), n + 1, n + 1, by)
      BY <3>1, EngineCounted
    <3> QED BY <3>2, Zenon DEF Is
  <2> QED BY <2>10 DEF Engine
<1> HIDE DEF c, t, by, s, n
<1>10. new \in Engines(R, X)
  BY <1>2, <1>7, <1>8 DEF Engines
<1>11. Kept(new)
  <2>1. \A i \in DOMAIN t : t[i].id = (n + 1) - i + 1
    <3> SUFFICES ASSUME NEW i \in DOMAIN t PROVE t[i].id = (n + 1) - i + 1
      OBVIOUS
    <3>1. i \in 1 .. Len(t) /\ i \in 1 .. Len(s)
      BY <1>4, <1>5, <1>7
    <3> QED BY <1>6, <1>7, <3>1
  <2> QED BY <1>7, <1>8, <2>1 DEF Kept
<1> HIDE DEF new
<1> QED BY <1>9, <1>10, <1>11 DEF KeptEngines, c

LEMMA MoreAlerts ==
  ASSUME NEW R, NEW X, NEW Y, X \subseteq Y PROVE KeptEngines(R, X) \subseteq KeptEngines(R, Y)
<1>1. Seq(X) \subseteq Seq(Y)
  OBVIOUS
<1> QED BY <1>1 DEF KeptEngines, Engines

\* one alert, whatever raised it
LEMMA CreateAlertOK ==
  ASSUME NEW e, EngineOK(e), NEW rule, rule.severity \in Severities, NEW flow, NEW text
  PROVE  EngineOK(CreateAlert(e, rule, flow, text))
<1>1. PICK R, X : Graded(R) /\ e \in KeptEngines(R, X)
  BY DEF EngineOK
<1> DEFINE Y == X \cup {Alert(i, rule, flow, text) : i \in Nat}
<1>2. X \subseteq Y /\ \A i \in Nat : Alert(i, rule, flow, text) \in Y
  OBVIOUS
<1> HIDE DEF Y
<1>3. e \in KeptEngines(R, Y)
  BY <1>1, <1>2, MoreAlerts
<1>4. CreateAlert(e, rule, flow, text) \in KeptEngines(R, Y)
  BY <1>2, <1>3, CreateAlertKept
<1> QED BY <1>1, <1>4, Zenon DEF EngineOK

\* the loop over the rules of an engine
LEMMA RaiseAlertsOK ==
  ASSUME NEW e, EngineOK(e), NEW matched, NEW flow, NEW text
  PROVE  EngineOK(RaiseAlerts(e, matched, flow, text))
<1>a. PICK R, X : Graded(R) /\ e \in KeptEngines(R, X)
  BY DEF EngineOK
<1> DEFINE Y == X \cup {Alert(i, r, flow, text) : i \in Nat, r \in R}
<1>b. X \subseteq Y /\ \A r \in R : \A i \in Nat : Alert(i, r, flow, text) \in Y
  OBVIOUS
<1> HIDE DEF Y
<1> DEFINE n == Len(e.rules)
           After(x, k) == IF e.rules[k] \in matched
                          THEN CreateAlert(x, e.rules[k], flow, text) ELSE x
           Loop(g) == [k \in 0 .. n |-> IF k = 0 THEN e ELSE After(g[k - 1], k)]
           C == KeptEngines(R, Y)
<1>0. e \in C
  BY <1>a, <1>b, MoreAlerts
<1>c. e.rules \in Seq(R)
  BY <1>0 DEF KeptEngines, Engines
<1>1. n \in Nat /\ \A k \in 1 .. n : e.rules[k] \in R
  BY <1>c
<1>2. ASSUME NEW x \in C, NEW k \in 1 .. n PROVE After(x, k) \in C
  <2>1. e.rules[k] \in R /\ e.rules[k].severity \in Severities
    BY <1>a, <1>1 DEF Graded
  <2>2. \A i \in Nat : Alert(i, e.rules[k], flow, text) \in Y
    BY <1>b, <2>1
  <2>3. CreateAlert(x, e.rules[k], flow, text) \in C
    BY <2>1, <2>2, CreateAlertKept
  <2> HIDE DEF C
  <2> QED BY <2>3
<1>3. RaiseAlerts(e, matched, flow, text) = (CHOOSE g : g = Loop(g))[n]
  BY DEF RaiseAlerts
<1> HIDE DEF n, After, C
<1>4. \E g : g = Loop(g)
  <2> DEFINE st == [x \in C \X (1 .. n) |-> After(x[1], x[2])]
  <2>1. st \in [C \X (1 .. n) -> C]
    BY <1>2
  <2>2. \A x \in C, k \in 1 .. n : st[<<x, k>>] = After(x, k)
    OBVIOUS
  <2> HIDE DEF st
  <2>21. e \in C /\ Passes(st, n, C)
    BY <1>0, <2>1 DEF Passes
  <2>22. PICK g : Ran(g, n, C, e, st)
    BY <1>1, <2>21, LoopExists
  <2>3. g \in [0 .. n -> C] /\ g[0] = e /\ \A k \in 1 .. n : g[k] = st[<<g[k - 1], k>>]
    BY <2>22 DEF Ran
  <2>4. ASSUME NEW k \in 0 .. n PROVE g[k] = IF k = 0 THEN e ELSE After(g[k - 1], k)
    <3>1. CASE k = 0
      BY <2>3, <3>1
    <3>2. CASE k # 0
      <4>1. k \in 1 .. n /\ k - 1 \in 0 .. n
        BY <1>1, <3>2
      <4> QED BY <2>2, <2>3, <3>2, <4>1
    <3> QED BY <3>1, <3>2
  <2>5. g = [k \in 0 .. n |-> g[k]]
    BY <2>3
  <2>6. g = Loop(g)
    BY <2>4, <2>5, Zenon
  <2> QED BY <2>6
<1> DEFINE u == CHOOSE g : g = Loop(g)
<1>5. u = Loop(u)
  <2> HIDE DEF Loop
  <2> QED BY <1>4
<1> HIDE DEF u
<1>6. u[0] \in C
  <2>1. 0 \in 0 .. n
    BY <1>1
  <2>2. u[0] = e
    BY <1>5, <2>1
  <2> QED BY <1>0, <2>2
<1>7. ASSUME NEW k \in 1 .. n, u[k - 1] \in C PROVE u[k] \in C
  <2>1. k \in 0 .. n /\ k # 0
    BY <1>1
  <2>2. u[k] = After(u[k - 1], k)
    BY <1>5, <2>1
  <2> QED BY <1>2, <1>7, <2>2
<1>8. u[n] \in C
  BY <1>1, <1>6, <1>7, LoopStays
<1>9. RaiseAlerts(e, matched, flow, text) \in KeptEngines(R, Y)
  BY <1>3, <1>8 DEF u, C
<1> QED BY <1>a, <1>9, Zenon DEF EngineOK

\* the rules an engine is created with
LEMMA ConditionsLoaded ==
  ASSUME NEW lost, NEW k \in DOMAIN Builtin
  PROVE  LoadConditions(Builtin[k], lost).severity \in Severities
<1> DEFINE r == Builtin[k]
<1>1. IsRule(r)
  BY RuleAssumption DEF Range
<1>2. /\ r = [id |-> r.id, proto |-> r.proto, severity |-> r.severity, check |-> r.check,
               qtype |-> r.qtype, conds |-> r.conds]
      /\ r.severity \in Severities
  BY <1>1 DEF IsRule
<1> HIDE DEF r
<1>3. "severity" \in DOMAIN r
  BY <1>2
<1>4. \A x : [r EXCEPT !.conds = x].severity = r.severity
  BY <1>3
<1>5. LoadConditions(r, lost) = r \/ \E x : LoadConditions(r, lost) = [r EXCEPT !.conds = x]
  BY Zenon DEF LoadConditions
<1> QED BY <1>2, <1>4, <1>5 DEF r

LEMMA RulesLoaded ==
  ASSUME NEW lost
  PROVE  \E R : Graded(R) /\ LoadBuiltinRules(lost) \in Seq(R)
<1> DEFINE R == {LoadConditions(Builtin[k], lost) : k \in DOMAIN Builtin}
           n == Len(Builtin)
           After(x, k) == IF <<Builtin[k].id, 0>> \in lost THEN x
                          ELSE <<LoadConditions(Builtin[k], lost)>> \o x
           Loop(g) == [k \in 0 .. n |-> IF k = 0 THEN << >> ELSE After(g[k - 1], k)]
           C == Seq(R)
<1>a. Graded(R)
  BY ConditionsLoaded DEF Graded
<1>1. n \in Nat /\ \A k \in 1 .. n : LoadConditions(Builtin[k], lost) \in R
  BY RuleAssumption
<1> HIDE DEF R
<1>0. << >> \in C
  OBVIOUS
<1>2. ASSUME NEW x \in C, NEW k \in 1 .. n PROVE After(x, k) \in C
  <2> DEFINE r == LoadConditions(Builtin[k], lost)
  <2>1. r \in R
    BY <1>1
  <2> HIDE DEF r
  <2>2. <<r>> \o x \in C
    BY <2>1, AlertAdded
  <2> QED BY <2>2 DEF r
<1>3. LoadBuiltinRules(lost) = (CHOOSE g : g = Loop(g))[n]
  BY DEF LoadBuiltinRules
<1> HIDE DEF n, After, C
<1>4. \E g : g = Loop(g)
  <2> DEFINE st == [x \in C \X (1 .. n) |-> After(x[1], x[2])]
  <2>1. st \in [C \X (1 .. n) -> C]
    BY <1>2
  <2>2. \A x \in C, k \in 1 .. n : st[<<x, k>>] = After(x, k)
    OBVIOUS
  <2> HIDE DEF st
  <2>21. << >> \in C /\ Passes(st, n, C)
    BY <1>0, <2>1 DEF Passes
  <2>22. PICK g : Ran(g, n, C, << >>, st)
    BY <1>1, <2>21, LoopExists
  <2>3. g \in [0 .. n -> C] /\ g[0] = << >> /\ \A k \in 1 .. n : g[k] = st[<<g[k - 1], k>>]
    BY <2>22 DEF Ran
  <2>4. ASSUME NEW k \in 0 .. n PROVE g[k] = IF k = 0 THEN << >> ELSE After(g[k - 1], k)
    <3>1. CASE k = 0
      BY <2>3, <3>1
    <3>2. CASE k # 0
      <4>1. k \in 1 .. n /\ k - 1 \in 0 .. n
        BY <1>1, <3>2
      <4> QED BY <2>2, <2>3, <3>2, <4>1
    <3> QED BY <3>1, <3>2
  <2>5. g = [k \in 0 .. n |-> g[k]]
    BY <2>3
  <2>6. g = Loop(g)
    BY <2>4, <2>5, Zenon
  <2> QED BY <2>6
<1> DEFINE u == CHOOSE g : g = Loop(g)
<1>5. u = Loop(u)
  <2> HIDE DEF Loop
  <2> QED BY <1>4
<1> HIDE DEF u
<1>6. u[0] \in C
  <2>1. 0 \in 0 .. n
    BY <1>1
  <2>2. u[0] = << >>
    BY <1>5, <2>1
  <2> QED BY <1>0, <2>2
<1>7. ASSUME NEW k \in 1 .. n, u[k - 1] \in C PROVE u[k] \in C
  <2>1. k \in 0 .. n /\ k # 0
    BY <1>1
  <2>2. u[k] = After(u[k - 1], k)
    BY <1>5, <2>1
  <2> QED BY <1>2, <1>7, <2>2
<1>8. u[n] \in C
  BY <1>1, <1>6, <1>7, LoopStays
<1>9. LoadBuiltinRules(lost) \in Seq(R)
  BY <1>3, <1>8 DEF u, C
<1> QED BY <1>a, <1>9

LEMMA NewEngineOK == ASSUME NEW lost PROVE EngineOK(NewEngine(lost))
<1>1. PICK R : Graded(R) /\ LoadBuiltinRules(lost) \in Seq(R)
  BY RulesLoaded
<1> DEFINE e == NewEngine(lost)
           z == [s \in Severities |-> 0]
<1>2. SumFunction(z) = 0
  BY SumZero, RuleAssumption
<1>3. z \in [Severities -> Nat]
  OBVIOUS
<1> HIDE DEF z
<1>4. Min({0, MAX_ALERTS}) = 0
  BY MinOfTwo, RuleAssumption
<1>5. e \in Engines(R, {})
  BY <1>1, <1>3 DEF NewEngine, Engines, z
<1>6. Kept(e)
  BY <1>2, <1>4 DEF NewEngine, Kept, z
<1> HIDE DEF e
<1>7. e \in KeptEngines(R, {})
  BY <1>5, <1>6 DEF KeptEngines
<1> QED BY <1>1, <1>7, Zenon DEF EngineOK, e

LEMMA EngineThere == ASSUME NEW e, EngineOK(e) PROVE e # NoEngine
<1>1. PICK R, X : e \in Engines(R, X)
  BY DEF EngineOK, KeptEngines
<1>2. DOMAIN e = {"rules", "alerts", "alert_count", "alert_id_counter", "generated",
                  "by_severity"}
  BY <1>1 DEF Engines
<1>3. DOMAIN NoEngine = {"null"}
  BY DEF NoEngine
<1>4. "rules" # "null"
  OBVIOUS
<1> QED BY <1>2, <1>3, <1>4

Engined(e) == e # NoEngine => EngineOK(e)

\* the engine x of lcore l after a packet, with or without a detector
Equips(l, x, b) ==
    /\ DOMAIN rule_engine' = Lcores /\ DOMAIN behavioral_detector' = Lcores
    /\ rule_engine'[l] = x /\ behavioral_detector'[l] = b
    /\ \A k \in Lcores \ {l} : /\ rule_engine'[k] = rule_engine[k]
                               /\ behavioral_detector'[k] = behavioral_detector[k]
    /\ Engined(x) /\ (b => x # NoEngine)

AlertInv ==
    /\ DOMAIN rule_engine = Lcores /\ DOMAIN behavioral_detector = Lcores
    /\ \A l \in Lcores :
          Engined(rule_engine[l]) /\ (behavioral_detector[l] => rule_engine[l] # NoEngine)

LEMMA BehavesOK ==
  ASSUME NEW x, Engined(x), NEW b, NEW f, NEW alert
  PROVE  /\ Engined(Behaves(x, b, f, alert))
         /\ x # NoEngine => Behaves(x, b, f, alert) # NoEngine
<1>1. BehavioralRule.severity \in Severities
  BY RuleAssumption DEF BehavioralRule, Rule
<1>2. CASE b /\ alert /\ x # NoEngine
  <2>1. EngineOK(CreateAlert(x, BehavioralRule, f, NoText))
    <3>1. EngineOK(x)
      BY <1>2 DEF Engined
    <3> QED BY <1>1, <3>1, CreateAlertOK
  <2>2. Behaves(x, b, f, alert) = CreateAlert(x, BehavioralRule, f, NoText)
    BY <1>2 DEF Behaves
  <2>3. EngineOK(Behaves(x, b, f, alert))
    BY <2>1, <2>2, Zenon
  <2>4. Behaves(x, b, f, alert) # NoEngine
    BY <2>3, EngineThere
  <2> QED BY <2>3, <2>4 DEF Engined
<1>3. CASE ~(b /\ alert /\ x # NoEngine)
  <2>1. Behaves(x, b, f, alert) = x
    BY <1>3 DEF Behaves
  <2> QED BY <2>1, Zenon
<1> QED BY <1>2, <1>3

LEMMA AlertStep ==
  ASSUME AlertInv, NEW l \in Lcores, NEW x, NEW b, Equips(l, x, b)
  PROVE  AlertInv'
<1>1. /\ DOMAIN rule_engine' = Lcores /\ DOMAIN behavioral_detector' = Lcores
      /\ rule_engine'[l] = x /\ behavioral_detector'[l] = b
      /\ \A k \in Lcores \ {l} : /\ rule_engine'[k] = rule_engine[k]
                                 /\ behavioral_detector'[k] = behavioral_detector[k]
  BY Zenon DEF Equips
<1>2. Engined(x) /\ (b => x # NoEngine)
  BY DEF Equips
<1>3. ASSUME NEW k \in Lcores
      PROVE  Engined(rule_engine'[k]) /\ (behavioral_detector'[k] => rule_engine'[k] # NoEngine)
  <2>1. CASE k = l
    BY <1>1, <1>2, <2>1, Zenon
  <2>2. CASE k # l
    <3>1. k \in Lcores \ {l}
      BY <2>2
    <3>2. /\ rule_engine'[k] = rule_engine[k]
          /\ behavioral_detector'[k] = behavioral_detector[k]
      BY <1>1, <3>1
    <3> QED BY <3>2, Zenon DEF AlertInv
  <2> QED BY <2>1, <2>2
<1> QED BY <1>1, <1>3, Zenon DEF AlertInv

LEMMA HttpAlerts ==
  ASSUME AlertInv, NEW l \in Lcores, NEW f, NEW d, NEW mem, NEW lost, NEW alert,
         InspectHttpFlow(l, f, d, mem, lost, alert)
  PROVE  AlertInv'
<1> DEFINE p == HttpParsed(f, d, mem)
           fresh == rule_engine[l] = NoEngine /\ p # NoParser
           e == IF p = NoParser THEN rule_engine[l] ELSE EngineFor(l, mem, lost)
           tx == TxToInspect(p, d)
           b == IF fresh THEN e # NoEngine /\ "behavioral" \in mem ELSE behavioral_detector[l]
           x == IF e # NoEngine /\ tx # 0
                THEN InspectHttp(e, f, p.conn.transactions[tx].request.uri) ELSE e
           y == Behaves(x, b, f, alert)
<1>1. /\ rule_engine' = [rule_engine EXCEPT ![l] = y]
      /\ behavioral_detector' = [behavioral_detector EXCEPT ![l] = b]
  BY Zenon DEF InspectHttpFlow
<1>2. Engined(rule_engine[l]) /\ (behavioral_detector[l] => rule_engine[l] # NoEngine)
  BY Zenon DEF AlertInv
<1> HIDE DEF p
<1>3. Engined(e) /\ (rule_engine[l] # NoEngine => e = rule_engine[l])
  <2>1. EngineOK(NewEngine(lost))
    BY NewEngineOK
  <2> QED BY <1>2, <2>1, Zenon DEF EngineFor, Engined
<1>4. b => e # NoEngine
  <2> HIDE DEF e
  <2>1. CASE fresh
    BY <2>1, Zenon
  <2>2. CASE ~fresh
    <3>1. behavioral_detector[l] => e # NoEngine
      BY <1>2, <1>3, Zenon
    <3> QED BY <2>2, <3>1, Zenon
  <2> QED BY <2>1, <2>2
<1> HIDE DEF e, b, tx
<1>5. Engined(x) /\ (e # NoEngine => x # NoEngine)
  <2>1. CASE e # NoEngine /\ tx # 0
    <3>1. EngineOK(e)
      BY <1>3, <2>1 DEF Engined
    <3>2. EngineOK(InspectHttp(e, f, p.conn.transactions[tx].request.uri))
      BY <3>1, RaiseAlertsOK DEF InspectHttp
    <3>3. EngineOK(x)
      BY <2>1, <3>2, Zenon
    <3> HIDE DEF x
    <3> QED BY <3>3, EngineThere DEF Engined
  <2>2. CASE ~(e # NoEngine /\ tx # 0)
    BY <1>3, <2>2, Zenon
  <2> QED BY <2>1, <2>2
<1> HIDE DEF x
<1>6. Engined(y) /\ (b => y # NoEngine)
  <2>1. Engined(y) /\ (x # NoEngine => y # NoEngine)
    BY <1>5, BehavesOK
  <2> QED BY <1>4, <1>5, <2>1, Zenon
<1> HIDE DEF y
<1>7. /\ DOMAIN rule_engine' = Lcores /\ DOMAIN behavioral_detector' = Lcores
      /\ rule_engine'[l] = y /\ behavioral_detector'[l] = b
      /\ \A k \in Lcores \ {l} : /\ rule_engine'[k] = rule_engine[k]
                                 /\ behavioral_detector'[k] = behavioral_detector[k]
  BY <1>1 DEF AlertInv
<1>8. Equips(l, y, b)
  BY <1>6, <1>7, Zenon DEF Equips
<1> QED BY <1>8, AlertStep

LEMMA TlsAlerts ==
  ASSUME AlertInv, NEW l \in Lcores, NEW f, NEW d, NEW mem, NEW alert,
         InspectTlsFlow(l, f, d, mem, alert)
  PROVE  AlertInv'
<1> DEFINE p == TlsParsed(f, d, mem)
           e == rule_engine[l]
           b == behavioral_detector[l]
           x == IF p # NoParser /\ e # NoEngine /\ p.conn.client_hello # NoHello
                THEN InspectTls(e, f, p.conn, NoHello) ELSE e
           y == Behaves(x, b, f, alert)
<1>1. rule_engine' = [rule_engine EXCEPT ![l] = y] /\ behavioral_detector' = behavioral_detector
  BY Zenon DEF InspectTlsFlow
<1>2. Engined(e) /\ (b => e # NoEngine)
  BY Zenon DEF AlertInv
<1>3. behavioral_detector'[l] = b
  BY <1>1
<1> HIDE DEF p, e, b
<1>5. Engined(x) /\ (e # NoEngine => x # NoEngine)
  <2> DEFINE cond == p # NoParser /\ e # NoEngine /\ p.conn.client_hello # NoHello
  <2>1. CASE cond
    <3>1. EngineOK(e)
      BY <1>2, <2>1 DEF Engined
    <3>2. EngineOK(InspectTls(e, f, p.conn, NoHello))
      BY <3>1, RaiseAlertsOK DEF InspectTls
    <3>3. EngineOK(x)
      BY <2>1, <3>2, Zenon
    <3> HIDE DEF x
    <3> QED BY <3>3, EngineThere DEF Engined
  <2>2. CASE ~cond
    BY <1>2, <2>2, Zenon
  <2> QED BY <2>1, <2>2
<1> HIDE DEF x
<1>6. Engined(y) /\ (b => y # NoEngine)
  <2>1. Engined(y) /\ (x # NoEngine => y # NoEngine)
    BY <1>5, BehavesOK
  <2> QED BY <1>2, <1>5, <2>1, Zenon
<1> HIDE DEF y
<1>7. /\ DOMAIN rule_engine' = Lcores /\ DOMAIN behavioral_detector' = Lcores
      /\ rule_engine'[l] = y
      /\ \A k \in Lcores \ {l} : /\ rule_engine'[k] = rule_engine[k]
                                 /\ behavioral_detector'[k] = behavioral_detector[k]
  BY <1>1 DEF AlertInv
<1>8. Equips(l, y, b)
  BY <1>3, <1>6, <1>7, Zenon DEF Equips
<1> QED BY <1>8, AlertStep

LEMMA OtherAlerts ==
  ASSUME AlertInv, NEW l \in Lcores, NEW f, NEW alert, InspectOther(l, f, alert)
  PROVE  AlertInv'
<1> DEFINE e == rule_engine[l]
           b == behavioral_detector[l]
           y == Behaves(e, b, f, alert)
<1>1. rule_engine' = [rule_engine EXCEPT ![l] = y] /\ behavioral_detector' = behavioral_detector
  BY Zenon DEF InspectOther
<1>2. Engined(e) /\ (b => e # NoEngine)
  BY Zenon DEF AlertInv
<1>3. behavioral_detector'[l] = b
  BY <1>1
<1> HIDE DEF e, b
<1>6. Engined(y) /\ (b => y # NoEngine)
  <2>1. Engined(y) /\ (e # NoEngine => y # NoEngine)
    BY <1>2, BehavesOK
  <2> QED BY <1>2, <2>1, Zenon
<1> HIDE DEF y
<1>7. /\ DOMAIN rule_engine' = Lcores /\ DOMAIN behavioral_detector' = Lcores
      /\ rule_engine'[l] = y
      /\ \A k \in Lcores \ {l} : /\ rule_engine'[k] = rule_engine[k]
                                 /\ behavioral_detector'[k] = behavioral_detector[k]
  BY <1>1 DEF AlertInv
<1>8. Equips(l, y, b)
  BY <1>3, <1>6, <1>7, Zenon DEF Equips
<1> QED BY <1>8, AlertStep

LEMMA AlertNext == ASSUME AlertInv, [Next]_vars PROVE AlertInv'
<1>1. CASE UNCHANGED <<rule_engine, behavioral_detector>>
  BY <1>1 DEF AlertInv
<1>2. CASE UNCHANGED vars
  BY <1>1, <1>2 DEF vars
<1>3. ASSUME NEW l, NEW f, NEW d, NEW n, NEW part, NEW payload,
             Receive(l, f, d, n, part, payload)
      PROVE  AlertInv'
  BY <1>1, <1>3 DEF Receive
<1>4. ASSUME NEW l, SetProto(l) PROVE AlertInv'
  BY <1>1, <1>4 DEF SetProto
<1>5. ASSUME NEW l \in Lcores, Inspect(l) PROVE AlertInv'
  <2>1. \E f, d, mem, lost, alert :
          \/ InspectHttpFlow(l, f, d, mem, lost, alert)
          \/ InspectTlsFlow(l, f, d, mem, alert)
          \/ InspectOther(l, f, alert)
    BY <1>5, ZenonT(60) DEF Inspect
  <2> QED BY <2>1, HttpAlerts, TlsAlerts, OtherAlerts, Zenon
<1> QED BY <1>2, <1>3, <1>4, <1>5, Zenon DEF Next, Step

\* The list of a rule engine holds its newest alerts without a gap and at most
\* max_alerts of them, each counted under one severity, and a behavioral
\* detector has an engine (create_alert, process_packet), whatever raises the
\* alerts, whatever allocation fails and whichever lcore a packet comes to.
THEOREM BridgeAlerts == Spec => []AlertsKept
<1>1. Init => AlertInv
  <2> SUFFICES ASSUME Init PROVE AlertInv
    OBVIOUS
  <2>1. /\ DOMAIN rule_engine = Lcores /\ DOMAIN behavioral_detector = Lcores
        /\ \A l \in Lcores : rule_engine[l] = NoEngine /\ behavioral_detector[l] = FALSE
    BY DEF Init
  <2> QED BY <2>1, Zenon DEF AlertInv, Engined
<1>2. AlertInv => AlertsKept
  <2> SUFFICES ASSUME AlertInv, NEW l \in Lcores
               PROVE  /\ behavioral_detector[l] => rule_engine[l] # NoEngine
                      /\ rule_engine[l] # NoEngine => Kept(rule_engine[l])
    BY Zenon DEF AlertsKept, Kept
  <2>1. Engined(rule_engine[l]) /\ (behavioral_detector[l] => rule_engine[l] # NoEngine)
    BY Zenon DEF AlertInv
  <2>2. \A x : EngineOK(x) => Kept(x)
    BY Zenon DEF EngineOK, KeptEngines
  <2> QED BY <2>1, <2>2, Zenon DEF Engined
<1>3. AlertInv /\ [Next]_vars => AlertInv'
  BY AlertNext
<1> QED BY <1>1, <1>2, <1>3, PTL DEF Spec
=============================================================================
