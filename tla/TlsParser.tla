------------------------------ MODULE TlsParser ------------------------------
(***************************************************************************)
(* The TLS handshake parser (src/tls_parser.c).  As for HTTP, the whole    *)
(* reassembled buffer of a direction is parsed again with every packet of  *)
(* that direction, into the same tls_conn_t.                               *)
(*                                                                         *)
(* A buffer is its complete TLS records and whether part of one follows.   *)
(* A record is [content, oversize, hs, fits, version, words, weak]: the    *)
(* content type, record_len > 16384, the handshake type, whether the       *)
(* lengths inside are within the record (every early return -1 of the      *)
(* message parsers), the version of a hello, the patterns its server name  *)
(* and its JA3 hash contain, and tls_is_weak_cipher of its cipher suite.   *)
(* The statistics of the connection are left out: nothing reads them.      *)
(***************************************************************************)
EXTENDS Integers, SequencesExt

CONSTANTS
    NoHello,    \* a null client_hello or server_hello
    TLS13       \* TLS_VERSION_TLS13

Hello(kind, version, words, weak) ==
    [content |-> "handshake", oversize |-> FALSE, hs |-> kind, fits |-> TRUE,
     version |-> version, words |-> words, weak |-> weak]
OtherRecord(content, hs) == [Hello(hs, 0, {}, FALSE) EXCEPT !.content = content]
BadLength(rec) == [rec EXCEPT !.fits = FALSE]
Oversize(rec) == [rec EXCEPT !.oversize = TRUE]

\* tls_parser_init
NewTlsConn ==
    [client_hello |-> NoHello, server_hello |-> NoHello,
     client_cert_seen |-> FALSE, server_cert_seen |-> FALSE,
     weak_cipher |-> FALSE, version_downgrade |-> FALSE,
     expired_cert |-> FALSE, self_signed_cert |-> FALSE,
     handshake_completed |-> FALSE]

\* parse_client_hello: the new hello takes the place of the last one
ParseClientHello(conn, rec, mem) ==
    IF rec.fits /\ "client_hello" \in mem
    THEN [conn EXCEPT !.client_hello =
             [version |-> rec.version,
              words |-> IF "sni" \in mem THEN rec.words ELSE {}]]
    ELSE conn

\* parse_server_hello; the two warnings are never taken back
ParseServerHello_mut(conn, rec, mem) ==
    IF rec.fits /\ "server_hello" \in mem
    THEN [conn EXCEPT
             !.server_hello = [version |-> rec.version],
             !.weak_cipher = rec.weak,
             !.version_downgrade = conn.client_hello # NoHello /\ rec.version < TLS13]
    ELSE conn

ParseServerHello(conn, rec, mem) ==
    IF rec.fits /\ "server_hello" \in mem
    THEN [conn EXCEPT
             !.server_hello = [version |-> rec.version],
             !.weak_cipher = @ \/ rec.weak,
             !.version_downgrade = @ \/
                 (/\ conn.client_hello # NoHello
                  /\ conn.client_hello.version >= TLS13
                  /\ rec.version < TLS13)]
    ELSE conn

\* parse_certificate: nothing of the certificate is looked at
ParseCertificate(conn, rec, dir, mem) ==
    IF ~rec.fits \/ "certificate" \notin mem THEN conn
    ELSE IF dir = "ts" THEN [conn EXCEPT !.client_cert_seen = TRUE]
    ELSE [conn EXCEPT !.server_cert_seen = TRUE]

ParseHandshake(conn, rec, dir, mem) ==
    CASE rec.hs = "client_hello" -> ParseClientHello(conn, rec, mem)
      [] rec.hs = "server_hello" -> ParseServerHello(conn, rec, mem)
      [] rec.hs = "certificate" -> ParseCertificate(conn, rec, dir, mem)
      [] rec.hs \in {"server_hello_done", "finished"} ->
            [conn EXCEPT !.handshake_completed = @ \/ rec.fits]
      [] OTHER -> conn

\* tls_parser_parse: up to the first record that is too long
TlsParse(conn, buf, dir, mem) ==
    LET Reached(k) == \A j \in 1 .. k : ~buf.units[j].oversize
        parsed[k \in 0 .. Len(buf.units)] ==
          IF k = 0 THEN conn
          ELSE IF Reached(k) /\ buf.units[k].content = "handshake"
          THEN ParseHandshake(parsed[k - 1], buf.units[k], dir, mem)
          ELSE parsed[k - 1]
    IN  parsed[Len(buf.units)]
=============================================================================
