----------------------------- MODULE MCTcpFlow -----------------------------
(***************************************************************************)
(* Connections of a client and a server for TLC.  Data follows the SYN,    *)
(* which takes one sequence number, as in RFC 793.                         *)
(***************************************************************************)
EXTENDS TcpFlow

Pkt(h, F, s, n) == [from |-> h, flags |-> F, seq |-> s, len |-> n]

ClientIsn == 14
ServerIsn == 3

Handshake ==
    {Pkt("client", {"SYN"}, ClientIsn, 0),
     Pkt("server", {"SYN", "ACK"}, ServerIsn, 0),
     Pkt("client", {"ACK"}, ClientIsn + 1, 0)}

Data ==
    {Pkt("client", {"ACK"}, ClientIsn + 1, 2),
     Pkt("client", {"ACK"}, (ClientIsn + 3) % SeqSpace, 1),
     Pkt("server", {"ACK"}, ServerIsn + 1, 2),
     Pkt("server", {"ACK"}, ServerIsn + 3, 1)}

Close ==
    {Pkt("client", {"FIN", "ACK"}, (ClientIsn + 4) % SeqSpace, 0),
     Pkt("server", {"FIN"}, ServerIsn + 3, 0),
     Pkt("server", {"RST"}, ServerIsn + 3, 0)}

\* segments at the initial sequence numbers themselves (data on the SYN)
DataOnSyn ==
    {Pkt("client", {"ACK"}, ClientIsn, 2),
     Pkt("server", {"ACK"}, ServerIsn, 2)}

WholeConnection == Handshake \cup Data \cup Close \cup DataOnSyn
OpenConnection == Handshake \cup Data

\* "In-order segments (immediate reassembly)" (stream_reassemble.h:98): once
\* the buffer of the client's SYN has accepted the byte that follows the
\* SYN, the to-server stream has data.
FirstByteDelivered ==
    (/\ initiator = "client" /\ toserver_sb.isn = ClientIsn /\ toserver_sb.phase = "idle"
     /\ ClientIsn + 1 \in toserver_acc)
    => toserver_sb.data # <<>>
=============================================================================
