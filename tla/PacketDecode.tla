---------------------------- MODULE PacketDecode ----------------------------
(***************************************************************************)
(* decode_packet (src/packet_decode.c): the headers of a frame and where   *)
(* its payload is.  A frame is [len, ether, ihl, proto, data_off]: its     *)
(* length and the fields that decide; ihl and data_off count words of 4    *)
(* bytes.  Lengths are unsigned: what is left of a frame beyond an offset  *)
(* is taken modulo LenMod (2^32 in the code).                              *)
(***************************************************************************)
EXTENDS Integers

CONSTANT LenMod

EtherSize == 14
IpSize(ether) == IF ether = "IPV4" THEN 20 ELSE 40
TransportSize(proto) == IF proto = "TCP" THEN 20 ELSE 8

Rest(frame, offset) == (frame.len - offset) % LenMod

Info(ok, flags, offset, payload_len) ==
    [ok |-> ok, flags |-> flags, offset |-> offset, payload_len |-> payload_len]

\* decode_tcp, decode_udp and decode_icmp: the length of the header, 0 for
\* an error
DecodeTransport(frame, offset) ==
    IF Rest(frame, offset) < TransportSize(frame.proto) THEN 0
    ELSE IF frame.proto = "TCP"
    THEN IF frame.data_off * 4 < TransportSize("TCP") THEN 0 ELSE frame.data_off * 4
    ELSE TransportSize(frame.proto)

\* decode_ipv4 and decode_ipv6
DecodeIp(frame) ==
    IF Rest(frame, EtherSize) < IpSize(frame.ether) THEN 0
    ELSE IF frame.ether = "IPV4"
    THEN IF frame.ihl * 4 < IpSize("IPV4") THEN 0 ELSE frame.ihl * 4
    ELSE IpSize("IPV6")

\* the flag of a layer whose header of a given size starts at offset
LongEnough(frame, offset, size, flag) == IF Rest(frame, offset) < size THEN {} ELSE {flag}

\* decode_packet; an extension header or an unknown protocol is no error and
\* has no payload.  The flag of a layer is set once its header is long
\* enough, before the length in the header is looked at.
DecodePacket(frame) ==
    LET ip == DecodeIp(frame)
        start == EtherSize + ip
        header == DecodeTransport(frame, start)
        offset == start + header
    IN  IF frame.len = 0 THEN Info(FALSE, {}, 0, 0)
        ELSE IF frame.len < EtherSize THEN Info(FALSE, {"ERROR"}, 0, 0)
        ELSE IF frame.ether \notin {"IPV4", "IPV6"} THEN Info(TRUE, {"ETH"}, EtherSize, 0)
        ELSE IF ip = 0
        THEN Info(FALSE, {"ETH", "ERROR"} \cup LongEnough(frame, EtherSize, IpSize(frame.ether),
                                                          frame.ether), EtherSize, 0)
        ELSE IF frame.proto \notin {"TCP", "UDP", "ICMP"}
        THEN Info(TRUE, {"ETH", frame.ether}, start, 0)
        ELSE IF header = 0
        THEN Info(FALSE, {"ETH", frame.ether, "ERROR"} \cup
                         LongEnough(frame, start, TransportSize(frame.proto), frame.proto),
                  start, 0)
        ELSE Info(TRUE, {"ETH", frame.ether, frame.proto}, offset,
                  IF offset < frame.len THEN frame.len - offset ELSE 0)
=============================================================================
