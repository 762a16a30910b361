----------------------------- MODULE MCBehavioral -----------------------------
(***************************************************************************)
(* An instance of BehavioralDetector: a client that probes three ports, a  *)
(* client that logs in to a web server and sends data to it, a TCP flow    *)
(* taken for DNS.                                                          *)
(***************************************************************************)
EXTENDS BehavioralDetector

CONSTANTS prober, client, inside, outside

MCFlow(src, dst, port, proto, sends) ==
    [src |-> src, dst |-> dst, dst_port |-> port, alproto |-> proto, sends |-> sends]
Syn == [syn |-> TRUE, len |-> 0]
Ack == [syn |-> FALSE, len |-> 0]
Data == [syn |-> FALSE, len |-> 5]

ProbeFlows == {MCFlow(prober, inside, p, "UNKNOWN", {Syn, Ack}) : p \in 1 .. 3}
LoginFlow == MCFlow(client, inside, 80, "HTTP", {Ack, Data})
UploadFlows == {MCFlow(client, d, 22, "SSH", {Data}) : d \in {inside, outside}}
DnsFlow == MCFlow(client, inside, 53, "DNS", {Ack})
TlsFlow == MCFlow(prober, outside, 443, "TLS", {Ack})
MCFlows == ProbeFlows \cup UploadFlows \cup {LoginFlow, DnsFlow, TlsFlow}
MCScenarios == {ProbeFlows, {LoginFlow}, UploadFlows, {DnsFlow, TlsFlow}}
=============================================================================
