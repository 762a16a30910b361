-------------------------------- MODULE MCDns --------------------------------
(***************************************************************************)
(* An instance of DnsParser.  A header is one cell, a question ends in one *)
(* cell and a record in two.  The payloads are all queries of up to four   *)
(* cells, all responses of up to three, and some longer ones with names of *)
(* several labels, pointers to pointers and records of every kind.         *)
(***************************************************************************)
EXTENDS DnsParser

Cells == 0 .. 4

Header(response, nxdomain, count) ==
    [response |-> response, nxdomain |-> nxdomain, count |-> count]
Query(n) == Header(FALSE, FALSE, <<n, 0, 0, 0>>)
Reply(q, a, n, d) == Header(TRUE, n > 0, <<q, a, n, d>>)

\* a UDP packet over IPv4 with this payload
DnsFrame(dns, bytes) ==
    [len |-> 14 + 20 + 8 + Len(bytes), ether |-> "IPV4", ihl |-> 5, proto |-> "UDP",
     data_off |-> 0, dns |-> dns, bytes |-> bytes]

Short(size) == UNION {[1 .. n -> Cells] : n \in 0 .. size}
Long ==
    {<<0, 1, 1, 1, 2, 0, 0>>, <<0, 1, 3, 1, 1, 1, 1, 0, 0>>,
     <<0, 1, 1, 0, 0, 4, 1, 0>>, <<0, 4, 3, 4, 5, 0, 0>>, <<0, 2, 1, 1, 2, 2, 2, 0, 0>>,
     <<0, 0, 0, 4, 1, 1, 0>>, <<0, 0, 0, 0, 2, 2, 4, 2>>, <<0, 0, 0, 0, 3, 2, 1, 0, 0, 1, 0>>,
     <<0, 0, 0, 0, 1, 1, 0, 0, 2, 1, 0, 0, 3, 0>>}

DnsFrames ==
    {DnsFrame(Query(1), b) : b \in Short(4)}
    \cup {DnsFrame(Reply(1, 1, 0, 0), b) : b \in Short(3)}
    \cup {DnsFrame(d, b) : d \in {Query(3), Reply(1, 2, 1, 1), Reply(0, 3, 0, 1)}, b \in Long}

\* frames of every kind, cut at every header
OtherFrames ==
    {[len |-> n, ether |-> e, ihl |-> h, proto |-> p, data_off |-> o,
      dns |-> Query(0), bytes |-> [k \in 1 .. 100 |-> 0]] :
        n \in {0, 13, 14, 33, 34, 41, 42, 53, 54, 61, 62, 74, 75},
        e \in {"IPV4", "IPV6", "ARP"}, h \in {4, 5, 15}, p \in {"TCP", "UDP", "ICMP", "GRE"},
        o \in {4, 5, 6}}

MCLimit == <<2, 2, 1, 1>>
MCFrames == DnsFrames \cup OtherFrames
MCRules == <<Rule("tunnel", "DNS", "HIGH", "query", <<1>>),
             [Rule("txt", "DNS", "HIGH", "query", <<2>>) EXCEPT !.qtype = 2]>>
=============================================================================
