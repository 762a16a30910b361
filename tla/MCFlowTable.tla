---------------------------- MODULE MCFlowTable ----------------------------
(***************************************************************************)
(* An instance of FlowTable for TLC: a single lcore, and two connections   *)
(* in two directions each.                                                 *)
(***************************************************************************)
EXTENDS FlowTable

AB == "a->b"
BA == "b->a"
CD == "c->d"
DC == "d->c"

MCKeys == {AB, BA, CD, DC}
MCPeer == [k \in MCKeys |-> CASE k = AB -> BA [] k = BA -> AB [] k = CD -> DC [] k = DC -> CD]

\* a<->b hashes to different values in the two directions, as CRC32 over
\* (src, dst, ports) does in general; c<->d is a 32-bit collision.
MCHash == [k \in MCKeys |-> CASE k = AB -> 0 [] k = BA -> 1 [] OTHER -> 2]

\* one lcore polls everything
OneLcore == [w \in Lcores |-> MCKeys]
=============================================================================
