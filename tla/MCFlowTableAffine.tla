------------------------- MODULE MCFlowTableAffine -------------------------
(***************************************************************************)
(* An instance of FlowTableAffine for TLC: two lcores, each with flows of  *)
(* its own, in a bucket that both lcores use and clean.                    *)
(***************************************************************************)
EXTENDS FlowTableAffine

CONSTANTS w1, w2

AB == "a->b"
CD == "c->d"
DC == "d->c"

MCKeys == {AB, CD, DC}
MCLcores == {w1, w2}
MCPeer == [k \in MCKeys |-> CASE k = AB -> AB [] k = CD -> DC [] k = DC -> CD]
MCHash == [k \in MCKeys |-> IF k = AB THEN 0 ELSE 2]
MCRx == [w \in MCLcores |-> IF w = w1 THEN {AB} ELSE {CD, DC}]
=============================================================================
