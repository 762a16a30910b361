-------------------------- MODULE FlowTableAffine --------------------------
(***************************************************************************)
(* The flow table in a deployment where RSS pins every flow to one lcore:  *)
(* one port, each RX queue polled by one lcore.  The table's own code does *)
(* not ask for it (flow_hash_calculate ignores the port), but without it   *)
(* use_cnt is updated by two lcores under two different locks.             *)
(***************************************************************************)
EXTENDS FlowTable

\* No two lcores receive packets the lookup would assign to one flow.
ASSUME RxAffinity ==
    \A v, w \in Lcores : v # w =>
        \A j \in Rx[v], k \in Rx[w] : ~ SameFlow(j, k)

\* states of an lcore in which cur is the flow of its packet, and those of
\* them in which it owns a reference
HoldStates == {"count", "count_store", "update", "release", "rel_store"}
FlowStates == HoldStates \cup {"inc"}

(***************************************************************************)
(* The inductive invariant.  What an lcore knows: its packet is one RSS    *)
(* gives it; it has the lock of the bucket it is in; the flow it works on  *)
(* is allocated and is its packet's; the count is 1 exactly while it holds *)
(* the reference (no other lcore may touch it); and a cleanup in progress  *)
(* only visits flows of the bucket it has locked.                          *)
(***************************************************************************)
LcoreInv(w) ==
    /\ pc[w] \in PacketStates => pkt[w] \in Rx[w]
    /\ pc[w] \in GetStates \cup CleanLocked => bucketLock[LockedBucket(w)] = w
    /\ pc[w] \in FlowStates => cur[w] \in live /\ SameFlow(key[cur[w]], pkt[w])
    /\ pc[w] = "inc" => tmp[w] = 0 /\ use_cnt[cur[w]] = 0
    /\ pc[w] \in HoldStates => use_cnt[cur[w]] = 1
    /\ pc[w] = "rel_store" => tmp[w] = 1
    /\ pc[w] = "rel_unlock" => cur[w] \in Flows
    /\ pc[w] \in CleanLocked => todo[w] \subseteq chain[bkt[w]]
    /\ pc[w] = "clean_decide" => cur[w] \in chain[bkt[w]] \ todo[w]

IInv ==
    /\ TypeOK
    /\ TableConsistent
    /\ OneFlowPerTuple
    /\ NoLeakedReference
    /\ \A w \in Lcores : LcoreInv(w)
=============================================================================
