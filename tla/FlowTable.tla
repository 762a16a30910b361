----------------------------- MODULE FlowTable -----------------------------
(***************************************************************************)
(* The flow table of src/flow.c as the forwarding lcores use it.           *)
(*                                                                         *)
(* Every lcore runs lcore_job_recv_fwd (netif.c): it takes packets and     *)
(* runs process_packet on each (flow_get, flow_update, flow_release and,   *)
(* on every 10000th packet, a look at the flow for the statistics), and    *)
(* every CleanupInterval seconds it runs flow_cleanup_expired over the     *)
(* whole table.  The table is shared: one lock per bucket, one lock per    *)
(* flow, and counters that no lock protects.                               *)
(*                                                                         *)
(* use_cnt is incremented under the BUCKET lock and decremented under the  *)
(* FLOW lock, flows_active is changed under whichever bucket lock the      *)
(* caller holds: both read-modify-writes are modelled as a load and a      *)
(* store.  The list of a bucket is a set: its order decides only which of  *)
(* several matching flows is found, and OneFlowPerTuple says there are     *)
(* never several.  Addresses, ports and protocol of a packet are one key;  *)
(* Peer is the key of the opposite direction; Hash stands for the CRC.     *)
(***************************************************************************)
EXTENDS Integers, FiniteSets

CONSTANTS
    Lcores,          \* lcores that run lcore_job_recv_fwd
    Keys,            \* 5-tuples as they appear in packets (directed)
    Peer,            \* [Keys -> Keys]: the 5-tuple of the other direction
    Hash,            \* [Keys -> Nat]: flow_hash_calculate
    HashSize,        \* flow_config.hash_size
    MaxFlows,        \* flow_config.max_flows
    TimeoutNew,      \* flow_config.timeout_new, seconds
    TimeoutEst,      \* flow_config.timeout_est, seconds
    CleanupInterval, \* the 10 seconds of lcore_job_recv_fwd
    Rx,              \* [Lcores -> SUBSET Keys]: what the queues of an lcore deliver
    Flows,           \* heap blocks calloc can return for a flow_t
    NoFlow, NoLcore,
    UseMod,          \* 2^16: use_cnt is a uint16_t
    AgeMod,          \* 2^32: age is a uint32_t
    ActiveMod,       \* 2^64: flows_active is a uint64_t
    PacketHorizon,   \* bound: packets arrive before this second
    MaxClock         \* bound: the clock stops here

ASSUME FlowTableAssumption ==
    /\ Keys # {}
    /\ Peer \in [Keys -> Keys]
    /\ \A k \in Keys : Peer[Peer[k]] = k
    /\ Hash \in [Keys -> Nat]
    /\ HashSize \in Nat \ {0}
    /\ MaxFlows \in Nat
    /\ TimeoutNew \in Nat /\ TimeoutEst \in Nat /\ CleanupInterval \in Nat
    /\ Rx \in [Lcores -> SUBSET Keys]
    /\ NoFlow \notin Flows
    /\ NoLcore \notin Lcores
    /\ UseMod \in Nat /\ UseMod > 1
    /\ AgeMod \in Nat \ {0}
    /\ ActiveMod \in Nat \ {0} /\ MaxFlows < ActiveMod
    /\ PacketHorizon \in Nat /\ MaxClock \in Nat

VARIABLES
    clock,        \* gettimeofday, seconds
    live,         \* allocated flows
    key,          \* the 5-tuple a flow was created with (immutable)
    use_cnt,      \* flow->use_cnt
    last_ts,      \* flow->last_ts.tv_sec
    timeout,      \* flow->timeout_policy
    flowLock,     \* holder of flow->lock
    chain,        \* flows linked in a bucket
    bucketLock,   \* holder of bucket->lock
    flows_active, \* flow_stats.flows_active
    pc, pkt, cur, tmp, now, todo, bkt, lastClean  \* locals of each lcore

vars == <<clock, live, key, use_cnt, last_ts, timeout, flowLock, chain,
          bucketLock, flows_active, pc, pkt, cur, tmp, now, todo, bkt, lastClean>>

Buckets == 0 .. (HashSize - 1)

\* the value of a key that is dead: in an unused heap block, in an idle lcore
AnyKey == CHOOSE k \in Keys : TRUE

\* hash & (hash_size - 1), hash_size a power of two
BucketOf(k) == Hash[k] % HashSize

\* flow_match together with the hash comparison in front of it
SameFlow(k1, k2) == Hash[k1] = Hash[k2] /\ (k1 = k2 \/ k1 = Peer[k2])

GetStates    == {"search", "inc", "count", "count_store"}
CleanLocked  == {"clean_scan", "clean_decide", "clean_count", "clean_count_store"}
PacketStates == GetStates \cup {"lock", "update", "release", "rel_store", "rel_unlock", "post"}
States       == PacketStates \cup CleanLocked \cup {"idle", "clean_lock"}

\* the bucket an lcore has locked when it is in GetStates or CleanLocked
LockedBucket(w) == IF pc[w] \in GetStates THEN BucketOf(pkt[w]) ELSE bkt[w]

\* the lcore owns a reference: flow_get gave it the flow, and flow_release
\* has not yet stored the decremented count
Holds(w, f) ==
    /\ pc[w] \in {"count", "count_store", "update", "release", "rel_store"}
    /\ cur[w] = f

\* Right after flow_init, and after the first call of lcore_job_recv_fwd on
\* every lcore has set its last_cleanup_ts.
Init ==
    /\ clock = 0
    /\ live = {}
    /\ key = [f \in Flows |-> AnyKey]
    /\ use_cnt = [f \in Flows |-> 0]
    /\ last_ts = [f \in Flows |-> 0]
    /\ timeout = [f \in Flows |-> TimeoutNew]
    /\ flowLock = [f \in Flows |-> NoLcore]
    /\ chain = [b \in Buckets |-> {}]
    /\ bucketLock = [b \in Buckets |-> NoLcore]
    /\ flows_active = 0
    /\ pc = [w \in Lcores |-> "idle"]
    /\ pkt = [w \in Lcores |-> AnyKey]
    /\ cur = [w \in Lcores |-> NoFlow]
    /\ tmp = [w \in Lcores |-> 0]
    /\ now = [w \in Lcores |-> 0]
    /\ todo = [w \in Lcores |-> {}]
    /\ bkt = [w \in Lcores |-> 0]
    /\ lastClean = [w \in Lcores |-> 0]

(***************************************************************************)
(* What most actions leave alone.                                          *)
(***************************************************************************)
flowData == <<key, last_ts, timeout>>
cleanLocals == <<now, todo, bkt, lastClean>>

Goto(w, s) == pc' = [pc EXCEPT ![w] = s]

\* process_packet returns: its locals die
Return(w) ==
    /\ Goto(w, "idle")
    /\ pkt' = [pkt EXCEPT ![w] = AnyKey]
    /\ cur' = [cur EXCEPT ![w] = NoFlow]
    /\ tmp' = [tmp EXCEPT ![w] = 0]

(***************************************************************************)
(* The expressions and guards of the handlers.  A name ending in _mut is   *)
(* the definition after it with a slip in it; only mutation runs use it.   *)
(***************************************************************************)
Lock(w, b)   == bucketLock[b] = NoLcore /\ bucketLock' = [bucketLock EXCEPT ![b] = w]
Unlock(b)    == bucketLock' = [bucketLock EXCEPT ![b] = NoLcore]

\* use_cnt++ on the value loaded, a uint16_t
UseInc(n) == (n + 1) % UseMod

\* if (use_cnt > 0) use_cnt--, n the value loaded, c the one in memory
UseDec_mut(n, c) == IF n > 1 THEN n - 1 ELSE c
UseDec(n, c) == IF n > 0 THEN n - 1 ELSE c

\* flows_active >= max_flows
TableFull == flows_active >= MaxFlows

\* uint32_t age = now->tv_sec - flow->last_ts.tv_sec
Age(n, ts) == (n - ts) % AgeMod

\* flows_active--, a uint64_t
ActiveDec_mut(n) == n
ActiveDec(n) == (n - 1) % ActiveMod

\* flow->use_cnt == 0 && age > flow->timeout_policy, age being in tmp
ShouldRemove_mut(w) == tmp[w] > timeout[cur[w]]
ShouldRemove(w) == use_cnt[cur[w]] = 0 /\ tmp[w] > timeout[cur[w]]

\* the flows of the packet's bucket that flow_get accepts
Matches_mut(w) == {f \in chain[BucketOf(pkt[w])] : key[f] = pkt[w]}
Matches(w) == {f \in chain[BucketOf(pkt[w])] : SameFlow(key[f], pkt[w])}

\* take a flow out of the list of its bucket
Unlink(b, f) == chain' = [chain EXCEPT ![b] = @ \ {f}]

\* the loop over the buckets ends
LastBucket(w) == bkt[w] = HashSize - 1

(***************************************************************************)
(* process_packet -> flow_get                                              *)
(***************************************************************************)

\* rte_eth_rx_burst delivers a decodable TCP or UDP packet of tuple k
RxPacket(w, k) ==
    /\ pc[w] = "idle"
    /\ clock < PacketHorizon
    /\ k \in Rx[w]
    /\ pkt' = [pkt EXCEPT ![w] = k]
    /\ Goto(w, "lock")
    /\ UNCHANGED <<clock, live, flowData, use_cnt, flowLock, chain, bucketLock,
                   flows_active, cur, tmp, cleanLocals>>

GetLock(w) ==
    /\ pc[w] = "lock"
    /\ Lock(w, BucketOf(pkt[w]))
    /\ Goto(w, "search")
    /\ UNCHANGED <<clock, live, flowData, use_cnt, flowLock, chain,
                   flows_active, pkt, cur, tmp, cleanLocals>>

\* found: the load of use_cnt++
GetFound(w) ==
    /\ pc[w] = "search"
    /\ \E f \in Matches(w) :
          /\ cur' = [cur EXCEPT ![w] = f]
          /\ tmp' = [tmp EXCEPT ![w] = use_cnt[f]]
    /\ Goto(w, "inc")
    /\ UNCHANGED <<clock, live, flowData, use_cnt, flowLock, chain, bucketLock,
                   flows_active, pkt, cleanLocals>>

\* the store of use_cnt++, unlock, return the flow
GetInc(w) ==
    /\ pc[w] = "inc"
    /\ use_cnt' = [use_cnt EXCEPT ![cur[w]] = UseInc(tmp[w])]
    /\ Unlock(BucketOf(pkt[w]))
    /\ Goto(w, "update")
    /\ UNCHANGED <<clock, live, flowData, flowLock, chain, flows_active,
                   pkt, cur, tmp, cleanLocals>>

\* not found, and the table is full: flow_get returns NULL
GetFull(w) ==
    /\ pc[w] = "search"
    /\ Matches(w) = {}
    /\ TableFull
    /\ Unlock(BucketOf(pkt[w]))
    /\ Return(w)
    /\ UNCHANGED <<clock, live, flowData, use_cnt, flowLock, chain,
                   flows_active, cleanLocals>>

\* not found, and flow_alloc fails: flow_get returns NULL
GetNoMemory(w) ==
    /\ pc[w] = "search"
    /\ Matches(w) = {}
    /\ ~ TableFull
    /\ Unlock(BucketOf(pkt[w]))
    /\ Return(w)
    /\ UNCHANGED <<clock, live, flowData, use_cnt, flowLock, chain,
                   flows_active, cleanLocals>>

\* not found: allocate (use_cnt = 1), initialise, insert
GetCreate(w) ==
    /\ pc[w] = "search"
    /\ Matches(w) = {}
    /\ ~ TableFull
    /\ \E f \in Flows \ live :
          /\ live' = live \cup {f}
          /\ key' = [key EXCEPT ![f] = pkt[w]]
          /\ use_cnt' = [use_cnt EXCEPT ![f] = 1]
          /\ last_ts' = [last_ts EXCEPT ![f] = clock]
          /\ timeout' = [timeout EXCEPT ![f] = TimeoutNew]
          /\ flowLock' = [flowLock EXCEPT ![f] = NoLcore]
          /\ chain' = [chain EXCEPT ![BucketOf(pkt[w])] = @ \cup {f}]
          /\ cur' = [cur EXCEPT ![w] = f]
    /\ Goto(w, "count")
    /\ UNCHANGED <<clock, bucketLock, flows_active, pkt, tmp, cleanLocals>>

\* flows_active++ (load, store), unlock, return the flow
CountLoad(w) ==
    /\ pc[w] = "count"
    /\ tmp' = [tmp EXCEPT ![w] = flows_active]
    /\ Goto(w, "count_store")
    /\ UNCHANGED <<clock, live, flowData, use_cnt, flowLock, chain, bucketLock,
                   flows_active, pkt, cur, cleanLocals>>

CountStore(w) ==
    /\ pc[w] = "count_store"
    /\ flows_active' = (tmp[w] + 1) % ActiveMod
    /\ Unlock(BucketOf(pkt[w]))
    /\ Goto(w, "update")
    /\ UNCHANGED <<clock, live, flowData, use_cnt, flowLock, chain,
                   pkt, cur, tmp, cleanLocals>>

(***************************************************************************)
(* process_packet -> flow_update, flow_release                             *)
(***************************************************************************)

\* Under the flow lock: the timestamp, and timeout_est when the packet
\* completes a TCP handshake (the state machine itself is module TcpFlow).
FlowUpdate(w) ==
    /\ pc[w] = "update"
    /\ flowLock[cur[w]] = NoLcore
    /\ last_ts' = [last_ts EXCEPT ![cur[w]] = clock]
    /\ \E p \in {timeout[cur[w]], TimeoutEst} : timeout' = [timeout EXCEPT ![cur[w]] = p]
    /\ Goto(w, "release")
    /\ UNCHANGED <<clock, live, key, use_cnt, flowLock, chain, bucketLock,
                   flows_active, pkt, cur, tmp, cleanLocals>>

\* lock, and the load of use_cnt
RelLoad(w) ==
    /\ pc[w] = "release"
    /\ flowLock[cur[w]] = NoLcore
    /\ flowLock' = [flowLock EXCEPT ![cur[w]] = w]
    /\ tmp' = [tmp EXCEPT ![w] = use_cnt[cur[w]]]
    /\ Goto(w, "rel_store")
    /\ UNCHANGED <<clock, live, flowData, use_cnt, chain, bucketLock,
                   flows_active, pkt, cur, cleanLocals>>

\* the store of use_cnt--
RelStore(w) ==
    /\ pc[w] = "rel_store"
    /\ use_cnt' = [use_cnt EXCEPT ![cur[w]] = UseDec(tmp[w], @)]
    /\ Goto(w, "rel_unlock")
    /\ UNCHANGED <<clock, live, flowData, flowLock, chain, bucketLock,
                   flows_active, pkt, cur, tmp, cleanLocals>>

\* unlock; then process_packet returns, except on every 10000th packet
RelUnlock(w) ==
    /\ pc[w] = "rel_unlock"
    /\ flowLock' = [flowLock EXCEPT ![cur[w]] = NoLcore]
    /\ \/ Return(w)
       \/ Goto(w, "post") /\ UNCHANGED <<pkt, cur, tmp>>
    /\ UNCHANGED <<clock, live, flowData, use_cnt, chain, bucketLock,
                   flows_active, cleanLocals>>

\* the statistics of process_packet read the flow once more
PostRead(w) ==
    /\ pc[w] = "post"
    /\ Return(w)
    /\ UNCHANGED <<clock, live, flowData, use_cnt, flowLock, chain, bucketLock,
                   flows_active, cleanLocals>>

(***************************************************************************)
(* lcore_job_recv_fwd -> flow_cleanup_expired                              *)
(***************************************************************************)

\* now is read once, before the first bucket
CleanStart(w) ==
    /\ pc[w] = "idle"
    /\ clock - lastClean[w] >= CleanupInterval
    /\ now' = [now EXCEPT ![w] = clock]
    /\ bkt' = [bkt EXCEPT ![w] = 0]
    /\ Goto(w, "clean_lock")
    /\ UNCHANGED <<clock, live, flowData, use_cnt, flowLock, chain, bucketLock,
                   flows_active, pkt, cur, tmp, todo, lastClean>>

CleanLock(w) ==
    /\ pc[w] = "clean_lock"
    /\ Lock(w, bkt[w])
    /\ todo' = [todo EXCEPT ![w] = chain[bkt[w]]]
    /\ Goto(w, "clean_scan")
    /\ UNCHANGED <<clock, live, flowData, use_cnt, flowLock, chain,
                   flows_active, pkt, cur, tmp, now, bkt, lastClean>>

\* uint32_t age = now->tv_sec - flow->last_ts.tv_sec, read without the flow lock
CleanAge(w) ==
    /\ pc[w] = "clean_scan"
    /\ \E f \in todo[w] :
          /\ cur' = [cur EXCEPT ![w] = f]
          /\ todo' = [todo EXCEPT ![w] = @ \ {f}]
          /\ tmp' = [tmp EXCEPT ![w] = Age(now[w], last_ts[f])]
    /\ Goto(w, "clean_decide")
    /\ UNCHANGED <<clock, live, flowData, use_cnt, flowLock, chain, bucketLock,
                   flows_active, pkt, now, bkt, lastClean>>

CleanKeep(w) ==
    /\ pc[w] = "clean_decide"
    /\ ~ ShouldRemove(w)
    /\ Goto(w, "clean_scan")
    /\ UNCHANGED <<clock, live, flowData, use_cnt, flowLock, chain, bucketLock,
                   flows_active, pkt, cur, tmp, cleanLocals>>

\* unlink and flow_free; the contents of the freed block are not modelled
CleanRemove(w) ==
    /\ pc[w] = "clean_decide"
    /\ ShouldRemove(w)
    /\ Unlink(bkt[w], cur[w])
    /\ live' = live \ {cur[w]}
    /\ key' = [key EXCEPT ![cur[w]] = AnyKey]
    /\ use_cnt' = [use_cnt EXCEPT ![cur[w]] = 0]
    /\ last_ts' = [last_ts EXCEPT ![cur[w]] = 0]
    /\ timeout' = [timeout EXCEPT ![cur[w]] = TimeoutNew]
    /\ Goto(w, "clean_count")
    /\ UNCHANGED <<clock, flowLock, bucketLock, flows_active, pkt, cur, tmp, cleanLocals>>

\* flows_active-- (load, store)
UncountLoad(w) ==
    /\ pc[w] = "clean_count"
    /\ tmp' = [tmp EXCEPT ![w] = flows_active]
    /\ Goto(w, "clean_count_store")
    /\ UNCHANGED <<clock, live, flowData, use_cnt, flowLock, chain, bucketLock,
                   flows_active, pkt, cur, cleanLocals>>

UncountStore(w) ==
    /\ pc[w] = "clean_count_store"
    /\ flows_active' = ActiveDec(tmp[w])
    /\ Goto(w, "clean_scan")
    /\ UNCHANGED <<clock, live, flowData, use_cnt, flowLock, chain, bucketLock,
                   pkt, cur, tmp, cleanLocals>>

\* the end of a bucket, and after the last one last_cleanup_ts = now
CleanUnlock(w) ==
    /\ pc[w] = "clean_scan"
    /\ todo[w] = {}
    /\ Unlock(bkt[w])
    /\ cur' = [cur EXCEPT ![w] = NoFlow]
    /\ tmp' = [tmp EXCEPT ![w] = 0]
    /\ \/ /\ ~ LastBucket(w)
          /\ bkt' = [bkt EXCEPT ![w] = @ + 1]
          /\ Goto(w, "clean_lock")
          /\ UNCHANGED <<now, lastClean>>
       \/ /\ LastBucket(w)
          /\ bkt' = [bkt EXCEPT ![w] = 0]
          /\ now' = [now EXCEPT ![w] = 0]
          /\ lastClean' = [lastClean EXCEPT ![w] = now[w]]
          /\ Goto(w, "idle")
    /\ UNCHANGED <<clock, live, flowData, use_cnt, flowLock, chain, flows_active, pkt, todo>>

(***************************************************************************)
(* Time.  Before PacketHorizon a second may pass between any two steps.    *)
(* From then on no packet arrives, and the clock waits for the packets     *)
(* still in process: the bound on the clock would otherwise cut off the    *)
(* part of a run in which the table drains.                                *)
(***************************************************************************)
Tick ==
    /\ clock < MaxClock
    /\ clock < PacketHorizon \/ \A w \in Lcores : pc[w] \notin PacketStates
    /\ clock' = clock + 1
    /\ UNCHANGED <<live, flowData, use_cnt, flowLock, chain, bucketLock,
                   flows_active, pc, pkt, cur, tmp, cleanLocals>>

\* the end of the bounded run: the clock has stopped and no cleanup is due
Quiet ==
    /\ clock = MaxClock
    /\ \A w \in Lcores : pc[w] = "idle" /\ clock - lastClean[w] < CleanupInterval
    /\ UNCHANGED vars

FlowGet(w) ==
    \/ GetLock(w) \/ GetFound(w) \/ GetInc(w) \/ GetFull(w) \/ GetNoMemory(w)
    \/ GetCreate(w) \/ CountLoad(w) \/ CountStore(w)
FlowRelease(w) == RelLoad(w) \/ RelStore(w) \/ RelUnlock(w)
FlowCleanupExpired(w) ==
    \/ CleanStart(w) \/ CleanLock(w) \/ CleanAge(w) \/ CleanKeep(w) \/ CleanRemove(w)
    \/ UncountLoad(w) \/ UncountStore(w) \/ CleanUnlock(w)

\* the program of one lcore, the arrival of packets aside
Step(w) == FlowGet(w) \/ FlowUpdate(w) \/ FlowRelease(w) \/ PostRead(w) \/ FlowCleanupExpired(w)

Next ==
    \/ \E w \in Lcores : Step(w) \/ \E k \in Keys : RxPacket(w, k)
    \/ Tick
    \/ Quiet

Spec == Init /\ [][Next]_vars

\* Lcores poll forever and time passes; nothing makes packets arrive.
FairSpec == Spec /\ WF_vars(Tick) /\ \A w \in Lcores : WF_vars(Step(w))

-----------------------------------------------------------------------------
(***************************************************************************)
(* Properties                                                              *)
(***************************************************************************)
TypeOK ==
    /\ clock \in Nat
    /\ live \subseteq Flows
    /\ key \in [Flows -> Keys]
    /\ use_cnt \in [Flows -> 0 .. UseMod - 1]
    /\ last_ts \in [Flows -> Nat]
    /\ timeout \in [Flows -> {TimeoutNew, TimeoutEst}]
    /\ flowLock \in [Flows -> Lcores \cup {NoLcore}]
    /\ chain \in [Buckets -> SUBSET Flows]
    /\ bucketLock \in [Buckets -> Lcores \cup {NoLcore}]
    /\ flows_active \in 0 .. ActiveMod - 1
    /\ pc \in [Lcores -> States]
    /\ pkt \in [Lcores -> Keys]
    /\ cur \in [Lcores -> Flows \cup {NoFlow}]
    /\ tmp \in [Lcores -> Nat]
    /\ now \in [Lcores -> Nat]
    /\ todo \in [Lcores -> SUBSET Flows]
    /\ bkt \in [Lcores -> Buckets]
    /\ lastClean \in [Lcores -> Nat]

\* The table links exactly the allocated flows, each in the bucket of its
\* hash (flow_get inserts, flow_cleanup_expired unlinks before it frees): no
\* bucket points to freed memory and no allocated flow is lost.
TableConsistent ==
    \A b \in Buckets : chain[b] = {f \in live : BucketOf(key[f]) = b}

\* flow_get never creates a second flow that the lookup would match, also
\* when a cleanup removes the first one while the packet waits for the lock.
OneFlowPerTuple ==
    \A f, g \in live : SameFlow(key[f], key[g]) => f = g

\* The table is sound under all interleavings of flow_get and cleanup:
\* counters in their widths, lists that agree with the allocated flows, one
\* flow for each tuple.
TableSound == TypeOK /\ TableConsistent /\ OneFlowPerTuple

\* The reference count protects: while an lcore works on a flow between
\* flow_get and flow_release, the flow is allocated, is the flow of the
\* packet, and cleanup on another lcore sees a non-zero use_cnt.
HeldFlowIsLive ==
    \A w \in Lcores, f \in Flows : Holds(w, f) =>
        f \in live /\ SameFlow(key[f], pkt[w]) /\ use_cnt[f] > 0

\* No reference leaks: a flow no lcore holds has use_cnt 0, so
\* flow_cleanup_expired can remove it.
NoLeakedReference ==
    \A f \in live : (\A w \in Lcores : ~ Holds(w, f)) => use_cnt[f] = 0

\* flow_stats.flows_active counts the flows in the table whenever no lcore
\* is between the change of a list and the change of the counter.
ActiveCountExact ==
    (\A w \in Lcores : pc[w] \notin {"count", "count_store", "clean_count", "clean_count_store"})
        => flows_active = Cardinality(live)

\* flow_config.max_flows, "Maximum number of flows": never more are allocated.
FlowLimit == Cardinality(live) <= MaxFlows

\* The limit holds, and the counter it is checked against does not drift from
\* the table, so that a table that was full takes flows again.
LimitKept == FlowLimit /\ ActiveCountExact

\* When traffic stops, the periodic cleanup empties the table.
TableDrains == <>[](live = {})
=============================================================================
