-------------------------- MODULE FlowTableProofs --------------------------
(***************************************************************************)
(* For any number of lcores, flows, buckets and seconds: with RSS affinity *)
(* the reference count of the flow table is exact and protects the flows   *)
(* in use.  Where a single lcore forwards, moreover, flows_active is exact *)
(* and no more than max_flows flows are allocated.                         *)
(***************************************************************************)
EXTENDS FlowTableAffine, FiniteSetTheorems, TLAPS

LEMMA ModRange == \A a \in Int, m \in Nat \ {0} : a % m \in 0 .. m - 1
  OBVIOUS

LEMMA BucketType == \A k \in Keys : BucketOf(k) \in Buckets
<1> TAKE k \in Keys
<1>1. Hash[k] \in Int /\ HashSize \in Nat \ {0}
  BY FlowTableAssumption
<1>2. Hash[k] % HashSize \in 0 .. HashSize - 1
  BY <1>1, ModRange
<1> QED BY <1>2 DEF BucketOf, Buckets

LEMMA AnyKeyType == AnyKey \in Keys
  BY FlowTableAssumption DEF AnyKey

\* An lcore that may receive packets of a flow is the only one that may.
LEMMA OneOwner ==
  ASSUME NEW v \in Lcores, NEW w \in Lcores, v # w,
         NEW j \in Rx[v], NEW k \in Rx[w], NEW h \in Keys,
         SameFlow(h, j), SameFlow(h, k)
  PROVE  FALSE
<1>1. j \in Keys /\ k \in Keys
  BY FlowTableAssumption
<1>2. SameFlow(j, k)
  BY <1>1, FlowTableAssumption DEF SameFlow
<1> QED BY <1>2, RxAffinity

LEMMA ZeroBucket == 0 \in Buckets
  BY FlowTableAssumption DEF Buckets

LEMMA ActiveRange ==
  \A n \in Nat : (n + 1) % ActiveMod \in 0 .. ActiveMod - 1 /\ ActiveDec(n) \in 0 .. ActiveMod - 1
<1> TAKE n \in Nat
<1>1. n + 1 \in Int /\ n - 1 \in Int /\ ActiveMod \in Nat \ {0}
  BY FlowTableAssumption
<1> QED BY <1>1, ModRange DEF ActiveDec

LEMMA AgeRange == \A n, ts \in Nat : Age(n, ts) \in Nat
<1> TAKE n, ts \in Nat
<1>1. n - ts \in Int /\ AgeMod \in Nat \ {0}
  BY FlowTableAssumption
<1>2. (n - ts) % AgeMod \in 0 .. AgeMod - 1
  BY <1>1, ModRange
<1> QED BY <1>1, <1>2 DEF Age

LEMMA UseIncOfZero == UseInc(0) = 1
  BY FlowTableAssumption DEF UseInc

LEMMA UseDecOfOne == \A c : UseDec(1, c) = 0
  BY DEF UseDec

\* Two lcores never work on the same flow.
LEMMA NotShared ==
  ASSUME IInv, NEW v \in Lcores, NEW w \in Lcores, v # w,
         pc[v] \in FlowStates, pc[w] \in PacketStates,
         cur[v] \in Flows, SameFlow(key[cur[v]], pkt[w])
  PROVE  FALSE
<1>1. pkt[v] \in Rx[v] /\ pkt[w] \in Rx[w] /\ SameFlow(key[cur[v]], pkt[v])
  BY DEF IInv, LcoreInv, FlowStates, HoldStates, PacketStates, GetStates
<1>2. key[cur[v]] \in Keys
  BY DEF IInv, TypeOK
<1> QED BY <1>1, <1>2, OneOwner

\* A step that changes neither the flows nor their counts, and gives no
\* reference back, leaks none.
LEMMA SameHolders ==
  ASSUME IInv, live' = live, use_cnt' = use_cnt,
         \A v \in Lcores, g \in Flows : Holds(v, g) => Holds(v, g)'
  PROVE  NoLeakedReference'
<1> SUFFICES ASSUME NEW f \in live, \A v \in Lcores : ~ Holds(v, f)' PROVE use_cnt[f] = 0
  BY DEF NoLeakedReference
<1>1. f \in Flows
  BY DEF IInv, TypeOK
<1>2. \A v \in Lcores : ~ Holds(v, f)
  BY <1>1
<1> QED BY <1>2 DEF IInv, NoLeakedReference

LEMMA InitIInv == Init => IInv
  BY FlowTableAssumption, AnyKeyType
  DEF Init, IInv, TypeOK, TableConsistent, OneFlowPerTuple, NoLeakedReference,
      LcoreInv, Buckets, States, PacketStates, GetStates, CleanLocked, HoldStates, FlowStates

LEMMA NextIInv == IInv /\ [Next]_vars => IInv'
<1> SUFFICES ASSUME IInv, [Next]_vars PROVE IInv'
  OBVIOUS
<1> USE FlowTableAssumption, BucketType, AnyKeyType
<1> USE DEF IInv, TypeOK, TableConsistent, OneFlowPerTuple, NoLeakedReference, LcoreInv,
        LockedBucket, States, PacketStates, GetStates, CleanLocked, HoldStates, FlowStates,
        flowData, cleanLocals, Goto, Lock, Unlock, Return, Holds
<1>1. ASSUME NEW w \in Lcores, NEW k \in Keys, RxPacket(w, k) PROVE IInv'
  <2>1. TypeOK'
    BY <1>1 DEF RxPacket
  <2>2. (TableConsistent /\ OneFlowPerTuple)'
    BY <1>1 DEF RxPacket
  <2>2a. \A v \in Lcores, g \in Flows : Holds(v, g) => Holds(v, g)'
    BY <1>1 DEF RxPacket
  <2>2b. live' = live /\ use_cnt' = use_cnt
    BY <1>1 DEF RxPacket
  <2>2c. NoLeakedReference'
    BY <2>2a, <2>2b, SameHolders
  <2>3. ASSUME NEW v \in Lcores PROVE LcoreInv(v)'
    BY <1>1 DEF RxPacket
  <2> QED BY <2>1, <2>2, <2>2c, <2>3
<1>2. ASSUME NEW w \in Lcores, GetLock(w) PROVE IInv'
  <2>1. TypeOK'
    BY <1>2 DEF GetLock
  <2>2. (TableConsistent /\ OneFlowPerTuple)'
    BY <1>2 DEF GetLock
  <2>2a. \A v \in Lcores, g \in Flows : Holds(v, g) => Holds(v, g)'
    BY <1>2 DEF GetLock
  <2>2b. live' = live /\ use_cnt' = use_cnt
    BY <1>2 DEF GetLock
  <2>2c. NoLeakedReference'
    BY <2>2a, <2>2b, SameHolders
  <2>3. ASSUME NEW v \in Lcores PROVE LcoreInv(v)'
    BY <1>2 DEF GetLock
  <2> QED BY <2>1, <2>2, <2>2c, <2>3
<1>3. ASSUME NEW w \in Lcores, GetFull(w) PROVE IInv'
  <2>1. TypeOK'
    BY <1>3 DEF GetFull
  <2>2. (TableConsistent /\ OneFlowPerTuple)'
    BY <1>3 DEF GetFull
  <2>2a. \A v \in Lcores, g \in Flows : Holds(v, g) => Holds(v, g)'
    BY <1>3 DEF GetFull
  <2>2b. live' = live /\ use_cnt' = use_cnt
    BY <1>3 DEF GetFull
  <2>2c. NoLeakedReference'
    BY <2>2a, <2>2b, SameHolders
  <2>3. ASSUME NEW v \in Lcores PROVE LcoreInv(v)'
    BY <1>3 DEF GetFull
  <2> QED BY <2>1, <2>2, <2>2c, <2>3
<1>4. ASSUME NEW w \in Lcores, GetNoMemory(w) PROVE IInv'
  <2>1. TypeOK'
    BY <1>4 DEF GetNoMemory
  <2>2. (TableConsistent /\ OneFlowPerTuple)'
    BY <1>4 DEF GetNoMemory
  <2>2a. \A v \in Lcores, g \in Flows : Holds(v, g) => Holds(v, g)'
    BY <1>4 DEF GetNoMemory
  <2>2b. live' = live /\ use_cnt' = use_cnt
    BY <1>4 DEF GetNoMemory
  <2>2c. NoLeakedReference'
    BY <2>2a, <2>2b, SameHolders
  <2>3. ASSUME NEW v \in Lcores PROVE LcoreInv(v)'
    BY <1>4 DEF GetNoMemory
  <2> QED BY <2>1, <2>2, <2>2c, <2>3
<1>5. ASSUME NEW w \in Lcores, CountLoad(w) PROVE IInv'
  <2>1. TypeOK'
    BY <1>5 DEF CountLoad
  <2>2. (TableConsistent /\ OneFlowPerTuple)'
    BY <1>5 DEF CountLoad
  <2>2a. \A v \in Lcores, g \in Flows : Holds(v, g) => Holds(v, g)'
    BY <1>5 DEF CountLoad
  <2>2b. live' = live /\ use_cnt' = use_cnt
    BY <1>5 DEF CountLoad
  <2>2c. NoLeakedReference'
    BY <2>2a, <2>2b, SameHolders
  <2>3. ASSUME NEW v \in Lcores PROVE LcoreInv(v)'
    BY <1>5 DEF CountLoad
  <2> QED BY <2>1, <2>2, <2>2c, <2>3
<1>6. ASSUME NEW w \in Lcores, CountStore(w) PROVE IInv'
  <2>1. TypeOK'
    BY <1>6, ActiveRange DEF CountStore
  <2>2. (TableConsistent /\ OneFlowPerTuple)'
    BY <1>6 DEF CountStore
  <2>2a. \A v \in Lcores, g \in Flows : Holds(v, g) => Holds(v, g)'
    BY <1>6 DEF CountStore
  <2>2b. live' = live /\ use_cnt' = use_cnt
    BY <1>6 DEF CountStore
  <2>2c. NoLeakedReference'
    BY <2>2a, <2>2b, SameHolders
  <2>3. ASSUME NEW v \in Lcores PROVE LcoreInv(v)'
    BY <1>6 DEF CountStore
  <2> QED BY <2>1, <2>2, <2>2c, <2>3
<1>7. ASSUME NEW w \in Lcores, FlowUpdate(w) PROVE IInv'
  <2>1. TypeOK'
    BY <1>7 DEF FlowUpdate
  <2>2. (TableConsistent /\ OneFlowPerTuple)'
    BY <1>7 DEF FlowUpdate
  <2>2a. \A v \in Lcores, g \in Flows : Holds(v, g) => Holds(v, g)'
    BY <1>7 DEF FlowUpdate
  <2>2b. live' = live /\ use_cnt' = use_cnt
    BY <1>7 DEF FlowUpdate
  <2>2c. NoLeakedReference'
    BY <2>2a, <2>2b, SameHolders
  <2>3. ASSUME NEW v \in Lcores PROVE LcoreInv(v)'
    BY <1>7 DEF FlowUpdate
  <2> QED BY <2>1, <2>2, <2>2c, <2>3
<1>8. ASSUME NEW w \in Lcores, PostRead(w) PROVE IInv'
  <2>1. TypeOK'
    BY <1>8 DEF PostRead
  <2>2. (TableConsistent /\ OneFlowPerTuple)'
    BY <1>8 DEF PostRead
  <2>2a. \A v \in Lcores, g \in Flows : Holds(v, g) => Holds(v, g)'
    BY <1>8 DEF PostRead
  <2>2b. live' = live /\ use_cnt' = use_cnt
    BY <1>8 DEF PostRead
  <2>2c. NoLeakedReference'
    BY <2>2a, <2>2b, SameHolders
  <2>3. ASSUME NEW v \in Lcores PROVE LcoreInv(v)'
    BY <1>8 DEF PostRead
  <2> QED BY <2>1, <2>2, <2>2c, <2>3
<1>9. ASSUME NEW w \in Lcores, RelUnlock(w) PROVE IInv'
  <2>1. CASE Return(w)
    <3>1. TypeOK'
      BY <1>9, <2>1 DEF RelUnlock
    <3>2. (TableConsistent /\ OneFlowPerTuple)'
      BY <1>9, <2>1 DEF RelUnlock
    <3>2a. \A v \in Lcores, g \in Flows : Holds(v, g) => Holds(v, g)'
      BY <1>9, <2>1 DEF RelUnlock
    <3>2b. live' = live /\ use_cnt' = use_cnt
      BY <1>9, <2>1 DEF RelUnlock
    <3>2c. NoLeakedReference'
      BY <3>2a, <3>2b, SameHolders
    <3>3. ASSUME NEW v \in Lcores PROVE LcoreInv(v)'
      BY <1>9, <2>1 DEF RelUnlock
    <3> QED BY <3>1, <3>2, <3>2c, <3>3
  <2>2. CASE Goto(w, "post") /\ UNCHANGED <<pkt, cur, tmp>>
    <3>1. TypeOK'
      BY <1>9, <2>2 DEF RelUnlock
    <3>2. (TableConsistent /\ OneFlowPerTuple)'
      BY <1>9, <2>2 DEF RelUnlock
    <3>2a. \A v \in Lcores, g \in Flows : Holds(v, g) => Holds(v, g)'
      BY <1>9, <2>2 DEF RelUnlock
    <3>2b. live' = live /\ use_cnt' = use_cnt
      BY <1>9, <2>2 DEF RelUnlock
    <3>2c. NoLeakedReference'
      BY <3>2a, <3>2b, SameHolders
    <3>3. ASSUME NEW v \in Lcores PROVE LcoreInv(v)'
      BY <1>9, <2>2 DEF RelUnlock
    <3> QED BY <3>1, <3>2, <3>2c, <3>3
  <2> QED BY <1>9, <2>1, <2>2 DEF RelUnlock
<1>10. ASSUME NEW w \in Lcores, CleanStart(w) PROVE IInv'
  <2>1. TypeOK'
    BY <1>10, ZeroBucket DEF CleanStart
  <2>2. (TableConsistent /\ OneFlowPerTuple)'
    BY <1>10 DEF CleanStart
  <2>2a. \A v \in Lcores, g \in Flows : Holds(v, g) => Holds(v, g)'
    BY <1>10 DEF CleanStart
  <2>2b. live' = live /\ use_cnt' = use_cnt
    BY <1>10 DEF CleanStart
  <2>2c. NoLeakedReference'
    BY <2>2a, <2>2b, SameHolders
  <2>3. ASSUME NEW v \in Lcores PROVE LcoreInv(v)'
    BY <1>10, ZeroBucket DEF CleanStart
  <2> QED BY <2>1, <2>2, <2>2c, <2>3
<1>11. ASSUME NEW w \in Lcores, CleanLock(w) PROVE IInv'
  <2>1. TypeOK'
    BY <1>11 DEF CleanLock
  <2>2. (TableConsistent /\ OneFlowPerTuple)'
    BY <1>11 DEF CleanLock
  <2>2a. \A v \in Lcores, g \in Flows : Holds(v, g) => Holds(v, g)'
    BY <1>11 DEF CleanLock
  <2>2b. live' = live /\ use_cnt' = use_cnt
    BY <1>11 DEF CleanLock
  <2>2c. NoLeakedReference'
    BY <2>2a, <2>2b, SameHolders
  <2>3. ASSUME NEW v \in Lcores PROVE LcoreInv(v)'
    BY <1>11 DEF CleanLock
  <2> QED BY <2>1, <2>2, <2>2c, <2>3
<1>12. ASSUME NEW w \in Lcores, CleanKeep(w) PROVE IInv'
  <2>1. TypeOK'
    BY <1>12 DEF CleanKeep
  <2>2. (TableConsistent /\ OneFlowPerTuple)'
    BY <1>12 DEF CleanKeep
  <2>2a. \A v \in Lcores, g \in Flows : Holds(v, g) => Holds(v, g)'
    BY <1>12 DEF CleanKeep
  <2>2b. live' = live /\ use_cnt' = use_cnt
    BY <1>12 DEF CleanKeep
  <2>2c. NoLeakedReference'
    BY <2>2a, <2>2b, SameHolders
  <2>3. ASSUME NEW v \in Lcores PROVE LcoreInv(v)'
    BY <1>12 DEF CleanKeep
  <2> QED BY <2>1, <2>2, <2>2c, <2>3
<1>13. ASSUME Tick PROVE IInv'
  BY <1>13 DEF Tick
<1>14. CASE UNCHANGED vars
  BY <1>14 DEF vars
<1>15. ASSUME NEW w \in Lcores, UncountLoad(w) PROVE IInv'
  <2>1. TypeOK'
    BY <1>15 DEF UncountLoad
  <2>2. (TableConsistent /\ OneFlowPerTuple)'
    BY <1>15 DEF UncountLoad
  <2>2a. \A v \in Lcores, g \in Flows : Holds(v, g) => Holds(v, g)'
    BY <1>15 DEF UncountLoad
  <2>2b. live' = live /\ use_cnt' = use_cnt
    BY <1>15 DEF UncountLoad
  <2>2c. NoLeakedReference'
    BY <2>2a, <2>2b, SameHolders
  <2>3. ASSUME NEW v \in Lcores PROVE LcoreInv(v)'
    BY <1>15 DEF UncountLoad
  <2> QED BY <2>1, <2>2, <2>2c, <2>3
<1>16. ASSUME NEW w \in Lcores, UncountStore(w) PROVE IInv'
  <2>1. TypeOK'
    BY <1>16, ActiveRange DEF UncountStore
  <2>2. (TableConsistent /\ OneFlowPerTuple)'
    BY <1>16 DEF UncountStore
  <2>2a. \A v \in Lcores, g \in Flows : Holds(v, g) => Holds(v, g)'
    BY <1>16 DEF UncountStore
  <2>2b. live' = live /\ use_cnt' = use_cnt
    BY <1>16 DEF UncountStore
  <2>2c. NoLeakedReference'
    BY <2>2a, <2>2b, SameHolders
  <2>3. ASSUME NEW v \in Lcores PROVE LcoreInv(v)'
    BY <1>16 DEF UncountStore
  <2> QED BY <2>1, <2>2, <2>2c, <2>3
<1>17. ASSUME NEW w \in Lcores, CleanUnlock(w) PROVE IInv'
  <2>1. CASE ~ LastBucket(w)
    <3>1. bkt[w] + 1 \in Buckets
      BY <2>1 DEF LastBucket, Buckets
    <3>2. TypeOK'
      <4>1. /\ pc' = [pc EXCEPT ![w] = "clean_lock"]
            /\ bkt' = [bkt EXCEPT ![w] = @ + 1]
            /\ UNCHANGED <<now, lastClean>>
        BY <1>17, <2>1 DEF CleanUnlock
      <4> QED BY <1>17, <3>1, <4>1 DEF CleanUnlock
    <3>3. (TableConsistent /\ OneFlowPerTuple)'
      BY <1>17 DEF CleanUnlock
    <3>3a. \A v \in Lcores, g \in Flows : Holds(v, g) => Holds(v, g)'
      BY <1>17 DEF CleanUnlock
    <3>3b. live' = live /\ use_cnt' = use_cnt
      BY <1>17 DEF CleanUnlock
    <3>3c. NoLeakedReference'
      BY <3>3a, <3>3b, SameHolders
    <3>4. ASSUME NEW v \in Lcores PROVE LcoreInv(v)'
      BY <1>17, <2>1, <3>1 DEF CleanUnlock
    <3> QED BY <3>2, <3>3, <3>3c, <3>4
  <2>2. CASE LastBucket(w)
    <3>2. TypeOK'
      <4>1. /\ pc' = [pc EXCEPT ![w] = "idle"]
            /\ bkt' = [bkt EXCEPT ![w] = 0]
            /\ now' = [now EXCEPT ![w] = 0]
            /\ lastClean' = [lastClean EXCEPT ![w] = now[w]]
        BY <1>17, <2>2 DEF CleanUnlock
      <4> QED BY <1>17, <4>1, ZeroBucket DEF CleanUnlock
    <3>3. (TableConsistent /\ OneFlowPerTuple)'
      BY <1>17 DEF CleanUnlock
    <3>3a. \A v \in Lcores, g \in Flows : Holds(v, g) => Holds(v, g)'
      BY <1>17 DEF CleanUnlock
    <3>3b. live' = live /\ use_cnt' = use_cnt
      BY <1>17 DEF CleanUnlock
    <3>3c. NoLeakedReference'
      BY <3>3a, <3>3b, SameHolders
    <3>4. ASSUME NEW v \in Lcores PROVE LcoreInv(v)'
      BY <1>17, <2>2, ZeroBucket DEF CleanUnlock
    <3> QED BY <3>2, <3>3, <3>3c, <3>4
  <2> QED BY <2>1, <2>2
<1>18. ASSUME NEW w \in Lcores, CleanAge(w) PROVE IInv'
  <2>1. PICK f \in todo[w] :
           /\ cur' = [cur EXCEPT ![w] = f]
           /\ todo' = [todo EXCEPT ![w] = @ \ {f}]
           /\ tmp' = [tmp EXCEPT ![w] = Age(now[w], last_ts[f])]
    BY <1>18 DEF CleanAge
  <2>2. f \in Flows /\ f \in chain[bkt[w]] /\ Age(now[w], last_ts[f]) \in Nat
    BY <1>18, <2>1, AgeRange DEF CleanAge
  <2>3. TypeOK'
    BY <1>18, <2>1, <2>2 DEF CleanAge
  <2>4. (TableConsistent /\ OneFlowPerTuple)'
    BY <1>18, <2>1 DEF CleanAge
  <2>4a. \A v \in Lcores, g \in Flows : Holds(v, g) => Holds(v, g)'
    BY <1>18, <2>1 DEF CleanAge
  <2>4b. live' = live /\ use_cnt' = use_cnt
    BY <1>18, <2>1 DEF CleanAge
  <2>4c. NoLeakedReference'
    BY <2>4a, <2>4b, SameHolders
  <2>5. ASSUME NEW v \in Lcores PROVE LcoreInv(v)'
    BY <1>18, <2>1, <2>2 DEF CleanAge
  <2> QED BY <2>3, <2>4, <2>4c, <2>5
<1>19. ASSUME NEW w \in Lcores, GetFound(w) PROVE IInv'
  <2>1. PICK f \in Matches(w) : cur' = [cur EXCEPT ![w] = f] /\ tmp' = [tmp EXCEPT ![w] = use_cnt[f]]
    BY <1>19 DEF GetFound
  <2>2. f \in live /\ f \in Flows /\ SameFlow(key[f], pkt[w])
    BY <2>1, BucketType DEF Matches
  <2>3. \A v \in Lcores : ~ Holds(v, f)
    <3>1. SUFFICES ASSUME NEW v \in Lcores, Holds(v, f) PROVE FALSE
      OBVIOUS
    <3>2. v # w
      BY <1>19, <3>1 DEF GetFound
    <3> QED BY <1>19, <2>2, <3>1, <3>2, NotShared DEF GetFound
  <2>4. use_cnt[f] = 0
    BY <2>2, <2>3
  <2>5. TypeOK'
    BY <1>19, <2>1, <2>2, <2>4 DEF GetFound
  <2>6. (TableConsistent /\ OneFlowPerTuple)'
    BY <1>19, <2>1, <2>2, <2>4 DEF GetFound
  <2>6a. \A v \in Lcores, g \in Flows : Holds(v, g) => Holds(v, g)'
    BY <1>19, <2>1, <2>2, <2>4 DEF GetFound
  <2>6b. live' = live /\ use_cnt' = use_cnt
    BY <1>19, <2>1, <2>2, <2>4 DEF GetFound
  <2>6c. NoLeakedReference'
    BY <2>6a, <2>6b, SameHolders
  <2>7. ASSUME NEW v \in Lcores PROVE LcoreInv(v)'
    BY <1>19, <2>1, <2>2, <2>4 DEF GetFound
  <2> QED BY <2>5, <2>6, <2>6c, <2>7
<1>20. ASSUME NEW w \in Lcores, GetInc(w) PROVE IInv'
  <2>1. cur[w] \in live /\ cur[w] \in Flows /\ SameFlow(key[cur[w]], pkt[w]) /\ pc[w] = "inc"
    BY <1>20 DEF GetInc
  <2>2. use_cnt' = [use_cnt EXCEPT ![cur[w]] = 1]
    BY <1>20, UseIncOfZero DEF GetInc
  <2>3. \A v \in Lcores : v # w /\ pc[v] \in FlowStates => cur[v] # cur[w]
    BY <2>1, NotShared
  <2>5. TypeOK'
    BY <1>20, <2>1, <2>2, <2>3 DEF GetInc
  <2>6. (TableConsistent /\ OneFlowPerTuple)'
    BY <1>20, <2>1, <2>2, <2>3 DEF GetInc
  <2>6a. NoLeakedReference'
    BY <1>20, <2>1, <2>2, <2>3 DEF GetInc
  <2>7. ASSUME NEW v \in Lcores PROVE LcoreInv(v)'
    BY <1>20, <2>1, <2>2, <2>3 DEF GetInc
  <2> QED BY <2>5, <2>6, <2>6a, <2>7
<1>21. ASSUME NEW w \in Lcores, GetCreate(w) PROVE IInv'
  <2>1. PICK f \in Flows \ live :
          /\ live' = live \cup {f}
          /\ key' = [key EXCEPT ![f] = pkt[w]]
          /\ use_cnt' = [use_cnt EXCEPT ![f] = 1]
          /\ last_ts' = [last_ts EXCEPT ![f] = clock]
          /\ timeout' = [timeout EXCEPT ![f] = TimeoutNew]
          /\ flowLock' = [flowLock EXCEPT ![f] = NoLcore]
          /\ chain' = [chain EXCEPT ![BucketOf(pkt[w])] = @ \cup {f}]
          /\ cur' = [cur EXCEPT ![w] = f]
    BY <1>21 DEF GetCreate
  <2>2. BucketOf(pkt[w]) \in Buckets /\ pc[w] = "search" /\ Matches(w) = {}
    BY <1>21, BucketType DEF GetCreate
  <2>3. TypeOK'
    BY <1>21, <2>1, <2>2 DEF GetCreate
  <2>4. TableConsistent'
    BY <2>1, <2>2
  <2>5. OneFlowPerTuple'
    <3>1. \A g \in live : ~ SameFlow(key[g], pkt[w]) /\ ~ SameFlow(pkt[w], key[g])
      BY <2>2, BucketType DEF Matches, SameFlow, BucketOf
    <3> QED BY <2>1, <3>1 
  <2>6. NoLeakedReference'
    <3>1. /\ pc' = [pc EXCEPT ![w] = "count"] /\ DOMAIN pc = Lcores
          /\ use_cnt' = [use_cnt EXCEPT ![f] = 1] /\ DOMAIN use_cnt = Flows
          /\ live' = live \cup {f} /\ live \subseteq Flows
          /\ cur' = [cur EXCEPT ![w] = f] /\ DOMAIN cur = Lcores
      BY <1>21, <2>1 DEF GetCreate
    <3>1a. NoLeakedReference /\ pc[w] = "search"
      BY <2>2
    <3> HIDE DEF IInv, TypeOK, NoLeakedReference
    <3>2. Holds(w, f)'
      BY <3>1 DEF Holds
    <3>3. ASSUME NEW g \in live, \A v \in Lcores : ~ Holds(v, g)'
          PROVE  use_cnt'[g] = 0
      <4>1. \A v \in Lcores : ~ Holds(v, g)
        BY <3>1a, <3>1, <3>3 DEF Holds
      <4> QED BY <3>1a, <3>1, <4>1 DEF NoLeakedReference
    <3> QED BY <3>1, <3>2, <3>3 DEF NoLeakedReference
  <2>7. ASSUME NEW v \in Lcores PROVE LcoreInv(v)'
    BY <1>21, <2>1, <2>2, <2>7 DEF GetCreate, SameFlow
  <2> QED BY <2>3, <2>4, <2>5, <2>6, <2>7
<1>22. ASSUME NEW w \in Lcores, RelLoad(w) PROVE IInv'
  <2>1. TypeOK'
    BY <1>22 DEF RelLoad
  <2>2. (TableConsistent /\ OneFlowPerTuple)'
    BY <1>22 DEF RelLoad
  <2>2a. \A v \in Lcores, g \in Flows : Holds(v, g) => Holds(v, g)'
    BY <1>22 DEF RelLoad
  <2>2b. live' = live /\ use_cnt' = use_cnt
    BY <1>22 DEF RelLoad
  <2>2c. NoLeakedReference'
    BY <2>2a, <2>2b, SameHolders
  <2>3. ASSUME NEW v \in Lcores PROVE LcoreInv(v)'
    BY <1>22 DEF RelLoad
  <2> QED BY <2>1, <2>2, <2>2c, <2>3
<1>23. ASSUME NEW w \in Lcores, RelStore(w) PROVE IInv'
  <2>1. cur[w] \in live /\ cur[w] \in Flows /\ SameFlow(key[cur[w]], pkt[w]) /\ pc[w] = "rel_store"
    BY <1>23 DEF RelStore
  <2>2. use_cnt' = [use_cnt EXCEPT ![cur[w]] = 0]
    <3>1. tmp[w] = 1
      BY <2>1
    <3>2. use_cnt' = [use_cnt EXCEPT ![cur[w]] = UseDec(tmp[w], @)]
      BY <1>23 DEF RelStore
    <3> HIDE DEF IInv
    <3> QED BY <3>1, <3>2, UseDecOfOne
  <2>3. \A v \in Lcores : v # w /\ pc[v] \in FlowStates => cur[v] # cur[w]
    BY <2>1, NotShared
  <2>5. TypeOK'
    BY <1>23, <2>1, <2>2, <2>3 DEF RelStore
  <2>6. (TableConsistent /\ OneFlowPerTuple)'
    BY <1>23, <2>1, <2>2, <2>3 DEF RelStore
  <2>6a. NoLeakedReference'
    BY <1>23, <2>1, <2>2, <2>3 DEF RelStore
  <2>7. ASSUME NEW v \in Lcores PROVE LcoreInv(v)'
    BY <1>23, <2>1, <2>2, <2>3 DEF RelStore
  <2> QED BY <2>5, <2>6, <2>6a, <2>7
<1>24. ASSUME NEW w \in Lcores, CleanRemove(w) PROVE IInv'
  <2> DEFINE f == cur[w]
  <2>1. /\ pc[w] = "clean_decide" /\ use_cnt[f] = 0
        /\ chain' = [chain EXCEPT ![bkt[w]] = @ \ {f}]
        /\ f \in chain[bkt[w]] \ todo[w] /\ f \in Flows /\ f \in live
        /\ bucketLock[bkt[w]] = w /\ BucketOf(key[f]) = bkt[w]
    <3>1. pc[w] = "clean_decide" /\ use_cnt[f] = 0
      BY <1>24 DEF CleanRemove, ShouldRemove
    <3>2. f \in chain[bkt[w]] \ todo[w] /\ bucketLock[bkt[w]] = w /\ bkt[w] \in Buckets
      BY <3>1
    <3>3. f \in live /\ f \in Flows /\ BucketOf(key[f]) = bkt[w]
      BY <3>2
    <3>4. chain' = [chain EXCEPT ![bkt[w]] = @ \ {f}]
      BY <1>24 DEF CleanRemove, Unlink
    <3> QED BY <3>1, <3>2, <3>3, <3>4
  <2>2. \A v \in Lcores : pc[v] \in FlowStates => cur[v] # f
    <3>1. SUFFICES ASSUME NEW v \in Lcores, pc[v] = "inc", cur[v] = f PROVE FALSE
      BY <2>1
    <3>2. BucketOf(pkt[v]) = bkt[w]
      BY <2>1, <3>1 DEF SameFlow, BucketOf
    <3> QED BY <2>1, <3>1, <3>2
  <2>3. TypeOK'
    BY <1>24, <2>1 DEF CleanRemove
  <2>4. (TableConsistent /\ OneFlowPerTuple)'
    BY <1>24, <2>1 DEF CleanRemove
  <2>5. NoLeakedReference'
    BY <1>24, <2>1, <2>2 DEF CleanRemove
  <2>6. ASSUME NEW v \in Lcores PROVE LcoreInv(v)'
    BY <1>24, <2>1, <2>2 DEF CleanRemove
  <2> QED BY <2>3, <2>4, <2>5, <2>6
<1> QED BY <1>1, <1>2, <1>3, <1>4, <1>5, <1>6, <1>7, <1>8, <1>9, <1>10, <1>11, <1>12,
           <1>13, <1>14, <1>15, <1>16, <1>17, <1>18, <1>19, <1>20, <1>21, <1>22, <1>23, <1>24
        DEF Next, Step, FlowGet, FlowRelease, FlowCleanupExpired, Quiet

-----------------------------------------------------------------------------
\* The inductive invariant holds in every state of every run: for any number
\* of lcores that receive disjoint flows, the locks of flow.c keep use_cnt
\* equal to the references held.
THEOREM FlowTableInvariant == Spec => []IInv
  BY InitIInv, NextIInv, PTL DEF Spec

\* Type correctness of the flow table: use_cnt and flows_active stay in their
\* widths, every lcore is in a defined state.
THEOREM FlowTableType == Spec => []TypeOK
<1>1. IInv => TypeOK
  BY DEF IInv
<1> QED BY <1>1, FlowTableInvariant, PTL

\* flow_cleanup_expired on any lcore never frees a flow another lcore has
\* between flow_get and flow_release.
THEOREM FlowTableHeldFlowIsLive == Spec => []HeldFlowIsLive
<1>1. IInv => HeldFlowIsLive
  BY DEF IInv, LcoreInv, HeldFlowIsLive, Holds, HoldStates, FlowStates
<1> QED BY <1>1, FlowTableInvariant, PTL

\* No interleaving leaves a reference behind that would keep an idle flow in
\* the table for ever.
THEOREM FlowTableNoLeak == Spec => []NoLeakedReference
<1>1. IInv => NoLeakedReference
  BY DEF IInv
<1> QED BY <1>1, FlowTableInvariant, PTL

\* No two flows of the table match the same packet, and the buckets link
\* exactly the allocated flows.
THEOREM FlowTableStructure == Spec => []TableSound
<1>1. IInv => TableSound
  BY DEF IInv, TableSound
<1> QED BY <1>1, FlowTableInvariant, PTL

-----------------------------------------------------------------------------
(***************************************************************************)
(* A single forwarding lcore.  No step of another lcore falls between the  *)
(* change of a list and of the counter; with two lcores in two buckets the *)
(* counter, and with it the limit, may be missed.                          *)
(***************************************************************************)
Adding   == {"count", "count_store"}
Removing == {"clean_count", "clean_count_store"}

\* flows_active is off by the flow in hand, and by nothing else.
Counted(l) ==
    /\ IsFiniteSet(live)
    /\ Cardinality(live) <= MaxFlows
    /\ pc[l] \in Adding => Cardinality(live) = flows_active + 1
    /\ pc[l] \in Removing => flows_active = Cardinality(live) + 1
    /\ pc[l] \notin Adding \cup Removing => flows_active = Cardinality(live)
    /\ pc[l] \in {"count_store", "clean_count_store"} => tmp[l] = flows_active

LEMMA CountedStep ==
  ASSUME NEW l, Lcores = {l}, IInv, Counted(l), [Next]_vars
  PROVE  Counted(l)'
<1> USE DEF Goto
<1>0. /\ l \in Lcores /\ pc[l] \in States /\ pc \in [Lcores -> States]
      /\ tmp \in [Lcores -> Nat] /\ flows_active \in 0 .. ActiveMod - 1
      /\ ActiveMod \in Nat \ {0} /\ MaxFlows \in Nat /\ MaxFlows < ActiveMod
      /\ Cardinality(live) \in Nat
  BY FlowTableAssumption, FS_CardinalityType DEF IInv, TypeOK, Counted
\* the steps that change neither the table nor the counter
<1>1. ASSUME live' = live, flows_active' = flows_active,
             pc'[l] \in Adding <=> pc[l] \in Adding,
             pc'[l] \in Removing <=> pc[l] \in Removing,
             pc'[l] \in {"count_store", "clean_count_store"} => tmp'[l] = flows_active
      PROVE  Counted(l)'
  BY <1>1 DEF Counted
<1>2. ASSUME GetCreate(l) PROVE Counted(l)'
  <2>1. PICK f \in Flows \ live : live' = live \cup {f}
    BY <1>2 DEF GetCreate
  <2>2. IsFiniteSet(live') /\ Cardinality(live') = Cardinality(live) + 1
    BY <2>1, FS_AddElement DEF Counted
  <2>3. pc[l] = "search" /\ pc'[l] = "count" /\ flows_active' = flows_active
        /\ ~ (flows_active >= MaxFlows)
    BY <1>0, <1>2 DEF GetCreate, TableFull
  <2>4. flows_active = Cardinality(live)
    BY <2>3 DEF Counted, Adding, Removing
  <2> QED BY <1>0, <2>2, <2>3, <2>4 DEF Counted, Adding, Removing
<1>3. ASSUME CountStore(l) PROVE Counted(l)'
  <2>1. pc[l] = "count_store" /\ pc'[l] = "update" /\ live' = live
        /\ flows_active' = (tmp[l] + 1) % ActiveMod
    BY <1>0, <1>3 DEF CountStore
  <2>2. tmp[l] + 1 = Cardinality(live)
    BY <2>1 DEF Counted, Adding
  <2>3. (tmp[l] + 1) % ActiveMod = Cardinality(live)
    BY <1>0, <2>2 DEF Counted
  <2> QED BY <2>1, <2>3 DEF Counted, Adding, Removing
<1>4. ASSUME CleanRemove(l) PROVE Counted(l)'
  <2>1. pc[l] = "clean_decide" /\ pc'[l] = "clean_count" /\ live' = live \ {cur[l]}
        /\ flows_active' = flows_active
    BY <1>0, <1>4 DEF CleanRemove
  <2>2. cur[l] \in live
    BY <1>0, <2>1 DEF IInv, LcoreInv, TableConsistent, TypeOK
  <2>3. IsFiniteSet(live') /\ Cardinality(live') = Cardinality(live) - 1
    BY <2>1, <2>2, FS_RemoveElement DEF Counted
  <2> QED BY <1>0, <2>1, <2>3 DEF Counted, Adding, Removing
<1>5. ASSUME UncountStore(l) PROVE Counted(l)'
  <2>1. pc[l] = "clean_count_store" /\ pc'[l] = "clean_scan" /\ live' = live
        /\ flows_active' = (tmp[l] - 1) % ActiveMod
    BY <1>0, <1>5 DEF UncountStore, ActiveDec
  <2>2. tmp[l] - 1 = Cardinality(live)
    BY <1>0, <2>1 DEF Counted, Removing
  <2>3. (tmp[l] - 1) % ActiveMod = Cardinality(live)
    BY <1>0, <2>2 DEF Counted
  <2> QED BY <2>1, <2>3 DEF Counted, Adding, Removing
<1>6. ASSUME CountLoad(l) \/ UncountLoad(l) PROVE Counted(l)'
  BY <1>0, <1>1, <1>6 DEF CountLoad, UncountLoad, Adding, Removing
<1>7. ASSUME \/ \E k \in Keys : RxPacket(l, k)
             \/ GetLock(l) \/ GetFound(l) \/ GetInc(l) \/ GetFull(l) \/ GetNoMemory(l)
      PROVE  Counted(l)'
  BY <1>0, <1>1, <1>7 DEF RxPacket, GetLock, GetFound, GetInc, GetFull, GetNoMemory, Return,
                          Adding, Removing
<1>8. ASSUME FlowUpdate(l) \/ FlowRelease(l) \/ PostRead(l) PROVE Counted(l)'
  BY <1>0, <1>1, <1>8 DEF FlowUpdate, FlowRelease, RelLoad, RelStore, RelUnlock, PostRead,
                          Return, Adding, Removing
<1>9. ASSUME CleanStart(l) \/ CleanLock(l) \/ CleanAge(l) \/ CleanKeep(l) \/ CleanUnlock(l)
      PROVE  Counted(l)'
  BY <1>0, <1>1, <1>9 DEF CleanStart, CleanLock, CleanAge, CleanKeep, CleanUnlock,
                          Adding, Removing
<1>10. ASSUME Tick \/ UNCHANGED vars PROVE Counted(l)'
  BY <1>10 DEF Counted, Tick, vars
<1> QED BY <1>2, <1>3, <1>4, <1>5, <1>6, <1>7, <1>8, <1>9, <1>10
        DEF Next, Step, FlowGet, FlowCleanupExpired, Quiet

\* flow_config.max_flows is kept, and flows_active, which flow_get checks it
\* against, is the size of the table whenever no flow is being linked or
\* unlinked.
THEOREM FlowTableLimit ==
  ASSUME NEW l, Lcores = {l}
  PROVE  Spec => []LimitKept
<1>1. Init => Counted(l)
  BY FS_EmptySet, FlowTableAssumption DEF Init, Counted, Adding, Removing
<1>2. IInv /\ Counted(l) /\ [Next]_vars => Counted(l)'
  BY CountedStep
<1>3. Counted(l) => LimitKept
  BY DEF Counted, LimitKept, FlowLimit, ActiveCountExact, Adding, Removing
<1> QED BY <1>1, <1>2, <1>3, FlowTableInvariant, PTL DEF Spec
=============================================================================
