---------------------------- MODULE SystemProofs ----------------------------
(***************************************************************************)
(* Theorems about System, for any number of instances that are started,    *)
(* killed and restarted in any order, any modules and any configurations.  *)
(***************************************************************************)
EXTENDS System, FiniteSetTheorems, NaturalsInduction, WellFoundedInduction, TLAPS

(***************************************************************************)
(* The inductive invariant.                                                *)
(***************************************************************************)
Places == {"off", "check", "probe", "unlink", "eal", "init", "launch", "write", "normal", "end", "gone"}

Types ==
    /\ TypeOK
    /\ seen \in [Instances -> Pids]
    /\ unlinked \in BOOLEAN

\* from rte_eal_init to its end an instance, and no other, holds the EAL
Holding == {"init", "launch", "write", "normal", "end"}
OneHolder == \A p \in Instances : at[p] \in Holding <=> primary = p

\* The pid in the file, or read from it, is that of an instance that wrote it
\* and runs or has ended; an instance that removes the file has found that
\* the instance it read of has ended, which is for good.
Written(pid) == pid # NoPid => at[pid] \in {"normal", "gone"}
PidsWritten ==
    /\ Written(pidfile)
    /\ \A p \in Instances :
          /\ Written(seen[p])
          /\ at[p] \in {"probe", "unlink"} => seen[p] # NoPid
          /\ at[p] = "unlink" => at[seen[p]] = "gone"

SysInv == Types /\ OneHolder /\ PidsWritten /\ PidFileNamesRunner

-----------------------------------------------------------------------------
LEMMA TypesOf ==
  ASSUME SysInv
  PROVE  /\ at \in [Instances -> Places] /\ pidfile \in Pids /\ primary \in Pids
         /\ looping \subseteq Enabled /\ (looping # {} => primary # NoPid)
         /\ seen \in [Instances -> Pids] /\ unlinked \in BOOLEAN
BY DEF SysInv, Types, TypeOK, Places

LEMMA NoPidOutside == NoPid \notin Instances /\ main_lcore \in Enabled
BY SystemAssumption, NetifAssumption

\* The invariant when an instance only moves on in main, past nothing that
\* the others can see.
LEMMA MoveOn ==
  ASSUME SysInv, NEW p \in Instances, NEW x \in Places,
         at' = [at EXCEPT ![p] = x],
         UNCHANGED <<pidfile, primary, looping, unlinked>>,
         seen' \in [Instances -> Pids], \A q \in Instances : q # p => seen'[q] = seen[q],
         at[p] \in Holding <=> x \in Holding, at[p] # "gone", at[p] # "normal",
         x \notin {"normal", "init"},
         x \in {"probe", "unlink"} => seen'[p] # NoPid,
         Written(seen'[p]),
         x = "unlink" => at[seen'[p]] = "gone"
  PROVE  SysInv'
<1>1. at' \in [Instances -> Places] /\ at'[p] = x /\ \A q \in Instances : q # p => at'[q] = at[q]
  BY TypesOf
<1>2. Types'
  BY <1>1, TypesOf DEF Types, TypeOK, Places
<1>3. OneHolder'
  BY <1>1 DEF SysInv, OneHolder
<1>5. ASSUME NEW pid \in Pids, Written(pid) PROVE pid # NoPid => at'[pid] = at[pid]
  BY <1>1, <1>5, NoPidOutside DEF Written, Pids
<1>6. Written(pidfile) /\ \A q \in Instances : Written(seen[q]) /\ Written(seen'[q])
  BY DEF SysInv, PidsWritten
<1>7. PidsWritten'
  <2>1. Written(pidfile)'
    BY <1>5, <1>6, TypesOf DEF Written
  <2>2. ASSUME NEW q \in Instances
        PROVE  /\ Written(seen[q])'
               /\ at'[q] \in {"probe", "unlink"} => seen'[q] # NoPid
               /\ at'[q] = "unlink" => at'[seen'[q]] = "gone"
    <3>0. seen'[q] \in Pids
      OBVIOUS
    <3>1. Written(seen[q])' /\ (seen'[q] # NoPid => at'[seen'[q]] = at[seen'[q]])
      BY <1>5, <1>6, <3>0 DEF Written
    <3>2. CASE q = p
      BY <1>1, <3>1, <3>2
    <3>3. CASE q # p
      BY <1>1, <3>1, <3>3 DEF SysInv, PidsWritten
    <3> QED BY <3>2, <3>3
  <2> QED BY <2>1, <2>2 DEF PidsWritten
<1>8. PidFileNamesRunner'
  BY <1>1 DEF SysInv, PidFileNamesRunner
<1> QED BY <1>2, <1>3, <1>7, <1>8 DEF SysInv

\* The end of an instance, wherever it was.
LEMMA ExitInv ==
  ASSUME SysInv, NEW p \in Instances, at[p] # "off", Exit(p)
  PROVE  SysInv'
<1>1. /\ at' \in [Instances -> Places] /\ at'[p] = "gone"
      /\ \A q \in Instances : q # p => at'[q] = at[q]
      /\ UNCHANGED <<seen, pidfile, unlinked>>
  BY TypesOf DEF Exit, Places
<1>2. CASE primary = p
  <2>1. primary' = NoPid /\ looping' = {}
    BY <1>2 DEF Exit
  <2>2. Types'
    BY <1>1, <2>1, TypesOf DEF Types, TypeOK, Places, Pids
  <2>3. OneHolder'
    BY <1>1, <1>2, <2>1, NoPidOutside DEF SysInv, OneHolder, Holding
  <2>4. \A q \in Instances : at'[q] \notin Holding
    BY <2>1, <2>3, NoPidOutside DEF OneHolder
  <2>5. PidFileNamesRunner'
    BY <2>4 DEF PidFileNamesRunner, Holding
  <2>6. PidsWritten'
    BY <1>1, TypesOf DEF SysInv, PidsWritten, Written, Pids
  <2> QED BY <2>2, <2>3, <2>5, <2>6 DEF SysInv
<1>3. CASE primary # p
  <2>1. UNCHANGED <<primary, looping>>
    BY <1>3 DEF Exit, setup
  <2>2. Types'
    BY <1>1, <2>1, TypesOf DEF Types, TypeOK, Places, Pids
  <2>3. OneHolder'
    BY <1>1, <1>3, <2>1, NoPidOutside DEF SysInv, OneHolder, Holding
  <2>5. PidFileNamesRunner'
    BY <1>1 DEF SysInv, PidFileNamesRunner
  <2>6. PidsWritten'
    BY <1>1, TypesOf DEF SysInv, PidsWritten, Written, Pids
  <2> QED BY <2>2, <2>3, <2>5, <2>6 DEF SysInv
<1> QED BY <1>2, <1>3

LEMMA InitInv == Init => SysInv
<1> SUFFICES ASSUME Init PROVE SysInv
  OBVIOUS
<1>1. \A p \in Instances : at[p] = "off" /\ seen[p] = NoPid
  BY DEF Init
<1>2. Types
  BY DEF Init, Types, TypeOK, Pids
<1>3. OneHolder /\ PidFileNamesRunner
  BY <1>1, NoPidOutside DEF Init, OneHolder, Holding, PidFileNamesRunner
<1>4. PidsWritten
  BY <1>1 DEF Init, PidsWritten, Written
<1> QED BY <1>2, <1>3, <1>4 DEF SysInv

\* the variables the invariant is about
inv == <<at, seen, pidfile, primary, looping, unlinked>>

LEMMA StutterInv == ASSUME SysInv, UNCHANGED inv PROVE SysInv'
BY DEF inv, SysInv, Types, TypeOK, OneHolder, PidsWritten, Written, PidFileNamesRunner

\* Only the holder of the EAL is past "eal" and before its end.
LEMMA Alone ==
  ASSUME SysInv, NEW p \in Instances, at[p] \in Holding
  PROVE  primary = p /\ \A q \in Instances : q # p => at[q] \notin Holding
BY DEF SysInv, OneHolder

LEMMA SysNext == SysInv /\ [Next]_vars => SysInv'
<1> SUFFICES ASSUME SysInv, [Next]_vars PROVE SysInv'
  OBVIOUS
<1>0. ASSUME NEW p \in Instances PROVE Written(seen[p]) /\ Written(pidfile)
  BY DEF SysInv, PidsWritten
<1>1. ASSUME NEW p \in Instances, Start(p) PROVE SysInv'
  BY <1>0, <1>1, MoveOn, TypesOf DEF Start, setup, Places, Holding
<1>2. ASSUME NEW p \in Instances, ReadPid(p) PROVE SysInv'
  <2> DEFINE x == IF pidfile = NoPid THEN "eal" ELSE "probe"
  <2>1. /\ at[p] = "check" /\ at' = [at EXCEPT ![p] = x] /\ x \in {"eal", "probe"}
        /\ seen' \in [Instances -> Pids] /\ seen'[p] = pidfile
        /\ \A q \in Instances : q # p => seen'[q] = seen[q]
        /\ UNCHANGED <<pidfile, primary, looping, unlinked>>
        /\ x = "probe" => pidfile # NoPid
    BY <1>2, TypesOf DEF ReadPid, setup
  <2> HIDE DEF x
  <2> QED BY <1>0, <2>1, MoveOn DEF Places, Holding
<1>3. ASSUME NEW p \in Instances, Probe(p) PROVE SysInv'
  <2>1. at[p] = "probe" /\ seen[p] \in Instances /\ at[seen[p]] \in {"normal", "gone"}
    BY <1>3, TypesOf DEF Probe, SysInv, PidsWritten, Written, Pids
  <2>2. CASE at[seen[p]] = "gone"
    <3>1. at' = [at EXCEPT ![p] = "unlink"] /\ UNCHANGED <<seen, pidfile, primary, looping, unlinked>>
      BY <1>3, <2>2 DEF Probe, Found, Alive, setup
    <3> QED BY <1>0, <2>1, <2>2, <3>1, MoveOn, TypesOf, NoPidOutside DEF Places, Holding
  <2>3. CASE at[seen[p]] = "normal"
    <3>1. at' = [at EXCEPT ![p] = "gone"] /\ UNCHANGED <<seen, pidfile, primary, looping, unlinked>>
      BY <1>3, <2>1, <2>3 DEF Probe, Found, Alive, setup
    <3> QED BY <1>0, <2>1, <3>1, MoveOn, TypesOf DEF Places, Holding
  <2> QED BY <2>1, <2>2, <2>3
<1>4. ASSUME NEW p \in Instances, Unlink(p) PROVE SysInv'
  <2>1. /\ at[p] = "unlink" /\ pidfile' = NoPid /\ at' = [at EXCEPT ![p] = "eal"]
        /\ unlinked' = (unlinked \/ pidfile # seen[p])
        /\ UNCHANGED <<seen, primary, looping>>
    BY <1>4 DEF Unlink, setup
  <2>2. unlinked' \in BOOLEAN /\ (unlinked' <=> unlinked \/ pidfile # seen[p])
    BY <2>1, TypesOf
  <2>3. seen[p] \in Instances /\ at[seen[p]] = "gone"
    BY <2>1, TypesOf DEF SysInv, PidsWritten, Pids
  <2>4. at' \in [Instances -> Places] /\ at'[p] = "eal" /\ \A q \in Instances : q # p => at'[q] = at[q]
    BY <2>1, TypesOf DEF Places
  <2>5. Types'
    BY <2>1, <2>2, <2>4, TypesOf DEF Types, TypeOK, Places, Pids
  <2>6. OneHolder'
    BY <2>1, <2>4 DEF SysInv, OneHolder, Holding
  <2>7. PidsWritten'
    <3>1. ASSUME NEW q \in Instances PROVE Written(seen[q])' /\ (seen[q] # NoPid => at'[seen[q]] = at[seen[q]])
      BY <2>1, <2>4, <1>0, TypesOf DEF Written, Pids
    <3> QED BY <2>1, <2>4, <3>1 DEF SysInv, PidsWritten, Written
  <2>8. PidFileNamesRunner'
    \* the runner whose file is removed would have ended when p looked for it
    <3> SUFFICES ASSUME NEW q \in Instances, at'[q] = "normal", ~ unlinked' PROVE FALSE
      BY DEF PidFileNamesRunner
    <3>1. at[q] = "normal" /\ ~ unlinked /\ pidfile = seen[p]
      BY <2>2, <2>4
    <3>2. pidfile = q
      BY <3>1 DEF SysInv, PidFileNamesRunner
    <3> QED BY <2>3, <3>1, <3>2
  <2> QED BY <2>5, <2>6, <2>7, <2>8 DEF SysInv
<1>5. ASSUME NEW p \in Instances, EalInit(p) PROVE SysInv'
  <2>0. at[p] = "eal"
    BY <1>5 DEF EalInit
  <2>1. CASE Exit(p)
    BY <2>0, <2>1, ExitInv
  <2>2. CASE primary = NoPid /\ ~Exit(p)
    <3>1. /\ at[p] = "eal" /\ primary' = p /\ at' = [at EXCEPT ![p] = "init"]
          /\ UNCHANGED <<seen, pidfile, looping, unlinked>> /\ looping = {}
      BY <1>5, <2>2, TypesOf DEF EalInit, setup
    <3>2. at' \in [Instances -> Places] /\ at'[p] = "init" /\ \A q \in Instances : q # p => at'[q] = at[q]
      BY <3>1, TypesOf DEF Places
    <3>3. Types'
      BY <3>1, <3>2, TypesOf, NoPidOutside DEF Types, TypeOK, Places, Pids
    <3>4. OneHolder' /\ PidFileNamesRunner'
      BY <2>2, <3>1, <3>2, NoPidOutside DEF SysInv, OneHolder, Holding, PidFileNamesRunner
    <3>5. PidsWritten'
      <4>1. ASSUME NEW pid \in Pids, Written(pid) PROVE Written(pid)' /\ (pid # NoPid => at'[pid] = at[pid])
        BY <3>1, <3>2, <4>1 DEF Written, Pids
      <4> QED BY <3>1, <3>2, <4>1, <1>0, TypesOf DEF SysInv, PidsWritten, Written
    <3> QED BY <3>3, <3>4, <3>5 DEF SysInv
  <2> QED BY <1>5, <2>1, <2>2 DEF EalInit
<1>6. ASSUME NEW p \in Instances, InitModule(p) PROVE SysInv'
  <2>1. at[p] = "init"
    BY <1>6 DEF InitModule
  <2>2. CASE Exit(p)
    BY <2>1, <2>2, ExitInv
  <2>3. CASE UNCHANGED inv
    BY <2>3, StutterInv
  <2> QED BY <1>6, <2>2, <2>3 DEF InitModule, inv
<1>7. ASSUME NEW p \in Instances, StartPorts(p) PROVE SysInv'
  <2>1. at[p] = "init"
    BY <1>7 DEF StartPorts
  <2>2. CASE Exit(p)
    BY <2>1, <2>2, ExitInv
  <2>3. CASE /\ at' = [at EXCEPT ![p] = "launch"]
             /\ UNCHANGED <<seen, pidfile, primary, looping, unlinked>>
    BY <1>0, <2>1, <2>3, MoveOn, TypesOf DEF Places, Holding
  <2> QED BY <1>7, <2>2, <2>3 DEF StartPorts
<1>8. ASSUME NEW p \in Instances, Launch(p) PROVE SysInv'
  <2>1. /\ at[p] = "launch" /\ looping' = Slaves /\ at' = [at EXCEPT ![p] = "write"]
        /\ UNCHANGED <<seen, pidfile, primary, unlinked>>
    BY <1>8 DEF Launch
  <2>2. at' \in [Instances -> Places] /\ at'[p] = "write" /\ \A q \in Instances : q # p => at'[q] = at[q]
    BY <2>1, TypesOf DEF Places
  <2>3. primary = p /\ p # NoPid /\ \A q \in Instances : q # p => at[q] \notin Holding
    BY <2>1, Alone, NoPidOutside DEF Holding
  <2>4. Types'
    BY <2>1, <2>2, <2>3, TypesOf DEF Types, TypeOK, Places, Slaves
  <2>5. OneHolder' /\ PidFileNamesRunner'
    BY <2>1, <2>2, <2>3 DEF SysInv, OneHolder, Holding, PidFileNamesRunner
  <2>6. PidsWritten'
    <3>1. ASSUME NEW pid \in Pids, Written(pid) PROVE Written(pid)' /\ (pid # NoPid => at'[pid] = at[pid])
      BY <2>1, <2>2, <3>1 DEF Written, Pids
    <3> QED BY <2>1, <2>2, <3>1, <1>0, TypesOf DEF SysInv, PidsWritten, Written
  <2> QED BY <2>4, <2>5, <2>6 DEF SysInv
<1>9. ASSUME NEW p \in Instances, WritePid(p) PROVE SysInv'
  <2>1. at[p] = "write" /\ UNCHANGED <<seen, primary, unlinked>>
    BY <1>9 DEF WritePid
  <2>2. primary = p /\ p # NoPid /\ \A q \in Instances : q # p => at[q] \notin Holding
    BY <2>1, Alone, NoPidOutside DEF Holding
  <2>3. \/ /\ pidfile' = p /\ at' = [at EXCEPT ![p] = "normal"]
           /\ looping' = looping \cup {main_lcore}
        \/ /\ at' = [at EXCEPT ![p] = "end"] /\ UNCHANGED <<pidfile, looping>>
    BY <1>9 DEF WritePid
  <2>4. at' \in [Instances -> Places] /\ at'[p] \in {"normal", "end"}
        /\ \A q \in Instances : q # p => at'[q] = at[q]
    BY <2>3, TypesOf DEF Places
  <2>5. Types'
    <3>1. pidfile' \in Pids /\ looping' \subseteq Enabled
      BY <2>3, TypesOf, NoPidOutside DEF Pids
    <3> QED BY <2>1, <2>2, <2>4, <3>1, TypesOf DEF Types, TypeOK, Places
  <2>6. OneHolder'
    BY <2>1, <2>2, <2>3, <2>4, TypesOf DEF SysInv, OneHolder, Holding
  <2>7. PidFileNamesRunner'
    BY <2>1, <2>2, <2>3, <2>4, TypesOf DEF PidFileNamesRunner, Holding
  <2>8. PidsWritten'
    <3>1. ASSUME NEW pid \in Pids, Written(pid) PROVE Written(pid)' /\ (pid # NoPid => at'[pid] = at[pid])
      BY <2>1, <2>4, <3>1 DEF Written, Pids
    <3>2. Written(pidfile)'
      <4>1. CASE pidfile' = p /\ at' = [at EXCEPT ![p] = "normal"]
        BY <4>1, TypesOf DEF Written
      <4>2. CASE pidfile' = pidfile
        BY <4>2, <3>1, <1>0, TypesOf DEF Written
      <4> QED BY <2>3, <4>1, <4>2
    <3> QED BY <2>1, <2>4, <3>1, <3>2, <1>0, TypesOf DEF SysInv, PidsWritten, Written
  <2> QED BY <2>5, <2>6, <2>7, <2>8 DEF SysInv
<1>10. ASSUME NEW p \in Instances, CleanUp(p) PROVE SysInv'
  <2>1. at[p] = "end"
    BY <1>10 DEF CleanUp
  <2>2. CASE Exit(p)
    BY <2>1, <2>2, ExitInv
  <2>3. CASE UNCHANGED inv
    BY <2>3, StutterInv
  <2> QED BY <1>10, <2>2, <2>3 DEF CleanUp, inv
<1>11. ASSUME NEW p \in Instances, Kill(p) PROVE SysInv'
  BY <1>11, ExitInv DEF Kill
<1>12. ASSUME NEW q, Arrive(q) PROVE SysInv'
  BY <1>12, StutterInv DEF Arrive, proc, setup, inv
<1>13. ASSUME NEW c, NEW q, Poll(c, q) PROVE SysInv'
  BY <1>13, StutterInv DEF Poll, RecvFwd, RecvOnIsolLcore, proc, setup, inv
<1>14. CASE UNCHANGED vars
  BY <1>14, StutterInv DEF vars, proc, setup, inv
<1> QED BY <1>1, <1>2, <1>3, <1>4, <1>5, <1>6, <1>7, <1>8, <1>9, <1>10, <1>11, <1>12, <1>13, <1>14
        DEF Next, Main

LEMMA SysInvariant == Spec => []SysInv
BY InitInv, SysNext, PTL DEF Spec

\* With any number of instances starting, running and ending at once, the pid
\* file names the instance that runs, unless another one removed it after
\* looking at an older one (netdefender_running, pidfile_write, main).
THEOREM PidFile == Spec => []PidFileNamesRunner
BY SysInvariant, PTL DEF SysInv

-----------------------------------------------------------------------------
(* Finite sets in order *)

StrictOrder(R, S) ==
    /\ \A x \in S : <<x, x>> \notin R
    /\ \A x, y \in S : x # y => <<x, y>> \in R \/ <<y, x>> \in R
    /\ \A x, y, z \in S : <<x, y>> \in R /\ <<y, z>> \in R => <<x, z>> \in R

Lists(f, S, R) ==
    /\ Cardinality(S) \in Nat /\ f \in [1 .. Cardinality(S) -> S]
    /\ \A i, j \in 1 .. Cardinality(S) : i < j => <<f[i], f[j]>> \in R
    /\ \A x \in S : \E i \in 1 .. Cardinality(S) : f[i] = x

\* A strict order lists a finite set.
LEMMA Ordered ==
  ASSUME NEW S, IsFiniteSet(S), NEW R, StrictOrder(R, S)
  PROVE  Lists(InOrder(S, R), S, R)
<1> USE DEF StrictOrder
<1> DEFINE n == Cardinality(S)
           Lower(x) == {y \in S : <<y, x>> \in R}
           rank == [x \in S |-> Cardinality(Lower(x)) + 1]
<1>1. n \in Nat /\ IsFiniteSet(1 .. n) /\ Cardinality(1 .. n) = n
  <2>1. n \in Nat
    BY FS_CardinalityType
  <2> HIDE DEF n
  <2> QED BY <2>1, FS_Interval
<1>2. ASSUME NEW x \in S
      PROVE  IsFiniteSet(Lower(x)) /\ Cardinality(Lower(x)) \in Nat /\ Cardinality(Lower(x)) < n
  <2>1. Lower(x) \in SUBSET S /\ Lower(x) # S
    OBVIOUS
  <2> HIDE DEF Lower
  <2>2. IsFiniteSet(Lower(x)) /\ Cardinality(Lower(x)) <= n /\ n # Cardinality(Lower(x))
    BY <2>1, FS_Subset
  <2> QED BY <1>1, <2>2, FS_CardinalityType
<1>3. ASSUME NEW x \in S, NEW y \in S, <<x, y>> \in R PROVE rank[x] < rank[y]
  <2>1. Lower(x) \in SUBSET Lower(y) /\ Lower(x) # Lower(y)
    BY <1>3
  <2>2. IsFiniteSet(Lower(x)) /\ Cardinality(Lower(x)) \in Nat
        /\ IsFiniteSet(Lower(y)) /\ Cardinality(Lower(y)) \in Nat
    BY <1>2
  <2> HIDE DEF Lower
  <2>3. Cardinality(Lower(x)) <= Cardinality(Lower(y)) /\ Cardinality(Lower(y)) # Cardinality(Lower(x))
    BY <2>1, <2>2, FS_Subset
  <2> QED BY <2>2, <2>3
<1>4. rank \in [S -> 1 .. n]
  <2> HIDE DEF Lower, n
  <2> QED BY <1>1, <1>2
<1> HIDE DEF rank
<1>5. ASSUME NEW x \in S, NEW y \in S, x # y PROVE rank[x] # rank[y]
  <2>1. rank[x] \in Int /\ rank[y] \in Int
    BY <1>1, <1>4
  <2>2. rank[x] < rank[y] \/ rank[y] < rank[x]
    BY <1>3, <1>5
  <2> QED BY <2>1, <2>2
<1>6. rank \in Surjection(S, 1 .. n)
  <2>1. rank \in Injection(S, 1 .. n)
    BY <1>4, <1>5 DEF Injection, IsInjective
  <2> HIDE DEF n
  <2> QED BY <1>1, <2>1, FS_Injection DEF n
<1>7. PICK g \in [1 .. n -> S] : \A i \in 1 .. n : rank[g[i]] = i
  <2> DEFINE g == [i \in 1 .. n |-> CHOOSE x \in S : rank[x] = i]
  <2>1. ASSUME NEW i \in 1 .. n PROVE g[i] \in S /\ rank[g[i]] = i
    <3>1. \E x \in S : rank[x] = i
      BY <1>6 DEF Surjection
    <3> QED BY <3>1
  <2> QED BY <2>1
<1>8. ASSUME NEW i \in 1 .. n, NEW j \in 1 .. n, i < j PROVE <<g[i], g[j]>> \in R
  <2>1. rank[g[i]] = i /\ rank[g[j]] = j /\ g[i] \in S /\ g[j] \in S
    BY <1>7
  <2>2. g[i] # g[j]
    BY <1>8, <2>1, <1>1
  <2>3. <<g[j], g[i]>> \notin R
    <3>1. <<g[j], g[i]>> \in R => j < i
      BY <1>3, <2>1
    <3> QED BY <1>1, <1>8, <3>1
  <2> QED BY <2>1, <2>2, <2>3
<1> DEFINE f == InOrder(S, R)
<1>9. f \in [1 .. n -> S] /\ \A i, j \in 1 .. n : i < j => <<f[i], f[j]>> \in R
  BY <1>7, <1>8 DEF InOrder
<1> HIDE DEF f
<1>10. f \in Surjection(1 .. n, S)
  <2>1. ASSUME NEW i \in 1 .. n, NEW j \in 1 .. n, i # j PROVE f[i] # f[j]
    <3>1. i < j \/ j < i
      BY <2>1, <1>1
    <3> QED BY <1>9, <3>1
  <2>2. f \in Injection(1 .. n, S)
    BY <1>9, <2>1 DEF Injection, IsInjective
  <2> QED BY <1>1, <2>2, FS_Injection
<1> QED BY <1>1, <1>9, <1>10 DEF f, Surjection, Lists

\* Numbers by size.
LEMMA Increasing ==
  ASSUME NEW S, S \subseteq Nat, IsFiniteSet(S), NEW T, S \subseteq T, T \subseteq Nat,
         NEW R, R = {s \in T \X T : s[1] < s[2]}
  PROVE  /\ Lists(InOrder(S, R), S, R)
         /\ \A x, y \in S : <<x, y>> \in R <=> x < y
<1>1. ASSUME NEW x \in S, NEW y \in S PROVE <<x, y>> \in R <=> x < y
  OBVIOUS
<1>2. StrictOrder(R, S)
  BY <1>1 DEF StrictOrder
<1> QED BY <1>1, <1>2, Ordered

LEMMA Smallest ==
  ASSUME NEW S, S \subseteq Nat, IsFiniteSet(S), S # {}
  PROVE  Min(S) \in S
<1> DEFINE R == {s \in S \X S : s[1] < s[2]}
           f == InOrder(S, R)
           n == Cardinality(S)
<1>0. Lists(f, S, R) /\ \A x, y \in S : <<x, y>> \in R <=> x < y
  BY Increasing
<1> HIDE DEF R, f
<1>1. /\ n \in Nat /\ f \in [1 .. n -> S]
      /\ \A i, j \in 1 .. n : i < j => f[i] < f[j]
      /\ \A x \in S : \E i \in 1 .. n : f[i] = x
  BY <1>0 DEF Lists
<1> HIDE DEF n
<1>2. 1 \in 1 .. n
  <2>1. PICK x \in S : TRUE
    OBVIOUS
  <2>2. PICK i \in 1 .. n : f[i] = x
    BY <1>1
  <2> QED BY <1>1, <2>2
<1>3. ASSUME NEW y \in S PROVE f[1] <= y
  <2>1. PICK i \in 1 .. n : f[i] = y
    BY <1>1
  <2>2. 1 < i => f[1] < f[i]
    BY <1>1, <1>2
  <2>3. f[1] \in Nat /\ f[i] \in Nat
    BY <1>1, <1>2
  <2> QED BY <1>1, <2>1, <2>2, <2>3
<1>4. \E x \in S : \A y \in S : x <= y
  BY <1>1, <1>2, <1>3
<1> QED BY <1>4 DEF Min

LEMMA Largest ==
  ASSUME NEW S, S \subseteq Nat, IsFiniteSet(S), S # {}
  PROVE  Max(S) \in S
<1> DEFINE R == {s \in S \X S : s[1] < s[2]}
           f == InOrder(S, R)
           n == Cardinality(S)
<1>0. Lists(f, S, R) /\ \A x, y \in S : <<x, y>> \in R <=> x < y
  BY Increasing
<1> HIDE DEF R, f
<1>1. /\ n \in Nat /\ f \in [1 .. n -> S]
      /\ \A i, j \in 1 .. n : i < j => f[i] < f[j]
      /\ \A x \in S : \E i \in 1 .. n : f[i] = x
  BY <1>0 DEF Lists
<1> HIDE DEF n
<1>2. n \in 1 .. n
  <2>1. PICK x \in S : TRUE
    OBVIOUS
  <2>2. PICK i \in 1 .. n : f[i] = x
    BY <1>1
  <2> QED BY <1>1, <2>2
<1>3. ASSUME NEW y \in S PROVE f[n] >= y
  <2>1. PICK i \in 1 .. n : f[i] = y
    BY <1>1
  <2>2. i < n => f[i] < f[n]
    BY <1>1, <1>2
  <2>3. f[n] \in Nat /\ f[i] \in Nat
    BY <1>1, <1>2
  <2> QED BY <1>1, <2>1, <2>2, <2>3
<1>4. \E x \in S : \A y \in S : x >= y
  BY <1>1, <1>2, <1>3
<1> QED BY <1>4 DEF Max

LEMMA LargestIs ==
  ASSUME NEW S, S \subseteq Nat, NEW i \in S, \A y \in S : i >= y
  PROVE  Max(S) = i
<1>1. \E x \in S : \A y \in S : x >= y
  OBVIOUS
<1>2. Max(S) \in S /\ \A y \in S : Max(S) >= y
  BY <1>1 DEF Max
<1> DEFINE m == Max(S)
<1>3. m \in S /\ m >= i /\ i >= m
  BY <1>2
<1> HIDE DEF m
<1>4. m = i
  BY <1>3
<1> QED BY <1>4 DEF m

LEMMA FiniteImage ==
  ASSUME NEW D, IsFiniteSet(D), NEW g, g = [x \in D |-> g[x]]
  PROVE  IsFiniteSet({g[x] : x \in D})
<1> DEFINE T == {g[x] : x \in D}
<1>1. g \in Surjection(D, T)
  BY Zenon DEF Surjection
<1> HIDE DEF T
<1>2. IsFiniteSet(T)
  BY <1>1, FS_Surjection
<1> QED BY <1>2 DEF T

LEMMA FiniteUnion ==
  ASSUME NEW D, IsFiniteSet(D), NEW g, g = [x \in D |-> g[x]], \A x \in D : IsFiniteSet(g[x])
  PROVE  IsFiniteSet(UNION {g[x] : x \in D})
<1> DEFINE T == {g[x] : x \in D}
<1>1. IsFiniteSet(T)
  BY FiniteImage
<1>2. \A t \in T : IsFiniteSet(t)
  OBVIOUS
<1> HIDE DEF T
<1>3. IsFiniteSet(UNION T)
  BY <1>1, <1>2, FS_UNION
<1> QED BY <1>3 DEF T

-----------------------------------------------------------------------------
(* lcore_conf *)

LEMMA RoleIsType == ASSUME NEW x PROVE RoleOf(x) \in WorkerTypes
BY DEF RoleOf, WorkerTypes

LEMMA Retyped == ASSUME NEW w \in WorkerConf, NEW t \in WorkerTypes
                 PROVE  [w EXCEPT !.type = t] \in WorkerConf
BY DEF WorkerConf

LEMMA RoleInPlace == ASSUME NEW w \in WorkerConf
                     PROVE  [w EXCEPT !.type = RoleOf(@)] \in WorkerConf
<1> DEFINE t == RoleOf(w.type)
<1>1. t \in WorkerTypes
  BY RoleIsType
<1>2. [w EXCEPT !.type = RoleOf(@)] = [w EXCEPT !.type = t]
  OBVIOUS
<1> HIDE DEF t
<1> QED BY <1>1, <1>2, Retyped

LEMMA ConfigSeq ==
  ASSUME NEW ws \in Seq(WorkerConf)
  PROVE  ConfigLcores(ws) \in Seq(WorkerConf)
<1> DEFINE S == NotMaster(ws)
           R == Before(ws)
<1>1. S \subseteq 1 .. Len(ws) /\ Len(ws) \in Nat /\ \A i \in S : ws[i] \in WorkerConf
  BY DEF NotMaster
<1>2. IsFiniteSet(S)
  <2>1. IsFiniteSet(1 .. Len(ws)) /\ S \in SUBSET (1 .. Len(ws))
    BY <1>1, FS_Interval
  <2> HIDE DEF S
  <2> QED BY <2>1, FS_Subset
<1>3. ASSUME NEW i \in S PROVE ws[i].cpu \in Nat /\ i \in Nat
  BY <1>1 DEF WorkerConf
<1>4. ASSUME NEW i \in S, NEW j \in S
      PROVE  <<i, j>> \in R <=> ws[i].cpu < ws[j].cpu \/ (ws[i].cpu = ws[j].cpu /\ i < j)
  BY DEF Before
<1> HIDE DEF S, R
<1>5. StrictOrder(R, S)
  BY <1>3, <1>4, SMTT(60) DEF StrictOrder
<1> DEFINE f == InOrder(S, R)
<1>6. Cardinality(S) \in Nat /\ f \in [1 .. Cardinality(S) -> S]
  BY <1>2, <1>5, Ordered DEF Lists
<1> DEFINE c == [n \in 1 .. Cardinality(S) |-> [ws[f[n]] EXCEPT !.type = RoleOf(@)]]
<1>7. ConfigLcores(ws) = c
  BY DEF ConfigLcores, S, R
<1>8. ASSUME NEW n \in 1 .. Cardinality(S) PROVE [ws[f[n]] EXCEPT !.type = RoleOf(@)] \in WorkerConf
  <2> HIDE DEF f
  <2>1. ws[f[n]] \in WorkerConf
    BY <1>1, <1>6
  <2> QED BY <2>1, RoleInPlace
<1>9. c \in [1 .. Cardinality(S) -> WorkerConf]
  BY <1>8
<1> HIDE DEF c
<1>10. c \in Seq(WorkerConf)
  BY <1>6, <1>9
<1> QED BY <1>7, <1>10

LEMMA UsedSeq ==
  ASSUME NEW X, NEW c \in Seq(X)
  PROVE  Used(c) \in Seq(X)
<1> DEFINE P == {i \in DOMAIN c : c[i].pqs = << >>}
<1>1. P \subseteq 1 .. Len(c) /\ Len(c) \in Nat
  OBVIOUS
<1>2. IsFiniteSet(P) /\ P \subseteq Nat
  <2> HIDE DEF P
  <2> DEFINE I == 1 .. Len(c)
  <2>1. IsFiniteSet(I)
    BY <1>1, FS_Interval
  <2>2. P \in SUBSET I /\ I \subseteq Nat
    BY <1>1
  <2> HIDE DEF I
  <2>3. IsFiniteSet(P)
    BY <2>1, <2>2, FS_Subset
  <2> QED BY <2>2, <2>3
<1>3. Used(c) = IF P = {} THEN c ELSE SubSeq(c, 1, Min(P) - 1)
  BY DEF Used
<1> HIDE DEF P
<1>4. P # {} => Min(P) \in 1 .. Len(c)
  BY <1>1, <1>2, Smallest
<1> QED BY <1>1, <1>3, <1>4

LEMMA EnabledFinite == IsFiniteSet(Enabled) /\ Cardinality(Enabled) \in Nat
<1>1. Enabled \in SUBSET Cpus /\ IsFiniteSet(Cpus)
  BY NetifAssumption
<1>2. IsFiniteSet(Enabled)
  BY <1>1, FS_Subset
<1> QED BY <1>2, FS_CardinalityType

\* What check_lcore_conf looks at is where it is in lcore_conf.
LEMMA CheckedPrefix ==
  ASSUME NEW c \in Seq(WorkerConf), NEW i \in DOMAIN Checked(c)
  PROVE  i \in DOMAIN c /\ Checked(c)[i] = c[i]
BY EnabledFinite DEF Checked

LEMMA SlotsAre ==
  ASSUME NEW c, NEW s
  PROVE  s \in RxSlots(c) <=>
           \E i \in DOMAIN c : \E j \in DOMAIN c[i].pqs : \E k \in DOMAIN c[i].pqs[j].rxqs :
              s = <<i, j, k>>
<1> DEFINE Of(i, j) == {<<i, j, k>> : k \in DOMAIN c[i].pqs[j].rxqs}
           In(i) == UNION {Of(i, j) : j \in DOMAIN c[i].pqs}
<1>1. RxSlots(c) = UNION {In(i) : i \in DOMAIN c}
  BY Zenon DEF RxSlots
<1>2. ASSUME NEW i, NEW j
      PROVE  s \in Of(i, j) <=> \E k \in DOMAIN c[i].pqs[j].rxqs : s = <<i, j, k>>
  BY Zenon
<1> HIDE DEF Of
<1>3. ASSUME NEW i PROVE s \in In(i) <=> \E j \in DOMAIN c[i].pqs : s \in Of(i, j)
  BY Zenon
<1> HIDE DEF In
<1>4. s \in RxSlots(c) <=> \E i \in DOMAIN c : s \in In(i)
  BY <1>1, Zenon
<1> QED BY <1>2, <1>3, <1>4, Zenon

LEMMA CheckedSlots ==
  ASSUME NEW c \in Seq(WorkerConf), NEW s \in RxSlots(Checked(c))
  PROVE  s \in RxSlots(c) /\ RxAt(Checked(c), s) = RxAt(c, s)
<1> DEFINE d == Checked(c)
<1>1. PICK i \in DOMAIN d : \E j \in DOMAIN d[i].pqs : \E k \in DOMAIN d[i].pqs[j].rxqs :
         s = <<i, j, k>>
  BY SlotsAre
<1>2. i \in DOMAIN c /\ d[i] = c[i]
  BY CheckedPrefix
<1> HIDE DEF d
<1>3. PICK j \in DOMAIN c[i].pqs : \E k \in DOMAIN c[i].pqs[j].rxqs : s = <<i, j, k>>
  BY <1>1, <1>2
<1>4. PICK k \in DOMAIN c[i].pqs[j].rxqs : s = <<i, j, k>>
  BY <1>3
<1>5. s \in RxSlots(c)
  BY <1>2, <1>4, SlotsAre, Zenon
<1>6. s[1] = i
  BY <1>4
<1>7. RxAt(d, s) = RxAt(c, s)
  BY <1>2, <1>6 DEF RxAt
<1> QED BY <1>5, <1>7 DEF d

LEMMA SlotsFinite ==
  ASSUME NEW c \in Seq(WorkerConf)
  PROVE  IsFiniteSet(RxSlots(c))
<1> DEFINE Of(i, j) == {<<i, j, k>> : k \in DOMAIN c[i].pqs[j].rxqs}
           In(i) == UNION {Of(i, j) : j \in DOMAIN c[i].pqs}
<1>1. IsFiniteSet(DOMAIN c)
  <2>1. DOMAIN c = 1 .. Len(c) /\ Len(c) \in Nat
    OBVIOUS
  <2> QED BY <2>1, FS_Interval
<1>2. ASSUME NEW i \in DOMAIN c
      PROVE  IsFiniteSet(In(i))
  <2>0. c[i] \in WorkerConf
    OBVIOUS
  <2>1. c[i].pqs \in Seq(PortConf)
    BY <2>0 DEF WorkerConf
  <2> DEFINE pqs == c[i].pqs
  <2>2. IsFiniteSet(DOMAIN pqs)
    <3> HIDE DEF pqs
    <3>1. DOMAIN pqs = 1 .. Len(pqs) /\ Len(pqs) \in Nat
      BY <2>1 DEF pqs
    <3> QED BY <3>1, FS_Interval
  <2>3. ASSUME NEW j \in DOMAIN pqs PROVE IsFiniteSet(Of(i, j))
    <3> DEFINE rxqs == c[i].pqs[j].rxqs
               g == [k \in DOMAIN rxqs |-> <<i, j, k>>]
    <3>0. pqs[j] \in PortConf
      <4> HIDE DEF pqs
      <4>1. pqs \in Seq(PortConf)
        BY <2>1 DEF pqs
      <4> QED BY <4>1
    <3>1. rxqs \in Seq([id : Nat, isol : Cpus \cup {NoLcore}])
      BY <3>0 DEF PortConf
    <3>2. IsFiniteSet(DOMAIN rxqs)
      <4> HIDE DEF rxqs
      <4>1. DOMAIN rxqs = 1 .. Len(rxqs) /\ Len(rxqs) \in Nat
        BY <3>1
      <4> QED BY <4>1, FS_Interval
    <3>3. g = [k \in DOMAIN rxqs |-> g[k]] /\ Of(i, j) = {g[k] : k \in DOMAIN rxqs}
      OBVIOUS
    <3> HIDE DEF g, rxqs, Of
    <3> QED BY <3>2, <3>3, FiniteImage
  <2> DEFINE h == [j \in DOMAIN pqs |-> Of(i, j)]
  <2> HIDE DEF Of
  <2>4. h = [j \in DOMAIN pqs |-> h[j]] /\ (\A j \in DOMAIN pqs : IsFiniteSet(h[j]))
        /\ In(i) = UNION {h[j] : j \in DOMAIN pqs}
    BY <2>3
  <2> HIDE DEF h, pqs, In
  <2> QED BY <2>2, <2>4, FiniteUnion
<1> DEFINE e == [i \in DOMAIN c |-> In(i)]
<1>3. RxSlots(c) = UNION {In(i) : i \in DOMAIN c}
  BY Zenon DEF RxSlots
<1> HIDE DEF In
<1>4. e = [i \in DOMAIN c |-> e[i]] /\ (\A i \in DOMAIN c : IsFiniteSet(e[i]))
      /\ RxSlots(c) = UNION {e[i] : i \in DOMAIN c}
  BY <1>2, <1>3
<1> HIDE DEF e
<1> QED BY <1>1, <1>4, FiniteUnion

(***************************************************************************)
(* What netif_lcore_init has made sure of when it returns.                 *)
(***************************************************************************)
Accepted ==
    /\ conf \in Seq(WorkerConf)
    /\ Contiguous(Checked(conf), conf) /\ LcoreIndexInit(conf) /\ RolesAsserted(conf, isol)
    /\ role = LcoreRoleInit(conf, isol)

LEMMA NetifAccepts == ASSUME workers \in Configs, NetifInit PROVE Accepted'
<1>1. conf' \in Seq(WorkerConf)
  <2>1. workers \in Seq(WorkerConf)
    BY SystemAssumption
  <2>2. ConfigLcores(workers) \in Seq(WorkerConf)
    BY <2>1, ConfigSeq
  <2> QED BY <2>2, UsedSeq DEF NetifInit
<1>2. /\ CheckLcoreConf(conf') /\ LcoreIndexInit(conf') /\ RolesAsserted(conf', isol')
      /\ role' = LcoreRoleInit(conf', isol')
  BY DEF NetifInit
<1>3. Contiguous(Checked(conf'), conf')
  BY <1>2 DEF CheckLcoreConf
<1> QED BY <1>1, <1>2, <1>3 DEF Accepted

\* The queues of a port: as many as the workers have, found among those that
\* were looked at, so that each of them is the queue of one worker.  This
\* holds although check_lcore_conf does not look at all lcores.
LEMMA OneSlot ==
  ASSUME Accepted, NEW port \in 0 .. nports - 1
  PROVE  LET n == RxQueuesGet(conf, port)
             slots == {s \in RxSlots(conf) : RxAt(conf, s)[1] = port}
         IN  \E f \in [0 .. n - 1 -> slots] :
                /\ \A q \in 0 .. n - 1 : RxAt(conf, f[q]) = <<port, q>>
                /\ \A s \in slots : \E q \in 0 .. n - 1 : s = f[q]
<1> DEFINE n == RxQueuesGet(conf, port)
           slots == {s \in RxSlots(conf) : RxAt(conf, s)[1] = port}
<1>1. conf \in Seq(WorkerConf) /\ Contiguous(Checked(conf), conf)
  BY DEF Accepted
<1>2. IsFiniteSet(slots) /\ n = Cardinality(slots)
  <2>1. slots \in SUBSET RxSlots(conf)
    OBVIOUS
  <2>2. n = Cardinality(slots)
    BY DEF RxQueuesGet
  <2> HIDE DEF slots
  <2> QED BY <1>1, <2>1, <2>2, SlotsFinite, FS_Subset
<1>3. n \in Nat
  <2> HIDE DEF slots
  <2> QED BY <1>2, FS_CardinalityType
<1>4. ASSUME NEW q \in 0 .. n - 1
      PROVE  \E s \in slots : RxAt(conf, s) = <<port, q>>
  <2>1. PICK s \in RxSlots(Checked(conf)) : RxAt(Checked(conf), s) = <<port, q>>
    BY <1>1 DEF Contiguous
  <2>2. s \in RxSlots(conf) /\ RxAt(conf, s) = <<port, q>>
    BY <1>1, <2>1, CheckedSlots
  <2> QED BY <2>2
<1> HIDE DEF n, slots
<1> DEFINE f == [q \in 0 .. n - 1 |-> CHOOSE s \in slots : RxAt(conf, s) = <<port, q>>]
<1>5. ASSUME NEW q \in 0 .. n - 1 PROVE f[q] \in slots /\ RxAt(conf, f[q]) = <<port, q>>
  BY <1>4
<1>6. f \in [0 .. n - 1 -> slots]
  BY <1>5
<1> HIDE DEF f
<1>7. f \in Injection(0 .. n - 1, slots)
  <2>1. ASSUME NEW q \in 0 .. n - 1, NEW r \in 0 .. n - 1, f[q] = f[r] PROVE q = r
    <3>1. <<port, q>> = <<port, r>>
      BY <1>5, <2>1
    <3> QED BY <3>1
  <2> QED BY <1>6, <2>1 DEF Injection, IsInjective
<1>8. Cardinality(0 .. n - 1) = n
  <2>1. Cardinality(0 .. n - 1) = IF 0 > n - 1 THEN 0 ELSE (n - 1) - 0 + 1
    BY <1>3, FS_Interval
  <2> QED BY <1>3, <2>1
<1>9. f \in Surjection(0 .. n - 1, slots)
  BY <1>2, <1>7, <1>8, FS_Injection
<1>10. \A s \in slots : \E q \in 0 .. n - 1 : s = f[q]
  BY <1>9 DEF Surjection
<1>11. \E g \in [0 .. n - 1 -> slots] :
          /\ \A q \in 0 .. n - 1 : RxAt(conf, g[q]) = <<port, q>>
          /\ \A s \in slots : \E q \in 0 .. n - 1 : s = g[q]
  BY <1>5, <1>6, <1>10
<1> QED BY <1>11 DEF n, slots

LEMMA SlotUnique ==
  ASSUME Accepted, NEW port \in 0 .. nports - 1
  PROVE  /\ \A q \in 0 .. RxQueuesGet(conf, port) - 1 :
               \E s \in RxSlots(conf) : RxAt(conf, s) = <<port, q>>
         /\ \A s \in RxSlots(conf) :
               RxAt(conf, s)[1] = port => RxAt(conf, s)[2] \in 0 .. RxQueuesGet(conf, port) - 1
         /\ \A s, t \in RxSlots(conf) :
               RxAt(conf, s)[1] = port /\ RxAt(conf, s) = RxAt(conf, t) => s = t
<1> DEFINE n == RxQueuesGet(conf, port)
           slots == {s \in RxSlots(conf) : RxAt(conf, s)[1] = port}
<1>1. PICK f \in [0 .. n - 1 -> slots] :
         /\ \A q \in 0 .. n - 1 : RxAt(conf, f[q]) = <<port, q>>
         /\ \A s \in slots : \E q \in 0 .. n - 1 : s = f[q]
  BY OneSlot
<1> HIDE DEF n
<1>2. \A q \in 0 .. n - 1 : \E s \in RxSlots(conf) : RxAt(conf, s) = <<port, q>>
  BY <1>1
<1>3. ASSUME NEW s \in RxSlots(conf), RxAt(conf, s)[1] = port
      PROVE  RxAt(conf, s)[2] \in 0 .. n - 1 /\ s = f[RxAt(conf, s)[2]]
  <2>1. PICK q \in 0 .. n - 1 : s = f[q]
    BY <1>1, <1>3
  <2>2. RxAt(conf, s) = <<port, q>>
    BY <1>1, <2>1
  <2>3. RxAt(conf, s)[2] = q
    BY <2>2
  <2> QED BY <2>1, <2>3
<1>4. ASSUME NEW s \in RxSlots(conf), NEW t \in RxSlots(conf), RxAt(conf, s)[1] = port,
             RxAt(conf, s) = RxAt(conf, t)
      PROVE  s = t
  <2>1. RxAt(conf, t)[1] = port
    BY <1>4
  <2>2. s = f[RxAt(conf, s)[2]] /\ t = f[RxAt(conf, t)[2]]
    BY <1>3, <1>4, <2>1
  <2> QED BY <1>4, <2>2
<1> QED BY <1>2, <1>3, <1>4 DEF n

\* lcore2index
LEMMA IndexIn ==
  ASSUME Accepted, NEW c, \E i \in DOMAIN conf : conf[i].cpu = c
  PROVE  Lcore2Index(conf, c) \in DOMAIN conf /\ conf[Lcore2Index(conf, c)].cpu = c
<1> DEFINE S == {i \in DOMAIN conf : conf[i].cpu = c}
<1>1. DOMAIN conf = 1 .. Len(conf) /\ Len(conf) \in Nat
  BY DEF Accepted
<1>2. S \subseteq Nat /\ S # {} /\ S \in SUBSET (1 .. Len(conf))
  BY <1>1
<1>3. IsFiniteSet(S)
  <2>1. IsFiniteSet(1 .. Len(conf))
    BY <1>1, FS_Interval
  <2> HIDE DEF S
  <2> QED BY <1>2, <2>1, FS_Subset
<1>4. Max(S) \in S
  <2> HIDE DEF S
  <2> QED BY <1>2, <1>3, Largest
<1> QED BY <1>4 DEF Lcore2Index

LEMMA IndexIs ==
  ASSUME Accepted, NEW i \in DOMAIN conf, conf[i].type # "idle"
  PROVE  Lcore2Index(conf, conf[i].cpu) = i
<1> DEFINE S == {j \in DOMAIN conf : conf[j].cpu = conf[i].cpu}
<1>1. DOMAIN conf = 1 .. Len(conf) /\ Len(conf) \in Nat
  BY DEF Accepted
<1>2. S \subseteq Nat /\ i \in S
  BY <1>1
<1>3. ASSUME NEW j \in S PROVE i >= j
  <2>1. ~ (i \in 1 .. j - 1)
    BY DEF Accepted, RolesAsserted
  <2> QED BY <1>1, <2>1
<1>4. Max(S) = i
  <2> HIDE DEF S
  <2> QED BY <1>2, <1>3, LargestIs
<1> QED BY <1>4 DEF Lcore2Index

LEMMA RolesGiven ==
  ASSUME Accepted
  PROVE  /\ role[main_lcore] = "master"
         /\ \A r \in isol : role[r[1]] = "isolrx"
         /\ \A i \in DOMAIN conf : conf[i].type # "idle" => role[conf[i].cpu] = conf[i].type
<1>0. main_lcore \in Cpus /\ main_lcore \in Enabled /\ Enabled \subseteq Cpus
  BY NetifAssumption
<1>1. role = LcoreRoleInit(conf, isol) /\ LcoreIndexInit(conf) /\ RolesAsserted(conf, isol)
  BY DEF Accepted
<1>2. role[main_lcore] = "master"
  BY <1>0, <1>1 DEF LcoreRoleInit
<1>3. ASSUME NEW r \in isol PROVE role[r[1]] = "isolrx"
  <2>1. r[1] \in Enabled /\ r[1] # main_lcore
    BY <1>1 DEF RolesAsserted
  <2> QED BY <1>0, <1>1, <2>1 DEF LcoreRoleInit
<1>4. ASSUME NEW i \in DOMAIN conf, conf[i].type # "idle" PROVE role[conf[i].cpu] = conf[i].type
  <2> DEFINE c == conf[i].cpu
  <2>1. c \in Enabled /\ c # main_lcore /\ c \in Cpus
    BY <1>0, <1>1 DEF RolesAsserted, LcoreIndexInit
  <2>2. ~ \E r \in isol : r[1] = c
    BY <1>1, <1>4 DEF RolesAsserted
  <2>3. Lcore2Index(conf, c) = i
    BY <1>4, IndexIs
  <2>4. \E j \in DOMAIN conf : conf[j].cpu = c
    OBVIOUS
  <2> HIDE DEF c
  <2>5. role[c] = conf[Lcore2Index(conf, c)].type
    BY <1>1, <2>1, <2>2, <2>4 DEF LcoreRoleInit
  <2> QED BY <2>3, <2>5 DEF c
<1> QED BY <1>2, <1>3, <1>4

\* An lcore that forwards is that of a worker.
LEMMA Forwards ==
  ASSUME Accepted, NEW c \in Cpus, role[c] = "fwd"
  PROVE  Lcore2Index(conf, c) \in DOMAIN conf /\ conf[Lcore2Index(conf, c)].cpu = c
<1>1. \E i \in DOMAIN conf : conf[i].cpu = c
  BY DEF Accepted, LcoreRoleInit
<1> QED BY <1>1, IndexIn

\* build_lcore_index lists no lcore twice.
LEMMA IndexOnce ==
  ASSUME role[main_lcore] = "master", NEW i \in DOMAIN BuildLcoreIndex(role),
         NEW j \in DOMAIN BuildLcoreIndex(role),
         BuildLcoreIndex(role)[i] = BuildLcoreIndex(role)[j]
  PROVE  i = j
<1> DEFINE R == {s \in Cpus \X Cpus : s[1] < s[2]}
           A == {c \in Cpus : role[c] = "fwd"}
           B == {c \in Cpus : role[c] = "isolrx"}
           f == InOrder(A, R)
           g == InOrder(B, R)
           m == Cardinality(A)
           n == Cardinality(B)
<1>0. Cpus \subseteq Nat /\ IsFiniteSet(Cpus) /\ main_lcore \in Cpus
  BY NetifAssumption
<1>1. ASSUME NEW S, S \subseteq Cpus
      PROVE  /\ Cardinality(S) \in Nat /\ InOrder(S, R) \in [1 .. Cardinality(S) -> S]
             /\ \A k, l \in 1 .. Cardinality(S) : k < l => InOrder(S, R)[k] # InOrder(S, R)[l]
  <2>1. IsFiniteSet(S) /\ S \subseteq Nat
    BY <1>0, <1>1, FS_Subset
  <2>2. Lists(InOrder(S, R), S, R) /\ \A x, y \in S : <<x, y>> \in R <=> x < y
    BY <1>0, <1>1, <2>1, Increasing
  <2> DEFINE h == InOrder(S, R)
  <2> HIDE DEF R, h
  <2>3. Lists(h, S, R)
    BY <2>2 DEF h
  <2>4. /\ Cardinality(S) \in Nat /\ h \in [1 .. Cardinality(S) -> S]
        /\ \A k, l \in 1 .. Cardinality(S) : k < l => h[k] < h[l]
    BY <2>2, <2>3 DEF Lists
  <2>5. ASSUME NEW k \in 1 .. Cardinality(S), NEW l \in 1 .. Cardinality(S), k < l
        PROVE  h[k] # h[l]
    <3>1. h[k] < h[l] /\ h[k] \in Nat /\ h[l] \in Nat
      BY <2>1, <2>4, <2>5
    <3> QED BY <3>1
  <2> QED BY <2>4, <2>5 DEF h
<1>2. A \subseteq Cpus /\ B \subseteq Cpus /\ A \cap B = {} /\ main_lcore \notin A /\ main_lcore \notin B
  OBVIOUS
<1>3. BuildLcoreIndex(role) = <<main_lcore>> \o f \o g
  BY DEF BuildLcoreIndex
<1> HIDE DEF R, A, B
<1>4. /\ m \in Nat /\ f \in [1 .. m -> A] /\ \A k, l \in 1 .. m : k < l => f[k] # f[l]
      /\ n \in Nat /\ g \in [1 .. n -> B] /\ \A k, l \in 1 .. n : k < l => g[k] # g[l]
  BY <1>1, <1>2
<1> HIDE DEF f, g, m, n
<1>5. f \in Seq(Cpus) /\ Len(f) = m /\ g \in Seq(Cpus) /\ Len(g) = n
  BY <1>2, <1>4
<1> DEFINE x == <<main_lcore>> \o f \o g
<1>6. /\ DOMAIN x = 1 .. 1 + m + n /\ x[1] = main_lcore
      /\ \A k \in 1 .. m : x[1 + k] = f[k]
      /\ \A k \in 1 .. n : x[1 + m + k] = g[k]
  BY <1>0, <1>4, <1>5, SMTT(60)
<1>7. i \in 1 .. 1 + m + n /\ j \in 1 .. 1 + m + n /\ x[i] = x[j]
  BY <1>3, <1>6
<1> HIDE DEF x
<1>8. ASSUME NEW k \in 1 .. 1 + m + n
      PROVE  \/ k = 1 /\ x[k] = main_lcore
             \/ k - 1 \in 1 .. m /\ x[k] = f[k - 1] /\ x[k] \in A
             \/ k - 1 - m \in 1 .. n /\ x[k] = g[k - 1 - m] /\ x[k] \in B
  <2>1. CASE k = 1
    BY <1>6, <2>1
  <2>2. CASE k > 1 /\ k <= 1 + m
    <3> DEFINE l == k - 1
    <3>1. l \in 1 .. m /\ 1 + l = k
      BY <1>4, <2>2
    <3> HIDE DEF l
    <3>2. x[k] = f[l] /\ f[l] \in A
      BY <1>4, <1>6, <3>1
    <3> QED BY <3>1, <3>2 DEF l
  <2>3. CASE k > 1 + m
    <3> DEFINE l == k - 1 - m
    <3>1. l \in 1 .. n /\ 1 + m + l = k
      BY <1>4, <2>3
    <3> HIDE DEF l
    <3>2. x[k] = g[l] /\ g[l] \in B
      BY <1>4, <1>6, <3>1
    <3> QED BY <3>1, <3>2 DEF l
  <2> QED BY <1>4, <2>1, <2>2, <2>3
<1>9. ASSUME NEW k \in 1 .. m, NEW l \in 1 .. m, f[k] = f[l] PROVE k = l
  <2>1. ~ (k < l) /\ ~ (l < k)
    BY <1>4, <1>9
  <2> QED BY <1>4, <2>1
<1>10. ASSUME NEW k \in 1 .. n, NEW l \in 1 .. n, g[k] = g[l] PROVE k = l
  <2>1. ~ (k < l) /\ ~ (l < k)
    BY <1>4, <1>10
  <2> QED BY <1>4, <2>1
<1>11. CASE i = 1
  <2>1. x[j] = main_lcore
    BY <1>6, <1>7, <1>11
  <2> QED BY <1>2, <1>7, <1>8, <1>11, <2>1
<1>12. CASE i - 1 \in 1 .. m /\ x[i] = f[i - 1] /\ x[i] \in A
  <2>1. j - 1 \in 1 .. m /\ x[j] = f[j - 1]
    BY <1>2, <1>7, <1>8, <1>12
  <2>2. i - 1 = j - 1
    BY <1>7, <1>9, <1>12, <2>1
  <2> QED BY <1>4, <1>7, <2>2
<1>13. CASE i - 1 - m \in 1 .. n /\ x[i] = g[i - 1 - m] /\ x[i] \in B
  <2>1. j - 1 - m \in 1 .. n /\ x[j] = g[j - 1 - m]
    BY <1>2, <1>7, <1>8, <1>13
  <2>2. i - 1 - m = j - 1 - m
    BY <1>7, <1>10, <1>13, <2>1
  <2> QED BY <1>4, <1>7, <2>2
<1> QED BY <1>7, <1>8, <1>11, <1>12, <1>13

\* Every receive queue has one owner, and no two lcores that forward share one.
LEMMA QueuesGiven == Accepted => QueuesOwned
<1> SUFFICES ASSUME Accepted PROVE QueuesOwned
  OBVIOUS
<1>1. ASSUME NEW port \in 0 .. nports - 1, NEW q \in 0 .. RxQueuesGet(conf, port) - 1
      PROVE  Cardinality({s \in RxSlots(conf) : RxAt(conf, s) = <<port, q>>}) = 1
  <2>1. PICK s \in RxSlots(conf) : RxAt(conf, s) = <<port, q>>
    BY SlotUnique
  <2>2. RxAt(conf, s)[1] = port
    BY <2>1
  <2>3. {t \in RxSlots(conf) : RxAt(conf, t) = <<port, q>>} = {s}
    BY <2>1, <2>2, SlotUnique
  <2> QED BY <2>3, FS_Singleton
<1>2. ASSUME NEW port \in 0 .. nports - 1, NEW s \in RxSlots(conf), RxAt(conf, s)[1] = port
      PROVE  RxAt(conf, s)[2] \in 0 .. RxQueuesGet(conf, port) - 1
  BY <1>2, SlotUnique
<1>3. ASSUME NEW c \in Cpus, NEW d \in Cpus, c # d, role[c] = "fwd", role[d] = "fwd"
      PROVE  PolledBy(c) \cap PolledBy(d) = {}
  <2> SUFFICES ASSUME NEW q, q \in PolledBy(c), q \in PolledBy(d) PROVE FALSE
    OBVIOUS
  <2> DEFINE i == Lcore2Index(conf, c)
             j == Lcore2Index(conf, d)
  <2>1. conf[i].cpu = c /\ conf[j].cpu = d
    BY <1>3, Forwards
  <2>2. q \in QueuesOf(i) /\ q \in QueuesOf(j)
    BY <1>3 DEF PolledBy
  <2> HIDE DEF i, j
  <2>3. PICK s \in RxSlots(conf) : s[1] = i /\ q = RxAt(conf, s)
    BY <2>2 DEF QueuesOf
  <2>4. PICK t \in RxSlots(conf) : t[1] = j /\ q = RxAt(conf, t)
    BY <2>2 DEF QueuesOf
  <2>5. RxAt(conf, s)[1] \in 0 .. nports - 1
    BY <2>2, <2>3 DEF QueuesOf, AllQueues
  <2>6. s = t
    BY <2>3, <2>4, <2>5, SlotUnique
  <2> QED BY <1>3, <2>1, <2>3, <2>4, <2>6
<1>4. ASSUME NEW i \in DOMAIN conf, conf[i].type = "fwd"
      PROVE  PolledBy(conf[i].cpu) = QueuesOf(i)
  <2>1. Lcore2Index(conf, conf[i].cpu) = i /\ role[conf[i].cpu] = "fwd"
    BY <1>4, IndexIs, RolesGiven
  <2> QED BY <2>1 DEF PolledBy
<1> QED BY <1>1, <1>2, <1>3, <1>4 DEF QueuesOwned

-----------------------------------------------------------------------------
(* An instance gets past modules_init with a configuration accepted *)

ConfInv ==
    /\ workers \in Configs
    /\ primary = NoPid => inited = << >>
    /\ \A p \in Instances :
          /\ at[p] = "init" => /\ inited \in Seq(STRING) /\ Len(inited) <= Len(Modules)
                               /\ \A i \in 1 .. Len(inited) : inited[i] = Modules[i]
                               /\ (\E i \in 1 .. Len(inited) : inited[i] = "netif") => Accepted
          /\ at[p] \in {"launch", "write", "normal", "end"} => Accepted

LEMMA ExitConf ==
  ASSUME SysInv, ConfInv, NEW p \in Instances, Exit(p)
  PROVE  ConfInv'
<1>1. /\ at'[p] = "gone" /\ (\A q \in Instances : q # p => at'[q] = at[q]) /\ workers' = workers
  BY TypesOf DEF Exit, Places
<1>2. CASE primary = p
  <2>1. primary' = NoPid /\ inited' = << >>
    BY <1>2 DEF Exit
  <2>2. \A q \in Instances : at'[q] \notin Holding
    BY <1>1, <1>2 DEF SysInv, OneHolder, Holding
  <2> QED BY <1>1, <2>1, <2>2 DEF ConfInv, Holding
<1>3. CASE primary # p
  <2>1. UNCHANGED <<primary, inited, conf, isol, role>>
    BY <1>3 DEF Exit, setup
  <2>2. Accepted' <=> Accepted
    BY <2>1 DEF Accepted
  <2> QED BY <1>1, <2>1, <2>2 DEF ConfInv
<1> QED BY <1>2, <1>3

\* A step of main past nothing of this.
LEMMA MoveConf ==
  ASSUME SysInv, ConfInv, NEW p \in Instances, NEW x, at' = [at EXCEPT ![p] = x],
         UNCHANGED <<workers, primary, inited, conf, isol, role>>,
         x # "init", x \in {"launch", "write", "normal", "end"} => Accepted
  PROVE  ConfInv'
<1>1. at'[p] = x /\ \A q \in Instances : q # p => at'[q] = at[q]
  BY TypesOf
<1>2. Accepted' <=> Accepted
  BY DEF Accepted
<1> QED BY <1>1, <1>2 DEF ConfInv

LEMMA ConfNext == SysInv /\ ConfInv /\ [Next]_vars => ConfInv'
<1> SUFFICES ASSUME SysInv, ConfInv, [Next]_vars PROVE ConfInv'
  OBVIOUS
<1>1. ASSUME NEW p \in Instances, Start(p) PROVE ConfInv'
  BY <1>1, MoveConf DEF Start, setup
<1>2. ASSUME NEW p \in Instances, ReadPid(p) PROVE ConfInv'
  <2> DEFINE x == IF pidfile = NoPid THEN "eal" ELSE "probe"
  <2>1. at' = [at EXCEPT ![p] = x] /\ x \in {"eal", "probe"}
        /\ UNCHANGED <<workers, primary, inited, conf, isol, role>>
    BY <1>2 DEF ReadPid, setup
  <2> HIDE DEF x
  <2> QED BY <2>1, MoveConf
<1>3. ASSUME NEW p \in Instances, Probe(p) PROVE ConfInv'
  <2> DEFINE x == IF Found(seen[p]) THEN "gone" ELSE "unlink"
  <2>1. at' = [at EXCEPT ![p] = x] /\ x \in {"gone", "unlink"}
        /\ UNCHANGED <<workers, primary, inited, conf, isol, role>>
    BY <1>3 DEF Probe, setup
  <2> HIDE DEF x
  <2> QED BY <2>1, MoveConf
<1>4. ASSUME NEW p \in Instances, Unlink(p) PROVE ConfInv'
  BY <1>4, MoveConf DEF Unlink, setup
<1>5. ASSUME NEW p \in Instances, EalInit(p) PROVE ConfInv'
  <2>1. CASE Exit(p)
    BY <2>1, ExitConf
  <2>2. CASE primary = NoPid /\ ~Exit(p)
    <3>1. primary' = p /\ at' = [at EXCEPT ![p] = "init"] /\ UNCHANGED <<workers, inited, conf, isol, role>>
      BY <1>5, <2>2 DEF EalInit, setup
    <3>2. inited' = << >> /\ workers' \in Configs
      BY <2>2, <3>1 DEF ConfInv
    <3>3. ASSUME NEW q \in Instances PROVE at'[q] \notin {"launch", "write", "normal", "end"}
      BY <2>2, <3>1, TypesOf, NoPidOutside DEF SysInv, OneHolder, Holding
    <3>4. << >> \in Seq(STRING) /\ Len(<< >>) = 0 /\ Len(Modules) \in Nat
      BY SystemAssumption
    <3> QED BY <3>1, <3>2, <3>3, <3>4, NoPidOutside DEF ConfInv
  <2> QED BY <1>5, <2>1, <2>2 DEF EalInit
<1>6. ASSUME NEW p \in Instances, InitModule(p) PROVE ConfInv'
  <2>1. at[p] = "init" /\ ~ AllInited
    BY <1>6 DEF InitModule
  <2>2. CASE Exit(p)
    BY <2>2, ExitConf
  <2> DEFINE m == Modules[Len(inited) + 1]
  <2>3. CASE /\ IF m = "netif" THEN NetifInit ELSE UNCHANGED <<conf, isol, role>>
             /\ inited' = Append(inited, m) /\ UNCHANGED <<workers, at, primary>>
    <3>1. primary = p /\ p # NoPid /\ \A q \in Instances : q # p => at[q] \notin Holding
      BY <2>1, Alone, NoPidOutside DEF Holding
    <3>2. /\ inited \in Seq(STRING) /\ Len(inited) <= Len(Modules)
          /\ \A i \in 1 .. Len(inited) : inited[i] = Modules[i]
          /\ (\E i \in 1 .. Len(inited) : inited[i] = "netif") => Accepted
      BY <2>1 DEF ConfInv
    <3>3. Modules \in Seq(STRING) /\ Len(inited) # Len(Modules)
      BY <2>1, SystemAssumption DEF AllInited
    <3>4. Len(inited) + 1 \in 1 .. Len(Modules) /\ m \in STRING
      BY <3>2, <3>3
    <3> HIDE DEF m
    <3>5. /\ inited' \in Seq(STRING) /\ Len(inited') = Len(inited) + 1 /\ inited'[Len(inited) + 1] = m
          /\ \A i \in 1 .. Len(inited) : inited'[i] = inited[i]
      BY <2>3, <3>2, <3>4
    <3>6. /\ Len(inited') <= Len(Modules)
          /\ \A i \in 1 .. Len(inited') : inited'[i] = Modules[i]
      BY <3>2, <3>3, <3>4, <3>5 DEF m
    <3>7. (\E i \in 1 .. Len(inited') : inited'[i] = "netif") => Accepted'
      <4>1. CASE m = "netif"
        BY <2>3, <4>1, NetifAccepts DEF ConfInv
      <4>2. CASE m # "netif"
        <5>1. (\E i \in 1 .. Len(inited') : inited'[i] = "netif")
                 => \E i \in 1 .. Len(inited) : inited[i] = "netif"
          BY <3>2, <3>5, <4>2
        <5>2. Accepted => Accepted'
          BY <2>3, <4>2 DEF Accepted
        <5> QED BY <3>2, <5>1, <5>2
      <4> QED BY <4>1, <4>2
    <3>8. workers' \in Configs /\ at' = at /\ primary' = primary
      BY <2>3 DEF ConfInv
    <3> QED BY <2>1, <3>1, <3>5, <3>6, <3>7, <3>8 DEF ConfInv, Holding
  <2> QED BY <1>6, <2>2, <2>3 DEF InitModule
<1>7. ASSUME NEW p \in Instances, StartPorts(p) PROVE ConfInv'
  <2>1. at[p] = "init" /\ Len(inited) = Len(Modules)
    BY <1>7 DEF StartPorts, AllInited
  <2>2. CASE Exit(p)
    BY <2>2, ExitConf
  <2>3. Accepted
    <3>1. PICK i \in DOMAIN Modules : Modules[i] = "netif"
      BY SystemAssumption
    <3>2. i \in 1 .. Len(Modules)
      BY SystemAssumption
    <3> QED BY <2>1, <3>1, <3>2 DEF ConfInv
  <2>4. CASE at' = [at EXCEPT ![p] = "launch"] /\ UNCHANGED <<workers, primary, inited, conf, isol, role>>
    BY <2>3, <2>4, MoveConf
  <2> QED BY <1>7, <2>2, <2>4 DEF StartPorts
<1>8. ASSUME NEW p \in Instances, Launch(p) PROVE ConfInv'
  <2>1. Accepted
    BY <1>8 DEF Launch, ConfInv
  <2> QED BY <1>8, <2>1, MoveConf DEF Launch
<1>9. ASSUME NEW p \in Instances, WritePid(p) PROVE ConfInv'
  <2>1. Accepted /\ UNCHANGED <<workers, primary, inited, conf, isol, role>>
    BY <1>9 DEF WritePid, ConfInv
  <2>2. CASE at' = [at EXCEPT ![p] = "normal"]
    BY <2>1, <2>2, MoveConf
  <2>3. CASE at' = [at EXCEPT ![p] = "end"]
    BY <2>1, <2>3, MoveConf
  <2> QED BY <1>9, <2>2, <2>3 DEF WritePid
<1>10. ASSUME NEW p \in Instances, CleanUp(p) PROVE ConfInv'
  <2>1. at[p] = "end"
    BY <1>10 DEF CleanUp
  <2>2. CASE Exit(p)
    BY <2>2, ExitConf
  <2>3. CASE UNCHANGED <<workers, at, primary, conf, isol, role>>
    <3>1. primary = p /\ p # NoPid /\ \A q \in Instances : at[q] # "init"
      BY <2>1, Alone, NoPidOutside DEF Holding
    <3>2. Accepted' <=> Accepted
      BY <2>3 DEF Accepted
    <3> QED BY <2>3, <3>1, <3>2 DEF ConfInv
  <2> QED BY <1>10, <2>2, <2>3 DEF CleanUp
<1>11. ASSUME NEW p \in Instances, Kill(p) PROVE ConfInv'
  BY <1>11, ExitConf DEF Kill
<1>12. CASE UNCHANGED <<workers, at, primary, inited, conf, isol, role>>
  <2>1. Accepted' <=> Accepted
    BY <1>12 DEF Accepted
  <2> QED BY <1>12, <2>1 DEF ConfInv
<1>13. ASSUME NEW q, Arrive(q) PROVE ConfInv'
  BY <1>12, <1>13 DEF Arrive, proc, setup
<1>14. ASSUME NEW c, NEW q, Poll(c, q) PROVE ConfInv'
  BY <1>12, <1>14 DEF Poll, RecvFwd, RecvOnIsolLcore, proc, setup
<1>15. CASE UNCHANGED vars
  BY <1>12, <1>15 DEF vars, proc, setup
<1> QED BY <1>1, <1>2, <1>3, <1>4, <1>5, <1>6, <1>7, <1>8, <1>9, <1>10, <1>11, <1>13, <1>14, <1>15
        DEF Next, Main

\* Whatever the configuration file says, also with lcores that are not looked
\* at, workers without type and isolated queues of workers that no loop gets
\* to, an instance that starts its lcores has given every receive queue one
\* worker, polled by no other forwarding lcore, and every worker that has a
\* role and every isolated queue an lcore of that role (config_lcores,
\* check_lcore_conf, lcore_index_init, lcore_role_init, build_lcore_index).
THEOREM Lcores == Spec => []LcoresSound
<1>1. Init => ConfInv
  BY NoPidOutside DEF Init, ConfInv
<1>2. SysInv /\ ConfInv => LcoresSound
  <2> SUFFICES ASSUME SysInv, ConfInv PROVE LcoresSound
    OBVIOUS
  <2>1. TypeOK
    BY DEF SysInv, Types
  <2>2. Launched => Accepted
    BY TypesOf DEF ConfInv, Launched, Pids
  <2>3. QueuesOwned
    BY <2>2, QueuesGiven DEF QueuesOwned
  <2>4. RolesApart
    BY <2>2, RolesGiven, IndexOnce DEF RolesApart
  <2> QED BY <2>1, <2>3, <2>4 DEF LcoresSound
<1> QED BY <1>1, <1>2, InitInv, SysNext, ConfNext, PTL DEF Spec

-----------------------------------------------------------------------------
(* Sums over a finite set *)

LEMMA LeastNat ==
  ASSUME NEW T \in SUBSET Nat, T # {}
  PROVE  \E x \in T : \A y \in T : x <= y
<1>1. IsWellFoundedOn(OpToRel(<, Nat), Nat)
  BY NatLessThanWellFounded
<1>2. PICK x \in T : \A y \in T : ~(<<y, x>> \in OpToRel(<, Nat))
  BY <1>1, WFMin, Zenon
<1>3. \A y \in T : ~(y < x)
  BY <1>2 DEF OpToRel
<1>4. x \in Nat /\ \A y \in T : y \in Nat
  OBVIOUS
<1> QED BY <1>3, <1>4

One(s) == CHOOSE x \in s : TRUE
IsSum(g, f, S) ==
    g = [s \in SUBSET S |-> IF s = {} THEN 0 ELSE f[One(s)] + g[s \ {One(s)}]]

\* The recursion that a fold over a finite set stands for has a solution.
LEMMA SumExists ==
  ASSUME NEW S, IsFiniteSet(S), NEW f
  PROVE  \E g : IsSum(g, f, S)
<1> DEFINE N == Cardinality(S)
           Next1(g) == [s \in SUBSET S |-> IF s = {} THEN 0 ELSE f[One(s)] + g[s \ {One(s)}]]
           Up(g, n) == \A s \in SUBSET S : Cardinality(s) <= n => g[s] = Next1(g)[s]
           Good(n) == \E g : Up(g, n)
           Bad == {n \in Nat : ~Good(n)}
<1>1. N \in Nat
  BY FS_CardinalityType
<1>2. ASSUME NEW s \in SUBSET S
      PROVE  /\ IsFiniteSet(s) /\ Cardinality(s) \in Nat /\ Cardinality(s) <= N
             /\ Cardinality(s) = 0 <=> s = {}
             /\ s # {} => /\ One(s) \in s /\ s \ {One(s)} \in SUBSET S
                          /\ Cardinality(s \ {One(s)}) = Cardinality(s) - 1
  <2>1. IsFiniteSet(s) /\ Cardinality(s) <= N
    BY FS_Subset
  <2>2. Cardinality(s) \in Nat /\ (Cardinality(s) = 0 <=> s = {})
    BY <2>1, FS_CardinalityType, FS_EmptySet
  <2>3. s # {} => One(s) \in s
    BY DEF One
  <2>4. s # {} => Cardinality(s \ {One(s)}) = Cardinality(s) - 1
    BY <2>1, <2>3, FS_RemoveElement
  <2> QED BY <2>1, <2>2, <2>3, <2>4
<1>3. ASSUME NEW n \in Nat, NEW g, n = 0 \/ Up(g, n - 1)
      PROVE  Up(Next1(g), n)
  <2> SUFFICES ASSUME NEW s \in SUBSET S, Cardinality(s) <= n
               PROVE  Next1(g)[s] = Next1(Next1(g))[s]
    OBVIOUS
  <2>1. CASE s = {}
    BY <2>1
  <2>2. CASE s # {}
    <3> DEFINE t == s \ {One(s)}
    <3>1. t \in SUBSET S /\ Cardinality(t) \in Nat /\ Cardinality(t) <= n - 1 /\ n # 0
      BY <1>2, <2>2
    <3> HIDE DEF t
    <3>2. g[t] = Next1(g)[t]
      BY <1>3, <3>1
    <3>3. Next1(g)[s] = f[One(s)] + g[t]
      BY <2>2 DEF t
    <3> DEFINE h == Next1(g)
    <3> HIDE DEF h
    <3>4. Next1(h)[s] = f[One(s)] + h[t]
      BY <2>2 DEF t
    <3> QED BY <3>2, <3>3, <3>4 DEF h
  <2> QED BY <2>1, <2>2
<1>4. Bad = {}
  <2> SUFFICES ASSUME Bad # {} PROVE FALSE
    OBVIOUS
  <2>1. Bad \in SUBSET Nat
    OBVIOUS
  <2> HIDE DEF Bad
  <2>2. PICK n \in Bad : \A y \in Bad : n <= y
    BY <2>1, LeastNat
  <2>3. n \in Nat /\ ~Good(n)
    BY DEF Bad
  <2> HIDE DEF Good, Up, Next1
  <2>4. CASE n = 0
    BY <1>3, <2>3, <2>4 DEF Good
  <2>5. CASE n # 0
    <3>1. n - 1 \in Nat /\ n - 1 \notin Bad
      BY <2>2, <2>3, <2>5
    <3>2. PICK g : Up(g, n - 1)
      BY <3>1 DEF Bad, Good
    <3> QED BY <1>3, <2>3, <3>2 DEF Good
  <2> QED BY <2>4, <2>5
<1>5. PICK g : Up(g, N)
  BY <1>1, <1>4
<1> DEFINE h == Next1(g)
<1>6. \A s \in SUBSET S : g[s] = h[s]
  BY <1>2, <1>5
<1>7. h = Next1(h)
  <2>1. ASSUME NEW s \in SUBSET S PROVE h[s] = Next1(h)[s]
    <3>1. CASE s = {}
      BY <3>1
    <3>2. CASE s # {}
      <4> DEFINE t == s \ {One(s)}
      <4>1. g[t] = h[t]
        BY <1>2, <1>6, <3>2
      <4>2. h[s] = f[One(s)] + g[t]
        BY <3>2
      <4> HIDE DEF h
      <4> QED BY <3>2, <4>1, <4>2
    <3> QED BY <3>1, <3>2
  <2> HIDE DEF h
  <2>2. Next1(h) = [s \in SUBSET S |-> Next1(h)[s]] /\ h = [s \in SUBSET S |-> h[s]]
    BY DEF h
  <2> QED BY <2>1, <2>2, Zenon
<1> HIDE DEF h
<1> QED BY <1>7 DEF IsSum

LEMMA Size == ASSUME NEW S, IsFiniteSet(S), NEW s \in SUBSET S PROVE Cardinality(s) \in Nat
BY FS_Subset, FS_CardinalityType

LEMMA Smaller ==
  ASSUME NEW S, IsFiniteSet(S), NEW s \in SUBSET S, NEW x \in s
  PROVE  /\ s \ {x} \in SUBSET S /\ Cardinality(s) \in Nat
         /\ Cardinality(s \ {x}) \in Nat /\ Cardinality(s \ {x}) < Cardinality(s)
<1>1. IsFiniteSet(s) /\ Cardinality(s) \in Nat
  BY FS_Subset, Size
<1>2. Cardinality(s \ {x}) = Cardinality(s) - 1 /\ Cardinality(s \ {x}) \in Nat
  BY <1>1, Size, FS_RemoveElement
<1> QED BY <1>1, <1>2

LEMMA SumEmpty == ASSUME NEW S, NEW f, NEW g, IsSum(g, f, S) PROVE g[{}] = 0
BY DEF IsSum

LEMMA SumOne ==
  ASSUME NEW S, NEW f, NEW g, IsSum(g, f, S), NEW s \in SUBSET S, NEW y \in s
  PROVE  One(s) \in s /\ g[s] = f[One(s)] + g[s \ {One(s)}]
<1>1. One(s) \in s
  BY DEF One
<1> QED BY <1>1 DEF IsSum

\* Sets of which no smallest one exists do not exist.
LEMMA SmallestSet ==
  ASSUME NEW S, IsFiniteSet(S), NEW B \in SUBSET (SUBSET S), B # {}
  PROVE  \E s \in B : \A x \in s : s \ {x} \notin B
<1> DEFINE Sizes == {Cardinality(s) : s \in B}
<1>1. Sizes \in SUBSET Nat /\ Sizes # {}
  BY Size
<1>2. PICK n \in Sizes : \A k \in Sizes : n <= k
  <2> HIDE DEF Sizes
  <2> QED BY <1>1, LeastNat
<1>3. PICK s \in B : n = Cardinality(s)
  OBVIOUS
<1>4. ASSUME NEW x \in s, s \ {x} \in B PROVE FALSE
  <2>1. /\ Cardinality(s) \in Nat /\ Cardinality(s \ {x}) \in Nat
        /\ Cardinality(s \ {x}) < Cardinality(s)
    BY Smaller
  <2>2. n <= Cardinality(s \ {x})
    BY <1>2, <1>4
  <2> QED BY <1>3, <2>1, <2>2
<1> QED BY <1>4

LEMMA SumType ==
  ASSUME NEW S, IsFiniteSet(S), NEW f \in [S -> Int], NEW g, IsSum(g, f, S), NEW t \in SUBSET S
  PROVE  g[t] \in Int
<1> DEFINE B == {s \in SUBSET S : g[s] \notin Int}
<1>1. ASSUME NEW s \in B, \A x \in s : s \ {x} \notin B PROVE FALSE
  <2>1. s \in SUBSET S /\ g[s] \notin Int
    OBVIOUS
  <2>11. s \in SUBSET S
    OBVIOUS
  <2>2. PICK y \in s : TRUE
    BY <2>1, SumEmpty
  <2> DEFINE x == One(s)
  <2> HIDE DEF B
  <2>3. x \in s /\ g[s] = f[x] + g[s \ {x}]
    BY <2>11, <2>2, SumOne
  <2> HIDE DEF x
  <2>4. g[s \ {x}] \in Int /\ f[x] \in Int
    BY <1>1, <2>1, <2>3 DEF B
  <2> QED BY <2>1, <2>3, <2>4
<1>2. B \in SUBSET (SUBSET S)
  OBVIOUS
<1> HIDE DEF B
<1>3. B = {}
  BY <1>1, <1>2, SmallestSet
<1> QED BY <1>3 DEF B

\* Any element can be the first one.
LEMMA SumFirst ==
  ASSUME NEW S, IsFiniteSet(S), NEW f \in [S -> Int], NEW g, IsSum(g, f, S),
         NEW t \in SUBSET S, NEW x \in t
  PROVE  g[t] = f[x] + g[t \ {x}]
<1> DEFINE Ok(s) == \A y \in s : g[s] = f[y] + g[s \ {y}]
           B == {s \in SUBSET S : ~Ok(s)}
<1>1. ASSUME NEW s \in B, \A y \in s : s \ {y} \notin B PROVE FALSE
  <2>1. s \in SUBSET S /\ ~Ok(s)
    OBVIOUS
  <2>2. PICK y \in s : g[s] # f[y] + g[s \ {y}]
    BY <2>1
  <2> DEFINE z == One(s)
  <2>3. z \in s /\ g[s] = f[z] + g[s \ {z}]
    BY <2>1, SumOne
  <2> HIDE DEF z
  <2>4. z # y
    BY <2>2, <2>3
  <2> DEFINE a == s \ {z}
             b == s \ {y}
             c == a \ {y}
  <2>5. /\ a \in SUBSET S /\ b \in SUBSET S /\ c \in SUBSET S
        /\ y \in a /\ z \in b /\ b \ {z} = c /\ a \ {y} = c
    BY <2>1, <2>3, <2>4
  <2>6. a \notin B /\ b \notin B
    BY <1>1, <2>3
  <2>7. g[s] = f[z] + g[a] /\ g[s] # f[y] + g[b]
    BY <2>2, <2>3
  <2> HIDE DEF a, b, c
  <2>8. Ok(a) /\ Ok(b)
    BY <2>5, <2>6
  <2>9. g[a] = f[y] + g[c] /\ g[b] = f[z] + g[c]
    BY <2>5, <2>8
  <2>10. f[y] \in Int /\ f[z] \in Int /\ g[c] \in Int
    BY <2>1, <2>3, <2>5, SumType
  <2> QED BY <2>7, <2>9, <2>10
<1>2. B \in SUBSET (SUBSET S)
  OBVIOUS
<1> HIDE DEF B
<1>3. B = {}
  BY <1>1, <1>2, SmallestSet
<1> QED BY <1>3 DEF B

LEMMA SumSame ==
  ASSUME NEW S, IsFiniteSet(S), NEW f, NEW g, IsSum(g, f, S), NEW e, NEW h, IsSum(h, e, S),
         NEW t \in SUBSET S, \A x \in t : f[x] = e[x]
  PROVE  g[t] = h[t]
<1> DEFINE B == {s \in SUBSET t : g[s] # h[s]}
<1>1. ASSUME NEW s \in B, \A x \in s : s \ {x} \notin B PROVE FALSE
  <2>1. s \in SUBSET S /\ s \in SUBSET t /\ g[s] # h[s]
    OBVIOUS
  <2>11. s \in SUBSET S
    OBVIOUS
  <2>2. PICK y \in s : TRUE
    BY <2>1, SumEmpty
  <2> DEFINE x == One(s)
  <2> HIDE DEF B
  <2>3. x \in s /\ g[s] = f[x] + g[s \ {x}] /\ h[s] = e[x] + h[s \ {x}]
    <3>1. x \in s /\ g[s] = f[x] + g[s \ {x}]
      BY <2>11, <2>2, SumOne
    <3>2. h[s] = e[x] + h[s \ {x}]
      BY <2>11, <2>2, SumOne
    <3> QED BY <3>1, <3>2
  <2> HIDE DEF x
  <2>4. g[s \ {x}] = h[s \ {x}] /\ f[x] = e[x]
    BY <1>1, <2>1, <2>3 DEF B
  <2> QED BY <2>1, <2>3, <2>4
<1>2. B \in SUBSET (SUBSET S)
  OBVIOUS
<1> HIDE DEF B
<1>3. B = {}
  BY <1>1, <1>2, SmallestSet
<1> QED BY <1>3 DEF B

LEMMA TotalIs ==
  ASSUME NEW S, IsFiniteSet(S), NEW f \in [S -> Int]
  PROVE  \E g : IsSum(g, f, S) /\ Total(f) = g[S]
<1> DEFINE F(g) == [s \in SUBSET S |-> IF s = {} THEN 0 ELSE f[One(s)] + g[s \ {One(s)}]]
           u == CHOOSE g : g = F(g)
<1>1. PICK g : g = F(g)
  <2>1. PICK g : IsSum(g, f, S)
    BY SumExists
  <2> QED BY <2>1, Zenon DEF IsSum
<1>2. u = F(u)
  <2> HIDE DEF F
  <2> QED BY <1>1
<1>3. DOMAIN f = S
  OBVIOUS
<1>4. Total(f) = u[S]
  BY <1>3 DEF Total, FoldFunction, FoldFunctionOnSet, MapThenFoldSet, One
<1> HIDE DEF u
<1> QED BY <1>2, <1>4 DEF IsSum

\* What a change of one number makes of the sum.
LEMMA TotalUpdate ==
  ASSUME NEW S, IsFiniteSet(S), NEW f \in [S -> Int], NEW q \in S, NEW v \in Int
  PROVE  Total(f) \in Int /\ Total([f EXCEPT ![q] = v]) = Total(f) - f[q] + v
<1> DEFINE e == [f EXCEPT ![q] = v]
<1>1. e \in [S -> Int] /\ e[q] = v /\ \A x \in S \ {q} : f[x] = e[x]
  OBVIOUS
<1> HIDE DEF e
<1>2. PICK g : IsSum(g, f, S) /\ Total(f) = g[S]
  BY TotalIs
<1>3. PICK h : IsSum(h, e, S) /\ Total(e) = h[S]
  BY <1>1, TotalIs
<1>4. S \in SUBSET S /\ S \ {q} \in SUBSET S /\ f[q] \in Int
  OBVIOUS
<1>5. g[S] = f[q] + g[S \ {q}]
  BY <1>2, <1>4, SumFirst
<1>51. g[S \ {q}] \in Int /\ g[S] \in Int
  BY <1>2, <1>4, SumType
<1>6. h[S] = v + h[S \ {q}]
  BY <1>1, <1>3, <1>4, SumFirst
<1>7. g[S \ {q}] = h[S \ {q}]
  BY <1>1, <1>2, <1>3, <1>4, SumSame
<1>8. Total(e) = Total(f) - f[q] + v
  BY <1>2, <1>3, <1>4, <1>5, <1>51, <1>6, <1>7
<1> QED BY <1>2, <1>51, <1>8 DEF e

LEMMA TotalIsInt ==
  ASSUME NEW S, IsFiniteSet(S), NEW f \in [S -> Int]
  PROVE  Total(f) \in Int
<1>1. PICK g : IsSum(g, f, S) /\ Total(f) = g[S]
  BY TotalIs
<1>2. S \in SUBSET S
  OBVIOUS
<1> QED BY <1>1, <1>2, SumType

LEMMA TotalZero ==
  ASSUME NEW S, IsFiniteSet(S)
  PROVE  Total([q \in S |-> 0]) = 0
<1> DEFINE f == [q \in S |-> 0]
<1>1. f \in [S -> Int] /\ \A x \in S : f[x] = 0
  OBVIOUS
<1> HIDE DEF f
<1>2. PICK g : IsSum(g, f, S) /\ Total(f) = g[S]
  BY <1>1, TotalIs
<1> DEFINE B == {s \in SUBSET S : g[s] # 0}
<1>3. ASSUME NEW s \in B, \A x \in s : s \ {x} \notin B PROVE FALSE
  <2>1. s \in SUBSET S /\ g[s] # 0
    OBVIOUS
  <2>2. PICK y \in s : TRUE
    BY <1>2, <2>1, SumEmpty
  <2> DEFINE x == One(s)
  <2>3. x \in s /\ g[s] = f[x] + g[s \ {x}]
    BY <1>2, <2>1, <2>2, SumOne
  <2> HIDE DEF x
  <2>4. g[s \ {x}] = 0 /\ f[x] = 0
    BY <1>1, <1>3, <2>1, <2>3
  <2> QED BY <2>1, <2>3, <2>4
<1>4. B \in SUBSET (SUBSET S)
  OBVIOUS
<1> HIDE DEF B
<1>5. B = {}
  BY <1>3, <1>4, SmallestSet
<1> QED BY <1>2, <1>5 DEF B, f

-----------------------------------------------------------------------------
(* The mbufs *)

Rings == Cpus \X AllQueues

MbufInv ==
    /\ pool \in Int /\ nic \in [AllQueues -> Nat] /\ ring \in [Rings -> Nat]
    /\ MbufsConserved

LEMMA QueuesFinite == IsFiniteSet(AllQueues) /\ IsFiniteSet(Rings)
<1> DEFINE P == 0 .. nports - 1
<1>1. IsFiniteSet(P) /\ IsFiniteSet(QueueIds)
  BY FS_Interval, NetifAssumption, SystemAssumption
<1> HIDE DEF P
<1>2. IsFiniteSet(P \X QueueIds)
  BY <1>1, FS_Product
<1>3. IsFiniteSet(AllQueues)
  BY <1>2 DEF P, AllQueues
<1> QED BY <1>3, NetifAssumption, FS_Product DEF Rings

\* A queue or a ring of which n packets are taken, or that gets n.
Moved(g, f, q, n) == g = [f EXCEPT ![q] = @ + n]
LEMMA TotalMoved ==
  ASSUME NEW S, IsFiniteSet(S), NEW f \in [S -> Nat], NEW q \in S, NEW n \in Int,
         f[q] + n >= 0, NEW g, Moved(g, f, q, n)
  PROVE  g \in [S -> Nat] /\ Total(g) = Total(f) + n /\ Total(f) \in Int
<1>1. f \in [S -> Int] /\ f[q] \in Int /\ f[q] + n \in Int /\ f[q] + n \in Nat
  OBVIOUS
<1>2. Total(f) \in Int /\ Total([f EXCEPT ![q] = f[q] + n]) = Total(f) - f[q] + (f[q] + n)
  BY <1>1, TotalUpdate
<1>3. g = [f EXCEPT ![q] = f[q] + n]
  BY DEF Moved
<1>4. [f EXCEPT ![q] = f[q] + n] \in [S -> Nat]
  BY <1>1
<1> QED BY <1>1, <1>2, <1>3, <1>4

\* An instance that starts, or ends, has all of its mbufs in the pool.
LEMMA AllFree ==
  /\ Total(NoPackets) = 0 /\ NoPackets \in [AllQueues -> Nat] /\ Mbufs \in Nat
  /\ Total(NoRings) = 0 /\ NoRings \in [Rings -> Nat]
<1>1. Total([q \in AllQueues |-> 0]) = 0 /\ Total([r \in Rings |-> 0]) = 0
  BY QueuesFinite, TotalZero
<1> QED BY <1>1, SystemAssumption DEF NoPackets, NoRings, Rings

LEMMA MbufExit == ASSUME MbufInv, NEW p, Exit(p) PROVE MbufInv'
<1>1. CASE UNCHANGED <<nic, ring, pool>>
  BY <1>1 DEF MbufInv, MbufsConserved, AllQueues, Rings
<1>2. CASE nic' = NoPackets /\ ring' = NoRings /\ pool' = Mbufs
  <2>1. Total(nic') = 0 /\ Total(ring') = 0 /\ AllQueues' = AllQueues /\ Rings' = Rings
    BY <1>2, AllFree DEF AllQueues, Rings
  <2> QED BY <1>2, <2>1, AllFree DEF MbufInv, MbufsConserved
<1> QED BY <1>1, <1>2 DEF Exit

LEMMA BurstTaken ==
  ASSUME MbufInv, NEW q \in AllQueues
  PROVE  Taken(q) \in Nat /\ Taken(q) <= nic[q]
BY SystemAssumption DEF MbufInv, Taken

LEMMA MbufNext == SysInv /\ MbufInv /\ [Next]_vars => MbufInv'
<1> SUFFICES ASSUME SysInv, MbufInv, [Next]_vars PROVE MbufInv'
  OBVIOUS
<1>0. /\ pool \in Int /\ nic \in [AllQueues -> Nat] /\ ring \in [Rings -> Nat]
      /\ pool + Total(nic) + Total(ring) = Mbufs /\ AllQueues' = AllQueues /\ Rings' = Rings
  BY DEF MbufInv, MbufsConserved, AllQueues, Rings
<1>01. ring \in [Rings -> Int]
  BY <1>0
<1>1. CASE UNCHANGED <<nic, ring, pool>>
  BY <1>0, <1>1 DEF MbufInv, MbufsConserved
<1>2. ASSUME NEW p \in Instances, Start(p) \/ Main(p) \/ Kill(p) PROVE MbufInv'
  <2>1. CASE Exit(p)
    BY <2>1, MbufExit
  <2>2. CASE ~Exit(p)
    <3>1. CASE Start(p) \/ ReadPid(p) \/ Probe(p) \/ Unlink(p) \/ Launch(p) \/ WritePid(p)
      BY <1>1, <3>1 DEF Start, ReadPid, Probe, Unlink, Launch, WritePid, data
    <3>2. CASE EalInit(p)
      BY <1>1, <2>2, <3>2 DEF EalInit, data
    <3>3. CASE InitModule(p)
      BY <1>1, <2>2, <3>3 DEF InitModule, data
    <3>4. CASE StartPorts(p)
      BY <1>1, <2>2, <3>4 DEF StartPorts, data
    <3>5. CASE CleanUp(p)
      BY <1>1, <2>2, <3>5 DEF CleanUp, data
    <3> QED BY <1>2, <2>2, <3>1, <3>2, <3>3, <3>4, <3>5 DEF Main, Kill
  <2> QED BY <2>1, <2>2
<1>3. ASSUME NEW q \in AllQueues, Arrive(q) PROVE MbufInv'
  <2>1. nic' = [nic EXCEPT ![q] = @ + 1] /\ pool' = pool - 1 /\ ring' = ring
    BY <1>3 DEF Arrive
  <2>2. nic' \in [AllQueues -> Nat] /\ Total(nic') = Total(nic) + 1 /\ Total(nic) \in Int
    <3>1. nic[q] + 1 >= 0 /\ Moved(nic', nic, q, 1)
      BY <1>0, <2>1 DEF Moved
    <3> QED BY <1>0, <2>1, <3>1, TotalMoved, QueuesFinite
  <2>3. Total(ring) \in Int
    BY <1>01, QueuesFinite, TotalIsInt
  <2> QED BY <1>0, <2>1, <2>2, <2>3 DEF MbufInv, MbufsConserved
<1>4. ASSUME NEW q \in AllQueues, NEW c \in Cpus, Poll(c, q) PROVE MbufInv'
  <2> DEFINE n == Taken(q)
  <2>1. n \in Nat /\ n <= nic[q] /\ Freed(q) = n
    BY BurstTaken DEF Freed
  <2>2. /\ nic' = [nic EXCEPT ![q] = @ - n]
        /\ \/ pool' = pool + n /\ ring' = ring
           \/ pool' = pool /\ ring' = [ring EXCEPT ![<<c, q>>] = @ + n]
    BY <1>4, <2>1 DEF Poll, RecvFwd, RecvOnIsolLcore
  <2> HIDE DEF n
  <2>3. nic' \in [AllQueues -> Nat] /\ Total(nic') = Total(nic) - n /\ Total(nic) \in Int
    <3>1. -n \in Int /\ nic[q] + (-n) >= 0 /\ nic[q] - n = nic[q] + (-n)
      BY <1>0, <2>1
    <3>2. Moved(nic', nic, q, -n)
      BY <1>0, <2>2, <3>1 DEF Moved
    <3> QED BY <1>0, <2>1, <3>1, <3>2, TotalMoved, QueuesFinite
  <2>4. Total(ring) \in Int
    BY <1>01, QueuesFinite, TotalIsInt
  <2>5. CASE pool' = pool + n /\ ring' = ring
    BY <1>0, <2>1, <2>3, <2>4, <2>5 DEF MbufInv, MbufsConserved
  <2>6. CASE pool' = pool /\ ring' = [ring EXCEPT ![<<c, q>>] = @ + n]
    <3>1. ring' \in [Rings -> Nat] /\ Total(ring') = Total(ring) + n
      <4> DEFINE r == <<c, q>>
      <4>0. r \in Rings
        BY DEF Rings
      <4> HIDE DEF r
      <4>1. n \in Int /\ ring[r] + n >= 0 /\ Moved(ring', ring, r, n)
        BY <1>0, <2>1, <2>6, <4>0 DEF Moved, r
      <4>2. ring \in [Rings -> Nat] /\ IsFiniteSet(Rings)
        BY <1>0, QueuesFinite
      <4> QED BY <4>0, <4>1, <4>2, TotalMoved
    <3> QED BY <1>0, <2>1, <2>3, <2>4, <2>6, <3>1 DEF MbufInv, MbufsConserved
  <2> QED BY <2>2, <2>5, <2>6
<1>5. CASE UNCHANGED vars
  BY <1>1, <1>5 DEF vars, data
<1>6. Queues \subseteq AllQueues
  BY DEF Queues
<1>7. looping \subseteq Cpus
  BY TypesOf, NetifAssumption
<1> QED BY <1>2, <1>3, <1>4, <1>5, <1>6, <1>7 DEF Next

\* No mbuf is lost: at any time, with any number of queues and any traffic,
\* each is free, in a receive queue or in the ring of an isolated one, and a
\* burst that a ring does not take goes back to the pool
\* (lcore_job_recv_fwd, recv_on_isol_lcore).
THEOREM MbufsKept == Spec => []MbufsConserved
<1>1. Init => MbufInv
  <2> SUFFICES ASSUME Init PROVE MbufInv
    OBVIOUS
  <2>1. nic = NoPackets /\ ring = NoRings /\ pool = Mbufs
    BY DEF Init
  <2> QED BY <2>1, AllFree DEF MbufInv, MbufsConserved
<1>2. MbufInv => MbufsConserved
  BY DEF MbufInv
<1> QED BY <1>1, <1>2, MbufNext, SysInvariant, PTL DEF Spec
=============================================================================
