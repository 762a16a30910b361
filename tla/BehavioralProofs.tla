--------------------------- MODULE BehavioralProofs ---------------------------
(***************************************************************************)
(* Theorems about BehavioralDetector, for any flows, thresholds, windows   *)
(* and number of lcores.                                                   *)
(***************************************************************************)
EXTENDS BehavioralDetector, FiniteSetTheorems, TLAPS

-----------------------------------------------------------------------------
(* What a tracker is at time n *)

ScanOK(t, n) ==
    /\ t \in ScanTrackers /\ t.first_seen <= t.last_seen /\ t.last_seen <= n
    /\ IsFiniteSet(t.ports) /\ Cardinality(t.ports) <= MAX_TRACKED_PORTS
    /\ t.alerted <=> Cardinality(t.ports) >= PORT_SCAN_THRESHOLD

BruteOK(t, n) ==
    /\ t \in BruteTrackers /\ t.window_start <= n
    /\ t.alerted <=> t.failed_attempts >= BRUTE_FORCE_THRESHOLD

ExfilOK(t, dst, n) ==
    /\ t \in ExfilTrackers /\ t.window_start <= n
    /\ t.alerted <=> Suspicious(t, dst)

AnomalyOK(t, n) == t \in AnomalyTrackers /\ t.window_start <= n

ScanTable(table, n) ==
    /\ table \in [Sources -> ScanTrackers \cup {NoTracker}]
    /\ \A k \in Sources : table[k] # NoTracker => ScanOK(table[k], n)
BruteTable(table, n) ==
    /\ table \in [Targets -> BruteTrackers \cup {NoTracker}]
    /\ \A k \in Targets : table[k] # NoTracker => BruteOK(table[k], n)
ExfilTable(table, n) ==
    /\ table \in [Pairs -> ExfilTrackers \cup {NoTracker}]
    /\ \A k \in Pairs : table[k] # NoTracker => ExfilOK(table[k], k[2], n)
AnomalyTable(table, n) ==
    /\ table \in [Sources -> AnomalyTrackers \cup {NoTracker}]
    /\ \A k \in Sources : table[k] # NoTracker => AnomalyOK(table[k], n)

(***************************************************************************)
(* What one detector does to the tracker of its key: nothing, or it goes   *)
(* on in the same window, or it starts a window now because there was none *)
(* that lasts until now.  It marks the tracker when it raises an alert,    *)
(* and raises one only for a tracker that was not marked in the window.    *)
(***************************************************************************)
Alerting(old, r, key, stamp, l, rule) ==
    LET t == old[key]
        u == r.table[key]
    IN  /\ \A k \in DOMAIN old : k # key => r.table[k] = old[k]
        /\ \/ r.table = old /\ r.alerts = << >>
           \/ /\ t = NoTracker \/ now - t[stamp] > Window(rule)
              /\ u # NoTracker /\ u[stamp] = now
              /\ \/ r.alerts = << >> /\ ~u.alerted
                 \/ u.alerted /\ r.alerts = <<Alert(l, rule, key, u[stamp])>>
           \/ /\ t # NoTracker /\ now - t[stamp] <= Window(rule)
              /\ u # NoTracker /\ u[stamp] = t[stamp]
              /\ \/ r.alerts = << >> /\ (t.alerted <=> u.alerted)
                 \/ ~t.alerted /\ u.alerted /\ r.alerts = <<Alert(l, rule, key, u[stamp])>>

LEMMA FlowKeys ==
  ASSUME NEW f \in Flows
  PROVE  /\ f.src \in Sources /\ f.dst_port \in Ports
         /\ <<f.dst, f.dst_port>> \in Targets /\ <<f.src, f.dst>> \in Pairs
BY DEF Sources, Targets, Pairs, Ports

LEMMA AddPortOK ==
  ASSUME now \in Nat, NEW t, ScanOK(t, now), NEW port \in Ports
  PROVE  LET u == AddPort(t, port)
             alert == u.ports # t.ports /\ ~u.alerted /\ ManyPorts(u)
         IN  /\ u = [t EXCEPT !.ports = u.ports]
             /\ ScanOK([u EXCEPT !.alerted = @ \/ alert], now)
<1> DEFINE u == AddPort(t, port)
           alert == u.ports # t.ports /\ ~u.alerted /\ ManyPorts(u)
           v == [u EXCEPT !.alerted = @ \/ alert]
<1>1. t \in ScanTrackers /\ IsFiniteSet(t.ports) /\ Cardinality(t.ports) \in Nat
  BY FS_CardinalityType DEF ScanOK
<1>2. CASE Cardinality(t.ports) < MAX_TRACKED_PORTS
  <2> DEFINE q == t.ports \cup {port}
  <2>1. u = [t EXCEPT !.ports = q] /\ u.ports = q /\ u.alerted = t.alerted
    BY <1>1, <1>2 DEF AddPort, ScanTrackers
  <2>2. IsFiniteSet(q) /\ Cardinality(q) \in Nat
        /\ (q = t.ports \/ Cardinality(q) = Cardinality(t.ports) + 1)
    BY <1>1, FS_AddElement, FS_CardinalityType
  <2>3. v \in ScanTrackers /\ v.first_seen = t.first_seen /\ v.last_seen = t.last_seen
        /\ v.ports = q /\ (v.alerted <=> t.alerted \/ alert)
    BY <1>1, <2>1 DEF ScanTrackers
  <2>4. alert <=> (q # t.ports /\ ~t.alerted /\ Cardinality(q) >= PORT_SCAN_THRESHOLD)
    BY <2>1 DEF ManyPorts
  <2>a. t.alerted <=> Cardinality(t.ports) >= PORT_SCAN_THRESHOLD
    BY DEF ScanOK
  <2> HIDE DEF v, u, q, alert
  <2>5. v.alerted <=> Cardinality(q) >= PORT_SCAN_THRESHOLD
    BY <2>2, <2>3, <2>4, <2>a, <1>1, BehavioralAssumption
  <2>6. Cardinality(q) <= MAX_TRACKED_PORTS
    BY <2>2, <1>2, <1>1, BehavioralAssumption
  <2>7. ScanOK(v, now)
    BY <2>2, <2>3, <2>5, <2>6, <1>1 DEF ScanOK
  <2> QED BY <2>1, <2>7 DEF v, u, alert
<1>3. CASE ~ (Cardinality(t.ports) < MAX_TRACKED_PORTS)
  <2>1. u = t
    BY <1>3 DEF AddPort
  <2>2. v = t
    BY <2>1, <1>1 DEF ScanTrackers
  <2>3. t = [t EXCEPT !.ports = t.ports]
    BY <1>1 DEF ScanTrackers
  <2> QED BY <2>1, <2>2, <2>3
<1> QED BY <1>2, <1>3

LEMMA ResetScanOK ==
  ASSUME now \in Nat, NEW t, ScanOK(t, now)
  PROVE  LET u == [ResetScan(t) EXCEPT !.last_seen = now]
         IN  /\ ScanOK(u, now) /\ u.last_seen = now
             /\ \/ now - t.first_seen <= PORT_SCAN_WINDOW /\ u.first_seen = t.first_seen
                   /\ u.alerted = t.alerted
                \/ now - t.first_seen > PORT_SCAN_WINDOW /\ u.first_seen = now /\ ~u.alerted
<1> DEFINE u == [ResetScan(t) EXCEPT !.last_seen = now]
<1>1. t \in ScanTrackers /\ t.first_seen \in Nat /\ t.last_seen \in Nat
  BY DEF ScanOK, ScanTrackers
<1>2. CASE now - t.first_seen <= PORT_SCAN_WINDOW
  <2>1. u = [t EXCEPT !.last_seen = now]
    BY <1>2 DEF ResetScan, Within
  <2>2. u \in ScanTrackers /\ u.first_seen = t.first_seen /\ u.last_seen = now
        /\ u.ports = t.ports /\ u.alerted = t.alerted
    BY <2>1, <1>1 DEF ScanTrackers
  <2> HIDE DEF u
  <2>3. ScanOK(u, now)
    BY <2>2, <1>1 DEF ScanOK
  <2> QED BY <2>2, <2>3, <1>2 DEF u
<1>3. CASE ~ (now - t.first_seen <= PORT_SCAN_WINDOW)
  <2>1. u = [t EXCEPT !.first_seen = now, !.ports = {}, !.alerted = FALSE, !.last_seen = now]
    BY <1>3, <1>1 DEF ResetScan, Within, ScanTrackers
  <2>2. u \in ScanTrackers /\ u.first_seen = now /\ u.last_seen = now
        /\ u.ports = {} /\ u.alerted = FALSE
    BY <2>1, <1>1 DEF ScanTrackers
  <2> HIDE DEF u
  <2>3. ScanOK(u, now)
    BY <2>2, <1>1, FS_EmptySet, BehavioralAssumption DEF ScanOK
  <2>4. now - t.first_seen > PORT_SCAN_WINDOW
    BY <1>3, <1>1, BehavioralAssumption
  <2> QED BY <2>2, <2>3, <2>4 DEF u
<1> QED BY <1>2, <1>3

LEMMA NewScanOK ==
  now \in Nat => ScanOK(NewScan, now) /\ NewScan.first_seen = now /\ ~NewScan.alerted
BY FS_EmptySet, BehavioralAssumption DEF NewScan, ScanOK, ScanTrackers

LEMMA Windows ==
  /\ Window(9000) = PORT_SCAN_WINDOW /\ Window(9001) = BRUTE_FORCE_WINDOW
  /\ Window(9002) = DATA_EXFIL_WINDOW /\ Window(9004) = ANOMALY_WINDOW
  /\ Window(9000) \in Nat /\ Window(9001) \in Nat /\ Window(9002) \in Nat /\ Window(9004) \in Nat
BY BehavioralAssumption DEF Window

\* detect_port_scan keeps its trackers in order, and alerts once in a window.
LEMMA ScanStep ==
  ASSUME now \in Nat, NEW table, ScanTable(table, now), NEW l, NEW f \in Flows,
         NEW syn \in BOOLEAN, NEW mem \in BOOLEAN
  PROVE  LET r == DetectPortScan(table, l, f, syn, mem)
         IN  /\ ScanTable(r.table, now)
             /\ Alerting(table, r, f.src, "first_seen", l, 9000)
<1> DEFINE r == DetectPortScan(table, l, f, syn, mem)
           t == table[f.src]
           t0 == Tracker(table, f.src, NewScan, mem)
           t1 == [ResetScan(t0) EXCEPT !.last_seen = now]
           t2 == IF syn THEN AddPort(t1, f.dst_port) ELSE t1
           alert == syn /\ t2.ports # t1.ports /\ ~t2.alerted /\ ManyPorts(t2)
           u == [t2 EXCEPT !.alerted = @ \/ alert]
<1>1. f.src \in Sources /\ f.dst_port \in Ports
  BY FlowKeys
<1>2. CASE t0 = NoTracker
  <2>1. r.table = table /\ r.alerts = << >> /\ table[f.src] = NoTracker
    BY <1>2 DEF DetectPortScan, Tracker
  <2> QED BY <2>1 DEF Alerting
<1>3. CASE t0 # NoTracker
  <2>1. r.table = [table EXCEPT ![f.src] = u]
        /\ r.alerts = IF alert THEN <<Alert(l, 9000, f.src, t2.first_seen)>> ELSE << >>
    BY <1>3 DEF DetectPortScan
  <2>2. ScanOK(t0, now) /\ (t = NoTracker => t0.first_seen = now /\ ~t0.alerted)
        /\ (t # NoTracker => t0 = t)
    BY <1>1, <1>3, NewScanOK DEF Tracker, ScanTable
  <2>3. /\ ScanOK(t1, now) /\ t1.last_seen = now
        /\ \/ now - t0.first_seen <= PORT_SCAN_WINDOW /\ t1.first_seen = t0.first_seen
              /\ t1.alerted = t0.alerted
           \/ now - t0.first_seen > PORT_SCAN_WINDOW /\ t1.first_seen = now /\ ~t1.alerted
    BY <2>2, ResetScanOK
  <2> HIDE DEF t0, t1
  <2>4. t1 \in ScanTrackers
    BY <2>3 DEF ScanOK
  <2>5. /\ ScanOK(u, now) /\ u.first_seen = t1.first_seen /\ u.last_seen = t1.last_seen
        /\ t2.first_seen = t1.first_seen
        /\ u.alerted <=> (t1.alerted \/ alert)
        /\ alert => ~t1.alerted
    <3>1. CASE syn
      <4> DEFINE w == AddPort(t1, f.dst_port)
      <4>1. t2 = w /\ (alert <=> (w.ports # t1.ports /\ ~w.alerted /\ ManyPorts(w)))
        BY <3>1
      <4>2. ScanOK(u, now) /\ w = [t1 EXCEPT !.ports = w.ports]
        BY <4>1, <2>3, <1>1, AddPortOK
      <4>3. w.first_seen = t1.first_seen /\ w.last_seen = t1.last_seen /\ w.alerted = t1.alerted
            /\ w \in [first_seen : Nat, last_seen : Nat, ports : {w.ports}, alerted : BOOLEAN]
        <5> HIDE DEF w
        <5>1. t1 \in [first_seen : Nat, last_seen : Nat, ports : SUBSET Ports, alerted : BOOLEAN]
          BY <2>4 DEF ScanTrackers
        <5> QED BY <4>2, <5>1
      <4> HIDE DEF w
      <4>4. u.first_seen = w.first_seen /\ u.last_seen = w.last_seen /\ (u.alerted <=> w.alerted \/ alert)
        BY <4>3, <4>1
      <4> QED BY <4>1, <4>2, <4>3, <4>4
    <3>2. CASE ~syn
      <4>1. t2 = t1 /\ ~alert
        BY <3>2
      <4>2. u = t1
        BY <4>1, <2>4 DEF ScanTrackers
      <4> QED BY <4>1, <4>2, <2>3
    <3> QED BY <3>1, <3>2
  <2> HIDE DEF t2, alert, u
  <2>6. ScanTable(r.table, now) /\ r.table[f.src] = u /\ u # NoTracker
        /\ \A k \in DOMAIN table : k # f.src => r.table[k] = table[k]
    BY <2>1, <2>5, <1>1, NoTrackerAssumption DEF ScanTable, ScanOK
  <2>7. t0.first_seen \in Nat /\ alert \in BOOLEAN /\ u.first_seen = t2.first_seen
    BY <2>2, <2>5 DEF ScanOK, ScanTrackers, alert
  <2>9. Alerting(table, r, f.src, "first_seen", l, 9000)
    <3>1. CASE t = NoTracker
      BY <3>1, <2>1, <2>2, <2>3, <2>5, <2>6, <2>7, Windows DEF Alerting
    <3>2. CASE t # NoTracker /\ now - t.first_seen > Window(9000)
      BY <3>2, <2>1, <2>2, <2>3, <2>5, <2>6, <2>7, Windows DEF Alerting
    <3>3. CASE t # NoTracker /\ now - t.first_seen <= Window(9000)
      BY <3>3, <2>1, <2>2, <2>3, <2>5, <2>6, <2>7, Windows DEF Alerting
    <3> QED BY <3>1, <3>2, <3>3, <2>2, <2>7, Windows
  <2> QED BY <2>3, <2>5, <2>6, <2>9
<1> QED BY <1>2, <1>3

LEMMA BruteUpdate ==
  ASSUME now \in Nat, NEW t, BruteOK(t, now), NEW n \in Nat
  PROVE  LET t1 == [ResetBrute(t) EXCEPT !.failed_attempts = @ + n]
             alert == t1.failed_attempts >= BRUTE_FORCE_THRESHOLD /\ ~t1.alerted
             u == [t1 EXCEPT !.alerted = @ \/ alert]
         IN  /\ BruteOK(u, now) /\ u.window_start = t1.window_start
             /\ u.failed_attempts = n + (IF now - t.window_start <= BRUTE_FORCE_WINDOW
                                        THEN t.failed_attempts ELSE 0)
             /\ \/ /\ now - t.window_start <= BRUTE_FORCE_WINDOW /\ u.window_start = t.window_start
                   /\ u.alerted <=> t.alerted \/ alert
                   /\ alert => ~t.alerted
                \/ now - t.window_start > BRUTE_FORCE_WINDOW /\ u.window_start = now /\ (u.alerted <=> alert)
<1> DEFINE t1 == [ResetBrute(t) EXCEPT !.failed_attempts = @ + n]
           alert == t1.failed_attempts >= BRUTE_FORCE_THRESHOLD /\ ~t1.alerted
           u == [t1 EXCEPT !.alerted = @ \/ alert]
<1>1. t \in BruteTrackers /\ t.window_start \in Nat /\ t.failed_attempts \in Nat
      /\ t.window_start <= now /\ (t.alerted <=> t.failed_attempts >= BRUTE_FORCE_THRESHOLD)
  BY DEF BruteOK, BruteTrackers
<1>2. \/ /\ now - t.window_start <= BRUTE_FORCE_WINDOW
         /\ t1 = [t EXCEPT !.failed_attempts = t.failed_attempts + n]
      \/ /\ now - t.window_start > BRUTE_FORCE_WINDOW
         /\ t1 \in BruteTrackers /\ t1.window_start = now /\ t1.failed_attempts = n /\ ~t1.alerted
  <2>1. CASE now - t.window_start <= BRUTE_FORCE_WINDOW
    BY <2>1 DEF ResetBrute, Within
  <2>2. CASE ~ (now - t.window_start <= BRUTE_FORCE_WINDOW)
    <3>1. now - t.window_start > BRUTE_FORCE_WINDOW
      BY <2>2, <1>1, BehavioralAssumption
    <3> DEFINE R == ResetBrute(t)
    <3>2. R \in BruteTrackers /\ R.window_start = now /\ R.failed_attempts = 0 /\ R.alerted = FALSE
      BY <2>2 DEF ResetBrute, Within, NewBrute, BruteTrackers
    <3>3. t1 = [R EXCEPT !.failed_attempts = R.failed_attempts + n]
      OBVIOUS
    <3> HIDE DEF R, t1
    <3>4. t1 \in BruteTrackers /\ t1.window_start = now /\ t1.failed_attempts = n /\ ~t1.alerted
      BY <3>2, <3>3 DEF BruteTrackers
    <3> QED BY <3>1, <3>4
  <2> QED BY <2>1, <2>2
<1> HIDE DEF t1
<1>3. t1 \in BruteTrackers /\ t1.window_start <= now
      /\ (t1.alerted => t1.failed_attempts >= BRUTE_FORCE_THRESHOLD)
      /\ \/ now - t.window_start <= BRUTE_FORCE_WINDOW /\ t1.window_start = t.window_start
            /\ (t1.alerted <=> t.alerted)
         \/ now - t.window_start > BRUTE_FORCE_WINDOW /\ t1.window_start = now /\ ~t1.alerted
      /\ t1.failed_attempts = n + (IF now - t.window_start <= BRUTE_FORCE_WINDOW
                                  THEN t.failed_attempts ELSE 0)
  <2>1. CASE t1 = [t EXCEPT !.failed_attempts = t.failed_attempts + n]
             /\ now - t.window_start <= BRUTE_FORCE_WINDOW
    <3>1. t1 \in BruteTrackers /\ t1.window_start = t.window_start
          /\ t1.failed_attempts = t.failed_attempts + n /\ t1.alerted = t.alerted
      BY <2>1, <1>1 DEF BruteTrackers
    <3> QED BY <2>1, <3>1, <1>1, BehavioralAssumption
  <2>2. CASE /\ now - t.window_start > BRUTE_FORCE_WINDOW
             /\ t1 \in BruteTrackers /\ t1.window_start = now /\ t1.failed_attempts = n /\ ~t1.alerted
    BY <2>2, <1>1, BehavioralAssumption DEF BruteTrackers
  <2> QED BY <1>2, <2>1, <2>2
<1>4. u \in BruteTrackers /\ u.window_start = t1.window_start
      /\ u.failed_attempts = t1.failed_attempts /\ (u.alerted <=> t1.alerted \/ alert)
  BY <1>3 DEF BruteTrackers
<1>5. alert <=> (t1.failed_attempts >= BRUTE_FORCE_THRESHOLD /\ ~t1.alerted)
  OBVIOUS
<1> HIDE DEF u, alert
<1>6. BruteOK(u, now)
  BY <1>3, <1>4, <1>5 DEF BruteOK
<1>7. /\ BruteOK(u, now) /\ u.window_start = t1.window_start
      /\ u.failed_attempts = n + (IF now - t.window_start <= BRUTE_FORCE_WINDOW
                                 THEN t.failed_attempts ELSE 0)
      /\ \/ /\ now - t.window_start <= BRUTE_FORCE_WINDOW /\ u.window_start = t.window_start
            /\ u.alerted <=> t.alerted \/ alert
            /\ alert => ~t.alerted
         \/ now - t.window_start > BRUTE_FORCE_WINDOW /\ u.window_start = now /\ (u.alerted <=> alert)
  BY <1>3, <1>4, <1>5, <1>6
<1> QED BY <1>7 DEF u, alert, t1

\* The failed logins of f are added to what is left of the tracker's count.
Counting(table, r, f) ==
    LET key == <<f.dst, f.dst_port>>
        t == table[key]
    IN  f.alproto = "HTTP" /\ failed[f] # 0 /\ r.table[key] # NoTracker =>
            r.table[key].failed_attempts =
                failed[f] + (IF t # NoTracker /\ now - t.window_start <= BRUTE_FORCE_WINDOW
                             THEN t.failed_attempts ELSE 0)

\* The same of detect_brute_force.
LEMMA BruteStep ==
  ASSUME now \in Nat, NEW table, BruteTable(table, now), NEW l, NEW f \in Flows,
         failed[f] \in Nat, NEW mem \in BOOLEAN
  PROVE  LET r == DetectBruteForce(table, l, f, mem)
         IN  /\ BruteTable(r.table, now)
             /\ Alerting(table, r, <<f.dst, f.dst_port>>, "window_start", l, 9001)
             /\ Counting(table, r, f)
<1> DEFINE r == DetectBruteForce(table, l, f, mem)
           key == <<f.dst, f.dst_port>>
           t == table[key]
           t0 == Tracker(table, key, NewBrute, mem)
           t1 == [ResetBrute(t0) EXCEPT !.failed_attempts = @ + failed[f]]
           alert == t1.failed_attempts >= BRUTE_FORCE_THRESHOLD /\ ~t1.alerted
           u == [t1 EXCEPT !.alerted = @ \/ alert]
<1>1. key \in Targets
  BY FlowKeys
<1>2. CASE f.alproto # "HTTP" \/ failed[f] = 0 \/ t0 = NoTracker
  <2>1. r.table = table /\ r.alerts = << >>
    BY <1>2 DEF DetectBruteForce
  <2>2. t0 = NoTracker => t = NoTracker
    BY DEF Tracker
  <2> QED BY <1>2, <2>1, <2>2 DEF Alerting, Counting
<1>3. CASE ~ (f.alproto # "HTTP" \/ failed[f] = 0 \/ t0 = NoTracker)
  <2>1. r.table = [table EXCEPT ![key] = u]
        /\ r.alerts = IF alert THEN <<Alert(l, 9001, key, t1.window_start)>> ELSE << >>
    BY <1>3 DEF DetectBruteForce
  <2>2. /\ BruteOK(t0, now) /\ (t # NoTracker => t0 = t)
        /\ t = NoTracker => t0.window_start = now /\ t0.failed_attempts = 0 /\ ~t0.alerted
    BY <1>1, <1>3, BehavioralAssumption
    DEF Tracker, BruteTable, NewBrute, BruteOK, BruteTrackers
  <2> HIDE DEF key
  <2> HIDE DEF t0
  <2>3. /\ BruteOK(u, now) /\ u.window_start = t1.window_start
        /\ u.failed_attempts = failed[f] + (IF now - t0.window_start <= BRUTE_FORCE_WINDOW
                                           THEN t0.failed_attempts ELSE 0)
        /\ \/ /\ now - t0.window_start <= BRUTE_FORCE_WINDOW /\ u.window_start = t0.window_start
              /\ u.alerted <=> t0.alerted \/ alert
              /\ alert => ~t0.alerted
           \/ now - t0.window_start > BRUTE_FORCE_WINDOW /\ u.window_start = now /\ (u.alerted <=> alert)
    BY <2>2, BruteUpdate
  <2>4. alert \in BOOLEAN
    OBVIOUS
  <2> HIDE DEF u, alert, t1
  <2>5. BruteTable(r.table, now)
    BY <1>1, <2>1, <2>3 DEF BruteTable, BruteOK
  <2>6. t0.window_start \in Nat /\ r.table[key] = u
        /\ \A k \in DOMAIN table : k # key => r.table[k] = table[k]
    BY <1>1, <2>1, <2>2 DEF BruteOK, BruteTrackers, BruteTable
  <2>8. u # NoTracker
    BY <2>3, NoTrackerAssumption DEF BruteOK
  <2>7. Alerting(table, r, key, "window_start", l, 9001)
    <3>1. CASE t = NoTracker
      BY <3>1, <2>1, <2>2, <2>3, <2>6, <2>8, Windows DEF Alerting
    <3>2. CASE t # NoTracker /\ now - t.window_start > Window(9001)
      BY <3>2, <2>1, <2>2, <2>3, <2>6, <2>8, Windows DEF Alerting
    <3>3. CASE t # NoTracker /\ now - t.window_start <= Window(9001)
      BY <3>3, <2>1, <2>2, <2>3, <2>6, <2>8, Windows DEF Alerting
    <3> QED BY <3>1, <3>2, <3>3, <2>2, <2>6, Windows
  <2>9. u.failed_attempts =
          failed[f] + (IF t # NoTracker /\ now - t.window_start <= BRUTE_FORCE_WINDOW
                       THEN t.failed_attempts ELSE 0)
    BY <2>2, <2>3
  <2>10. Counting(table, r, f)
    BY <2>6, <2>9 DEF Counting, key
  <2> QED BY <2>5, <2>7, <2>10 DEF key
<1> QED BY <1>2, <1>3

LEMMA ExfilUpdate ==
  ASSUME now \in Nat, off_hours_now \in BOOLEAN, NEW dst, NEW t \in ExfilTrackers,
         t.window_start <= now, t.alerted => Suspicious(t, dst), NEW len \in Nat
  PROVE  LET t1 == UpdateExfil(t, len)
             alert == Suspicious(t1, dst) /\ ~t1.alerted
             u == [t1 EXCEPT !.alerted = @ \/ alert]
         IN  /\ ExfilOK(u, dst, now) /\ u.window_start = t1.window_start
             /\ \/ /\ now - t.window_start <= DATA_EXFIL_WINDOW /\ u.window_start = t.window_start
                   /\ u.alerted <=> t.alerted \/ alert
                   /\ alert => ~t.alerted
                \/ now - t.window_start > DATA_EXFIL_WINDOW /\ u.window_start = now /\ (u.alerted <=> alert)
<1> DEFINE R == IF Within(t.window_start, DATA_EXFIL_WINDOW) THEN t ELSE NewExfil
           t1 == UpdateExfil(t, len)
           alert == Suspicious(t1, dst) /\ ~t1.alerted
           u == [t1 EXCEPT !.alerted = @ \/ alert]
<1>1. t \in ExfilTrackers /\ t.window_start \in Nat /\ t.window_start <= now
      /\ (t.alerted => Suspicious(t, dst))
  BY DEF ExfilTrackers
<1>2. /\ R \in ExfilTrackers /\ R.window_start <= now
      /\ \/ now - t.window_start <= DATA_EXFIL_WINDOW /\ R = t
         \/ now - t.window_start > DATA_EXFIL_WINDOW /\ R.window_start = now /\ ~R.alerted
  <2>1. CASE now - t.window_start <= DATA_EXFIL_WINDOW
    BY <2>1, <1>1 DEF Within
  <2>2. CASE ~ (now - t.window_start <= DATA_EXFIL_WINDOW)
    <3>1. now - t.window_start > DATA_EXFIL_WINDOW
      BY <2>2, <1>1, BehavioralAssumption
    <3> QED BY <2>2, <3>1 DEF Within, NewExfil, ExfilTrackers
  <2> QED BY <2>1, <2>2
<1>3. t1 = [R EXCEPT !.bytes = R.bytes + len, !.off_hours = R.off_hours \/ off_hours_now]
  BY DEF UpdateExfil
<1> HIDE DEF R, t1
<1>4. t1 \in ExfilTrackers /\ t1.window_start = R.window_start /\ (t1.alerted <=> R.alerted)
      /\ t1.bytes = R.bytes + len /\ (R.off_hours => t1.off_hours)
  <2> DEFINE off == R.off_hours \/ off_hours_now
  <2>1. off \in BOOLEAN /\ R.bytes + len \in Nat /\ (R.off_hours => off)
    BY <1>2 DEF ExfilTrackers
  <2>2. t1 = [R EXCEPT !.bytes = R.bytes + len, !.off_hours = off]
    BY <1>3
  <2> HIDE DEF off
  <2>3. t1 \in ExfilTrackers /\ t1.window_start = R.window_start /\ t1.alerted = R.alerted
        /\ t1.bytes = R.bytes + len /\ t1.off_hours = off
    BY <1>2, <2>1, <2>2 DEF ExfilTrackers
  <2> QED BY <2>1, <2>3
<1>5. t1.alerted => Suspicious(t1, dst)
  <2>1. CASE R = t
    <3> SUFFICES ASSUME t1.alerted PROVE Suspicious(t1, dst)
      OBVIOUS
    <3>1. Suspicious(t, dst)
      BY <1>1, <1>4, <2>1
    <3>2. t.bytes \in Nat /\ t1.bytes = t.bytes + len /\ (t.off_hours => t1.off_hours)
      BY <1>1, <1>4, <2>1 DEF ExfilTrackers
    <3>3. DATA_EXFIL_THRESHOLD \in Nat /\ DATA_EXFIL_THRESHOLD \div 10 \in Int
      BY BehavioralAssumption
    <3> QED BY <3>1, <3>2, <3>3 DEF Suspicious
  <2>2. CASE ~R.alerted
    BY <2>2, <1>4
  <2> QED BY <2>1, <2>2, <1>2
<1>6. u \in ExfilTrackers /\ u.window_start = t1.window_start /\ u.bytes = t1.bytes
      /\ u.off_hours = t1.off_hours /\ (u.alerted <=> t1.alerted \/ alert)
  BY <1>4 DEF ExfilTrackers
<1>7. alert <=> (Suspicious(t1, dst) /\ ~t1.alerted)
  OBVIOUS
<1> HIDE DEF u, alert
<1>8. Suspicious(u, dst) <=> Suspicious(t1, dst)
  BY <1>6 DEF Suspicious
<1>9. u.alerted <=> Suspicious(u, dst)
  BY <1>5, <1>6, <1>7, <1>8
<1>10. ExfilOK(u, dst, now)
  BY <1>2, <1>4, <1>6, <1>9 DEF ExfilOK
<1>11. /\ ExfilOK(u, dst, now) /\ u.window_start = t1.window_start
       /\ \/ /\ now - t.window_start <= DATA_EXFIL_WINDOW /\ u.window_start = t.window_start
             /\ u.alerted <=> t.alerted \/ alert
             /\ alert => ~t.alerted
          \/ now - t.window_start > DATA_EXFIL_WINDOW /\ u.window_start = now /\ (u.alerted <=> alert)
  BY <1>2, <1>4, <1>6, <1>7, <1>10
<1> QED BY <1>11 DEF u, alert, t1

LEMMA NewExfilOK ==
  ASSUME now \in Nat, off_hours_now \in BOOLEAN
  PROVE  NewExfil \in ExfilTrackers /\ NewExfil.window_start = now /\ ~NewExfil.alerted
BY DEF NewExfil, ExfilTrackers

\* The same of detect_data_exfiltration.  A tracker that is made is updated
\* before anybody sees it.
LEMMA ExfilStep ==
  ASSUME now \in Nat, off_hours_now \in BOOLEAN, NEW table, ExfilTable(table, now), NEW l,
         NEW f \in Flows, NEW len \in Nat, NEW mem \in BOOLEAN
  PROVE  LET r == DetectExfiltration(table, l, f, len, mem)
         IN  /\ ExfilTable(r.table, now)
             /\ Alerting(table, r, <<f.src, f.dst>>, "window_start", l, 9002)
<1> DEFINE r == DetectExfiltration(table, l, f, len, mem)
           key == <<f.src, f.dst>>
           t == table[key]
           t0 == Tracker(table, key, NewExfil, mem)
           t1 == UpdateExfil(t0, len)
           alert == Suspicious(t1, f.dst) /\ ~t1.alerted
           u == [t1 EXCEPT !.alerted = @ \/ alert]
<1>1. key \in Pairs /\ key[2] = f.dst
  BY FlowKeys
<1>2. CASE len = 0 \/ t0 = NoTracker
  <2>1. r.table = table /\ r.alerts = << >>
    BY <1>2 DEF DetectExfiltration
  <2> QED BY <2>1 DEF Alerting
<1>3. CASE ~ (len = 0 \/ t0 = NoTracker)
  <2>1. r.table = [table EXCEPT ![key] = u]
        /\ r.alerts = IF alert THEN <<Alert(l, 9002, key, t1.window_start)>> ELSE << >>
    BY <1>3 DEF DetectExfiltration
  <2>2. /\ t0 \in ExfilTrackers /\ t0.window_start <= now /\ (t0.alerted => Suspicious(t0, f.dst))
        /\ (t = NoTracker => t0.window_start = now /\ ~t0.alerted) /\ (t # NoTracker => t0 = t)
    <3>1. CASE t = NoTracker
      BY <3>1, <1>3, NewExfilOK DEF Tracker
    <3>2. CASE t # NoTracker
      BY <3>2, <1>1 DEF Tracker, ExfilTable, ExfilOK
    <3> QED BY <3>1, <3>2
  <2> HIDE DEF key
  <2> HIDE DEF t0
  <2>3. /\ ExfilOK(u, f.dst, now) /\ u.window_start = t1.window_start
        /\ \/ /\ now - t0.window_start <= DATA_EXFIL_WINDOW /\ u.window_start = t0.window_start
              /\ u.alerted <=> t0.alerted \/ alert
              /\ alert => ~t0.alerted
           \/ now - t0.window_start > DATA_EXFIL_WINDOW /\ u.window_start = now /\ (u.alerted <=> alert)
    BY <2>2, ExfilUpdate
  <2> HIDE DEF u, alert, t1
  <2>5. ExfilTable(r.table, now)
    BY <1>1, <2>1, <2>3 DEF ExfilTable, ExfilOK
  <2>6. t0.window_start \in Nat /\ r.table[key] = u
        /\ \A k \in DOMAIN table : k # key => r.table[k] = table[k]
    BY <1>1, <2>1, <2>2 DEF ExfilOK, ExfilTrackers, ExfilTable
  <2>8. u # NoTracker
    BY <2>3, NoTrackerAssumption DEF ExfilOK
  <2>7. Alerting(table, r, key, "window_start", l, 9002)
    <3>1. CASE t = NoTracker
      BY <3>1, <2>1, <2>2, <2>3, <2>6, <2>8, Windows DEF Alerting
    <3>2. CASE t # NoTracker /\ now - t.window_start > Window(9002)
      BY <3>2, <2>1, <2>2, <2>3, <2>6, <2>8, Windows DEF Alerting
    <3>3. CASE t # NoTracker /\ now - t.window_start <= Window(9002)
      BY <3>3, <2>1, <2>2, <2>3, <2>6, <2>8, Windows DEF Alerting
    <3> QED BY <3>1, <3>2, <3>3, <2>2, <2>6, Windows
  <2> QED BY <2>5, <2>7 DEF key
<1> QED BY <1>2, <1>3

LEMMA AnomalyUpdate ==
  ASSUME now \in Nat, NEW t, AnomalyOK(t, now), NEW g \in Nat
  PROVE  LET t1 == CountQueries(t, g)
             alert == t1.high_freq_queries > DNS_HIGH_FREQ_THRESHOLD /\ ~t1.alerted
             u == [t1 EXCEPT !.alerted = @ \/ alert]
         IN  /\ AnomalyOK(u, now) /\ u.window_start = t1.window_start
             /\ \/ /\ now - t.window_start <= ANOMALY_WINDOW /\ u.window_start = t.window_start
                   /\ u.alerted <=> t.alerted \/ alert
                   /\ alert => ~t.alerted
                \/ now - t.window_start > ANOMALY_WINDOW /\ u.window_start = now /\ (u.alerted <=> alert)
<1> DEFINE R == IF Within(t.window_start, ANOMALY_WINDOW) THEN t ELSE NewAnomaly
           t1 == CountQueries(t, g)
           alert == t1.high_freq_queries > DNS_HIGH_FREQ_THRESHOLD /\ ~t1.alerted
           u == [t1 EXCEPT !.alerted = @ \/ alert]
<1>1. t \in AnomalyTrackers /\ t.window_start \in Nat /\ t.window_start <= now
  BY DEF AnomalyOK, AnomalyTrackers
<1>2. /\ R \in AnomalyTrackers /\ R.window_start <= now
      /\ \/ now - t.window_start <= ANOMALY_WINDOW /\ R = t
         \/ now - t.window_start > ANOMALY_WINDOW /\ R.window_start = now /\ ~R.alerted
  <2>1. CASE now - t.window_start <= ANOMALY_WINDOW
    BY <2>1, <1>1 DEF Within
  <2>2. CASE ~ (now - t.window_start <= ANOMALY_WINDOW)
    <3>1. now - t.window_start > ANOMALY_WINDOW
      BY <2>2, <1>1, BehavioralAssumption
    <3> QED BY <2>2, <3>1 DEF Within, NewAnomaly, AnomalyTrackers
  <2> QED BY <2>1, <2>2
<1>3. t1 = [R EXCEPT !.high_freq_queries = R.high_freq_queries + g]
  BY DEF CountQueries
<1> HIDE DEF R, t1
<1>4. t1 \in AnomalyTrackers /\ t1.window_start = R.window_start /\ (t1.alerted <=> R.alerted)
  <2>1. t1 \in AnomalyTrackers /\ t1.window_start = R.window_start /\ t1.alerted = R.alerted
    BY <1>2, <1>3 DEF AnomalyTrackers
  <2> QED BY <2>1
<1>5. u \in AnomalyTrackers /\ u.window_start = t1.window_start /\ (u.alerted <=> t1.alerted \/ alert)
  BY <1>4 DEF AnomalyTrackers
<1>6. alert => ~t1.alerted
  OBVIOUS
<1> HIDE DEF u, alert
<1>7. /\ AnomalyOK(u, now) /\ u.window_start = t1.window_start
      /\ \/ /\ now - t.window_start <= ANOMALY_WINDOW /\ u.window_start = t.window_start
            /\ u.alerted <=> t.alerted \/ alert
            /\ alert => ~t.alerted
         \/ now - t.window_start > ANOMALY_WINDOW /\ u.window_start = now /\ (u.alerted <=> alert)
  BY <1>2, <1>4, <1>5, <1>6 DEF AnomalyOK
<1> QED BY <1>7 DEF u, alert, t1

\* The same of detect_traffic_anomaly.
LEMMA AnomalyStep ==
  ASSUME now \in Nat, NEW table, AnomalyTable(table, now), NEW l,
         NEW f \in Flows, NEW g \in Nat, NEW mem \in BOOLEAN
  PROVE  LET r == DetectAnomaly(table, l, f, g, mem)
         IN  /\ AnomalyTable(r.table, now)
             /\ Alerting(table, r, f.src, "window_start", l, 9004)
<1> DEFINE r == DetectAnomaly(table, l, f, g, mem)
           t == table[f.src]
           t0 == Tracker(table, f.src, NewAnomaly, mem)
           t1 == CountQueries(t0, g)
           alert == t1.high_freq_queries > DNS_HIGH_FREQ_THRESHOLD /\ ~t1.alerted
           u == [t1 EXCEPT !.alerted = @ \/ alert]
<1>1. f.src \in Sources
  BY FlowKeys
<1>2. CASE f.alproto \notin {"HTTP", "TLS", "DNS"} \/ t0 = NoTracker
  <2>1. r.table = table /\ r.alerts = << >>
    BY <1>2 DEF DetectAnomaly
  <2> QED BY <2>1 DEF Alerting
<1>3. CASE ~ (f.alproto \notin {"HTTP", "TLS", "DNS"} \/ t0 = NoTracker)
  <2>2. /\ AnomalyOK(t0, now) /\ (t # NoTracker => t0 = t)
        /\ t = NoTracker => t0.window_start = now /\ ~t0.alerted
    BY <1>1, <1>3 DEF Tracker, AnomalyTable, NewAnomaly, AnomalyOK, AnomalyTrackers
  <2>3. CASE f.alproto # "DNS"
    <3>1. r.table = [table EXCEPT ![f.src] = t0] /\ r.alerts = << >>
      BY <1>3, <2>3 DEF DetectAnomaly
    <3> HIDE DEF t0
    <3>2. AnomalyTable(r.table, now) /\ r.table[f.src] = t0
          /\ \A k \in DOMAIN table : k # f.src => r.table[k] = table[k]
      BY <1>1, <2>2, <3>1 DEF AnomalyTable, AnomalyOK
    <3>3. CASE t = NoTracker
      BY <3>3, <3>1, <3>2, <2>2, <1>3, NoTrackerAssumption DEF Alerting, AnomalyOK
    <3>4. CASE t # NoTracker
      <4>1. r.table = table
        BY <3>4, <3>1, <2>2, <1>1 DEF AnomalyTable
      <4> QED BY <4>1, <3>1 DEF Alerting
    <3> QED BY <3>3, <3>4
  <2>4. CASE f.alproto = "DNS"
    <3>1. r.table = [table EXCEPT ![f.src] = u]
          /\ r.alerts = IF alert THEN <<Alert(l, 9004, f.src, t1.window_start)>> ELSE << >>
      BY <1>3, <2>4 DEF DetectAnomaly
    <3> HIDE DEF t0
    <3>2. /\ AnomalyOK(u, now) /\ u.window_start = t1.window_start
          /\ \/ /\ now - t0.window_start <= ANOMALY_WINDOW /\ u.window_start = t0.window_start
                /\ u.alerted <=> t0.alerted \/ alert
                /\ alert => ~t0.alerted
             \/ now - t0.window_start > ANOMALY_WINDOW /\ u.window_start = now /\ (u.alerted <=> alert)
      BY <2>2, AnomalyUpdate
    <3> HIDE DEF u, alert, t1
    <3>3. AnomalyTable(r.table, now) /\ u # NoTracker
      BY <1>1, <3>1, <3>2, NoTrackerAssumption DEF AnomalyTable, AnomalyOK
    <3>4. t0.window_start \in Nat /\ r.table[f.src] = u
          /\ \A k \in DOMAIN table : k # f.src => r.table[k] = table[k]
      BY <1>1, <3>1, <2>2 DEF AnomalyOK, AnomalyTrackers, AnomalyTable
    <3>5. CASE t = NoTracker
      BY <3>5, <3>1, <2>2, <3>2, <3>3, <3>4, Windows DEF Alerting
    <3>6. CASE t # NoTracker /\ now - t.window_start > Window(9004)
      BY <3>6, <3>1, <2>2, <3>2, <3>3, <3>4, Windows DEF Alerting
    <3>7. CASE t # NoTracker /\ now - t.window_start <= Window(9004)
      BY <3>7, <3>1, <2>2, <3>2, <3>3, <3>4, Windows DEF Alerting
    <3> QED BY <3>3, <3>5, <3>6, <3>7, <2>2, <3>4, Windows
  <2> QED BY <2>3, <2>4
<1> QED BY <1>2, <1>3

-----------------------------------------------------------------------------
(***************************************************************************)
(* The alerts raised so far and the tables.  An alert for a key is         *)
(* remembered by the key's tracker as long as its window lasts: the        *)
(* tracker is in that window and marked, or its window starts later than   *)
(* the alert's window ends, or there is no tracker any more and the        *)
(* alert's window has ended.  And a tracker that is marked was reported.   *)
(***************************************************************************)
Rules == {9000, 9001, 9002, 9004}
Alerts == [lcore : Lcores, rule : Rules, key : Sources \cup Targets \cup Pairs,
           start : Nat, time : Nat]

ReportedIn(R, l, rule, k, start) ==
    \E i \in DOMAIN R :
        R[i].lcore = l /\ R[i].rule = rule /\ R[i].key = k /\ R[i].start = start

Remembered(R, l, rule, k, n, t, stamp) ==
    \A i \in DOMAIN R : R[i].lcore = l /\ R[i].rule = rule /\ R[i].key = k =>
        IF t = NoTracker THEN n - R[i].start > Window(rule)
        ELSE \/ t[stamp] = R[i].start /\ t.alerted
             \/ t[stamp] - R[i].start > Window(rule)

Covered(R, l, rule, k, n, t, stamp) ==
    /\ Remembered(R, l, rule, k, n, t, stamp)
    /\ t # NoTracker /\ t.alerted => ReportedIn(R, l, rule, k, t[stamp])

TableCovered(R, l, rule, table, n, stamp) ==
    \A k \in DOMAIN table : Covered(R, l, rule, k, n, table[k], stamp)

\* OneAlertPerWindow, of any sequence of alerts
OneEach(R) ==
    /\ \A i \in DOMAIN R : R[i].time - R[i].start \in 0 .. Window(R[i].rule)
    /\ \A i, j \in DOMAIN R :
          i < j /\ R[i].lcore = R[j].lcore /\ R[i].rule = R[j].rule /\ R[i].key = R[j].key
            => R[j].start - R[i].start > Window(R[i].rule)

Recent(table, n, stamp) ==
    \A k \in DOMAIN table : table[k] # NoTracker => table[k][stamp] \in Nat /\ table[k][stamp] <= n

LEMMA RuleWindow == ASSUME NEW rule \in Rules PROVE Window(rule) \in Nat
BY Windows DEF Rules

LEMMA AlertTimes ==
  ASSUME NEW R \in Seq(Alerts)
  PROVE  \A i \in DOMAIN R : R[i].start \in Nat
<1> SUFFICES ASSUME NEW i \in DOMAIN R PROVE R[i].start \in Nat
  OBVIOUS
<1>1. R[i] \in Alerts
  OBVIOUS
<1> QED BY <1>1 DEF Alerts

LEMMA AppendAlert ==
  ASSUME NEW R \in Seq(Alerts), NEW a \in Alerts
  PROVE  LET Q == R \o <<a>>
         IN  /\ Q \in Seq(Alerts) /\ DOMAIN Q = DOMAIN R \cup {Len(R) + 1}
             /\ Q[Len(R) + 1] = a /\ \A i \in DOMAIN R : Q[i] = R[i] /\ i < Len(R) + 1
OBVIOUS

LEMMA OneMore ==
  ASSUME NEW R \in Seq(Alerts), OneEach(R), NEW a \in Alerts,
         a.time - a.start \in 0 .. Window(a.rule),
         \A i \in DOMAIN R : R[i].lcore = a.lcore /\ R[i].rule = a.rule /\ R[i].key = a.key
                                => a.start - R[i].start > Window(a.rule)
  PROVE  OneEach(R \o <<a>>)
<1> DEFINE Q == R \o <<a>>
<1>1. /\ Q \in Seq(Alerts) /\ DOMAIN Q = DOMAIN R \cup {Len(R) + 1}
      /\ Q[Len(R) + 1] = a /\ \A i \in DOMAIN R : Q[i] = R[i] /\ i < Len(R) + 1
  BY AppendAlert
<1> HIDE DEF Q
<1>2. ASSUME NEW i \in DOMAIN Q PROVE Q[i].time - Q[i].start \in 0 .. Window(Q[i].rule)
  BY <1>1 DEF OneEach
<1>3. ASSUME NEW i \in DOMAIN Q, NEW j \in DOMAIN Q, i < j,
             Q[i].lcore = Q[j].lcore, Q[i].rule = Q[j].rule, Q[i].key = Q[j].key
      PROVE  Q[j].start - Q[i].start > Window(Q[i].rule)
  <2>1. i \in DOMAIN R
    BY <1>1, <1>3
  <2>2. CASE j \in DOMAIN R
    BY <2>1, <2>2, <1>1, <1>3 DEF OneEach
  <2>3. CASE j = Len(R) + 1
    BY <2>1, <2>3, <1>1, <1>3
  <2> QED BY <2>2, <2>3, <1>1
<1>4. OneEach(Q)
  BY <1>2, <1>3 DEF OneEach
<1> QED BY <1>4 DEF Q

\* An alert of another detector, of another lcore or for another key changes
\* nothing for a tracker.
LEMMA AppendCovered ==
  ASSUME NEW R \in Seq(Alerts), NEW a \in Alerts, NEW m, NEW q, NEW k, NEW n, NEW t, NEW stamp,
         a.lcore # m \/ a.rule # q \/ a.key # k, Covered(R, m, q, k, n, t, stamp)
  PROVE  Covered(R \o <<a>>, m, q, k, n, t, stamp)
<1> DEFINE Q == R \o <<a>>
<1>1. /\ DOMAIN Q = DOMAIN R \cup {Len(R) + 1}
      /\ Q[Len(R) + 1] = a /\ \A i \in DOMAIN R : Q[i] = R[i]
  BY AppendAlert
<1> HIDE DEF Q
<1>2. Remembered(Q, m, q, k, n, t, stamp)
  BY <1>1 DEF Covered, Remembered
<1>3. ASSUME NEW start, ReportedIn(R, m, q, k, start) PROVE ReportedIn(Q, m, q, k, start)
  BY <1>1, <1>3 DEF ReportedIn
<1>4. Covered(Q, m, q, k, n, t, stamp)
  BY <1>2, <1>3 DEF Covered
<1> QED BY <1>4 DEF Q

LEMMA OthersCovered ==
  ASSUME NEW R \in Seq(Alerts), NEW a \in Alerts, NEW m, NEW q, a.lcore # m \/ a.rule # q,
         NEW table, NEW n, NEW stamp, TableCovered(R, m, q, table, n, stamp)
  PROVE  TableCovered(R \o <<a>>, m, q, table, n, stamp)
BY AppendCovered DEF TableCovered

\* The tracker that raised an alert.
LEMMA AlertCovered ==
  ASSUME NEW R \in Seq(Alerts), NEW a \in Alerts, NEW n, NEW t, t # NoTracker, NEW stamp,
         Remembered(R, a.lcore, a.rule, a.key, n, t, stamp), t[stamp] = a.start, t.alerted
  PROVE  Covered(R \o <<a>>, a.lcore, a.rule, a.key, n, t, stamp)
<1> DEFINE Q == R \o <<a>>
<1>1. /\ DOMAIN Q = DOMAIN R \cup {Len(R) + 1}
      /\ Q[Len(R) + 1] = a /\ \A i \in DOMAIN R : Q[i] = R[i]
  BY AppendAlert
<1> HIDE DEF Q
<1>2. Remembered(Q, a.lcore, a.rule, a.key, n, t, stamp)
  BY <1>1 DEF Remembered
<1>3. ReportedIn(Q, a.lcore, a.rule, a.key, a.start)
  BY <1>1 DEF ReportedIn
<1>4. Covered(Q, a.lcore, a.rule, a.key, n, t, stamp)
  BY <1>2, <1>3 DEF Covered
<1> QED BY <1>4 DEF Q

\* none, or one alert of lcore l by the rule
AlertOf(alerts, l, rule) ==
    alerts = << >> \/ \E a \in Alerts : a.lcore = l /\ a.rule = rule /\ alerts = <<a>>

\* One detector's step: the alerts stay one to a window, and each of its
\* alerts is remembered in the new table.
LEMMA DetectorStep ==
  ASSUME now \in Nat, NEW R \in Seq(Alerts), OneEach(R), NEW l \in Lcores, NEW rule \in Rules,
         NEW stamp, NEW old, NEW r, NEW key \in DOMAIN old, key \in Sources \cup Targets \cup Pairs,
         Recent(old, now, stamp), TableCovered(R, l, rule, old, now, stamp),
         DOMAIN r.table = DOMAIN old, Alerting(old, r, key, stamp, l, rule)
  PROVE  /\ R \o r.alerts \in Seq(Alerts) /\ OneEach(R \o r.alerts)
         /\ TableCovered(R \o r.alerts, l, rule, r.table, now, stamp)
         /\ AlertOf(r.alerts, l, rule)
<1> DEFINE t == old[key]
           u == r.table[key]
           a == Alert(l, rule, key, u[stamp])
           Mine(i) == R[i].lcore = l /\ R[i].rule = rule /\ R[i].key = key
<1>0. Window(rule) \in Nat
  BY RuleWindow
<1>1. Window(rule) \in Nat /\ \A i \in DOMAIN R : R[i].start \in Nat
  BY <1>0, AlertTimes
<1>2. t # NoTracker => t[stamp] \in Nat /\ t[stamp] <= now
  BY DEF Recent
<1>3. ASSUME NEW i \in DOMAIN R, Mine(i)
      PROVE  IF t = NoTracker THEN now - R[i].start > Window(rule)
             ELSE (t[stamp] = R[i].start /\ t.alerted) \/ t[stamp] - R[i].start > Window(rule)
  BY <1>3 DEF TableCovered, Covered, Remembered
<1>4. \A k \in DOMAIN old : k # key => Covered(R, l, rule, k, now, r.table[k], stamp)
  BY DEF TableCovered, Alerting
<1>5. CASE r.table = old /\ r.alerts = << >>
  BY <1>5 DEF AlertOf
<1>6. CASE /\ t = NoTracker \/ now - t[stamp] > Window(rule)
           /\ u # NoTracker /\ u[stamp] = now
           /\ (r.alerts = << >> /\ ~u.alerted) \/ (u.alerted /\ r.alerts = <<a>>)
  <2>1. \A i \in DOMAIN R : Mine(i) => now - R[i].start > Window(rule)
    BY <1>1, <1>2, <1>3, <1>6
  <2>2. Remembered(R, l, rule, key, now, u, stamp)
    BY <2>1, <1>6 DEF Remembered
  <2>4. CASE r.alerts = << >> /\ ~u.alerted
    <3>1. Covered(R, l, rule, key, now, u, stamp)
      BY <2>2, <2>4 DEF Covered
    <3>2. TableCovered(R, l, rule, r.table, now, stamp)
      BY <3>1, <1>4 DEF TableCovered
    <3> QED BY <2>4, <3>2 DEF AlertOf
  <2>5. CASE u.alerted /\ r.alerts = <<a>>
    <3>1. a \in Alerts /\ a.lcore = l /\ a.rule = rule /\ a.key = key /\ a.start = now /\ a.time = now
      BY <1>6 DEF Alert, Alerts
    <3>4. u[stamp] = now /\ u # NoTracker
      BY <1>6
    <3> HIDE DEF a, u
    <3>2. OneEach(R \o <<a>>)
      BY <3>1, <2>1, <1>1, OneMore
    <3>5. Covered(R \o <<a>>, l, rule, key, now, u, stamp)
      BY <3>1, <3>4, <2>2, <2>5, AlertCovered
    <3>6. \A k \in DOMAIN old : k # key => Covered(R \o <<a>>, l, rule, k, now, r.table[k], stamp)
      BY <3>1, <1>4, AppendCovered
    <3>3. TableCovered(R \o <<a>>, l, rule, r.table, now, stamp)
      BY <3>5, <3>6 DEF TableCovered, u
    <3> QED BY <3>1, <3>2, <3>3, <2>5, AppendAlert DEF AlertOf
  <2> QED BY <2>4, <2>5, <1>6
<1>7. CASE /\ t # NoTracker /\ now - t[stamp] <= Window(rule)
           /\ u # NoTracker /\ u[stamp] = t[stamp]
           /\ \/ r.alerts = << >> /\ (t.alerted <=> u.alerted)
              \/ ~t.alerted /\ u.alerted /\ r.alerts = <<a>>
  <2>2. Remembered(R, l, rule, key, now, u, stamp)
    BY <1>3, <1>7 DEF Remembered
  <2>4. CASE r.alerts = << >> /\ (t.alerted <=> u.alerted)
    <3>1. t.alerted => ReportedIn(R, l, rule, key, t[stamp])
      BY <1>7 DEF TableCovered, Covered
    <3>2. Covered(R, l, rule, key, now, u, stamp)
      BY <2>2, <2>4, <3>1, <1>7 DEF Covered
    <3>3. TableCovered(R, l, rule, r.table, now, stamp)
      BY <3>2, <1>4 DEF TableCovered
    <3> QED BY <2>4, <3>3 DEF AlertOf
  <2>5. CASE ~t.alerted /\ u.alerted /\ r.alerts = <<a>>
    <3>0. \A i \in DOMAIN R : Mine(i) => t[stamp] - R[i].start > Window(rule)
      BY <1>3, <1>7, <2>5
    <3>1. a \in Alerts /\ a.lcore = l /\ a.rule = rule /\ a.key = key
          /\ a.start = t[stamp] /\ a.time = now
      BY <1>7, <1>2 DEF Alert, Alerts
    <3> HIDE DEF a, u
    <3>2. OneEach(R \o <<a>>)
      <4>1. a.time - a.start \in 0 .. Window(a.rule)
        BY <3>1, <1>1, <1>2, <1>7
      <4> QED BY <3>0, <3>1, <4>1, OneMore
    <3>4. u[stamp] = a.start /\ u # NoTracker
      BY <3>1, <1>7 DEF u
    <3>5. Covered(R \o <<a>>, l, rule, key, now, u, stamp)
      BY <3>1, <3>4, <2>2, <2>5, AlertCovered
    <3>6. \A k \in DOMAIN old : k # key => Covered(R \o <<a>>, l, rule, k, now, r.table[k], stamp)
      BY <3>1, <1>4, AppendCovered
    <3>3. TableCovered(R \o <<a>>, l, rule, r.table, now, stamp)
      BY <3>5, <3>6 DEF TableCovered, u
    <3> QED BY <3>1, <3>2, <3>3, <2>5, AppendAlert DEF AlertOf
  <2> QED BY <2>4, <2>5, <1>7
<1> QED BY <1>5, <1>6, <1>7 DEF Alerting

\* age_*_trackers drops trackers, and only those whose window has ended.
LEMMA AgedCovered ==
  ASSUME now \in Nat, NEW R \in Seq(Alerts), NEW l, NEW rule \in Rules, NEW table, NEW stamp,
         Recent(table, now, stamp), TableCovered(R, l, rule, table, now, stamp),
         NEW aging, NEW age \in Nat, Window(rule) <= age,
         \A k \in DOMAIN table : table[k] # NoTracker =>
             table[k][aging] \in Nat /\ table[k][stamp] <= table[k][aging]
  PROVE  TableCovered(R, l, rule, Aged(table, aging, age), now, stamp)
<1> SUFFICES ASSUME NEW k \in DOMAIN table
             PROVE  Covered(R, l, rule, k, now, Aged(table, aging, age)[k], stamp)
  BY DEF TableCovered, Aged
<1>0. Window(rule) \in Nat
  BY RuleWindow
<1>1. \A i \in DOMAIN R : R[i].start \in Nat
  BY AlertTimes
<1>2. Covered(R, l, rule, k, now, table[k], stamp)
  BY DEF TableCovered
<1>3. CASE table[k] # NoTracker /\ Old(table[k][aging], age)
  <2>1. Aged(table, aging, age)[k] = NoTracker
    BY <1>3 DEF Aged
  <2>2. table[k][stamp] \in Nat /\ now - table[k][stamp] > Window(rule)
    BY <1>3, <1>0 DEF Old, Recent
  <2>3. now - table[k][stamp] \in Nat
    BY <1>3 DEF Recent
  <2>4. Remembered(R, l, rule, k, now, NoTracker, stamp)
    BY <2>2, <2>3, <1>0, <1>1, <1>2, <1>3, SMTT(60) DEF Covered, Remembered
  <2> QED BY <2>1, <2>4 DEF Covered
<1>4. CASE ~ (table[k] # NoTracker /\ Old(table[k][aging], age))
  BY <1>4, <1>2 DEF Aged
<1> QED BY <1>3, <1>4

LEMMA AgedTables ==
  ASSUME NEW table, NEW aging, NEW age
  PROVE  /\ ScanTable(table, now) => ScanTable(Aged(table, aging, age), now)
         /\ BruteTable(table, now) => BruteTable(Aged(table, aging, age), now)
         /\ ExfilTable(table, now) => ExfilTable(Aged(table, aging, age), now)
         /\ AnomalyTable(table, now) => AnomalyTable(Aged(table, aging, age), now)
<1>1. ScanTable(table, now) => ScanTable(Aged(table, aging, age), now)
  BY DEF ScanTable, Aged
<1>2. BruteTable(table, now) => BruteTable(Aged(table, aging, age), now)
  BY DEF BruteTable, Aged
<1>3. ExfilTable(table, now) => ExfilTable(Aged(table, aging, age), now)
  BY DEF ExfilTable, Aged
<1>4. AnomalyTable(table, now) => AnomalyTable(Aged(table, aging, age), now)
  BY DEF AnomalyTable, Aged
<1> QED BY <1>1, <1>2, <1>3, <1>4

\* The times of the trackers in a table.
LEMMA TablesRecent ==
  ASSUME NEW table, NEW n \in Nat
  PROVE  /\ ScanTable(table, n) =>
              /\ Recent(table, n, "first_seen") /\ Recent(table, n, "last_seen")
              /\ DOMAIN table = Sources
              /\ \A k \in Sources : table[k] # NoTracker => table[k].first_seen <= table[k].last_seen
         /\ BruteTable(table, n) => Recent(table, n, "window_start") /\ DOMAIN table = Targets
         /\ ExfilTable(table, n) => Recent(table, n, "window_start") /\ DOMAIN table = Pairs
         /\ AnomalyTable(table, n) => Recent(table, n, "window_start") /\ DOMAIN table = Sources
<1>1. ASSUME ScanTable(table, n)
      PROVE  /\ Recent(table, n, "first_seen") /\ Recent(table, n, "last_seen")
             /\ DOMAIN table = Sources
             /\ \A k \in Sources : table[k] # NoTracker => table[k].first_seen <= table[k].last_seen
  BY <1>1 DEF ScanTable, ScanOK, ScanTrackers, Recent
<1>2. ASSUME BruteTable(table, n) PROVE Recent(table, n, "window_start") /\ DOMAIN table = Targets
  BY <1>2 DEF BruteTable, BruteOK, BruteTrackers, Recent
<1>3. ASSUME ExfilTable(table, n) PROVE Recent(table, n, "window_start") /\ DOMAIN table = Pairs
  BY <1>3 DEF ExfilTable, ExfilOK, ExfilTrackers, Recent
<1>4. ASSUME AnomalyTable(table, n) PROVE Recent(table, n, "window_start") /\ DOMAIN table = Sources
  BY <1>4 DEF AnomalyTable, AnomalyOK, AnomalyTrackers, Recent
<1> QED BY <1>1, <1>2, <1>3, <1>4

LEMMA OthersKept ==
  ASSUME NEW R \in Seq(Alerts), NEW l, NEW rule, NEW alerts,
         AlertOf(alerts, l, rule),
         NEW m, NEW q, m # l \/ q # rule,
         NEW table, NEW n, NEW stamp, TableCovered(R, m, q, table, n, stamp)
  PROVE  TableCovered(R \o alerts, m, q, table, n, stamp)
<1>1. CASE alerts = << >>
  BY <1>1
<1>2. CASE \E a \in Alerts : a.lcore = l /\ a.rule = rule /\ alerts = <<a>>
  <2>1. PICK a \in Alerts : a.lcore = l /\ a.rule = rule /\ alerts = <<a>>
    BY <1>2
  <2>2. a.lcore # m \/ a.rule # q
    BY <2>1
  <2> QED BY <2>1, <2>2, OthersCovered
<1> QED BY <1>1, <1>2 DEF AlertOf

-----------------------------------------------------------------------------
(***************************************************************************)
(* The inductive invariant.  OneAlertPerWindow is its fourth part, which   *)
(* the last one makes inductive: what forbids the next alert is the        *)
(* tracker, and what tells that there was one is its mark.                 *)
(***************************************************************************)
Types ==
    /\ now \in Nat /\ off_hours_now \in BOOLEAN /\ failed \in [Flows -> Nat]
    /\ active \subseteq Flows /\ packet_count \in 0 .. AgePeriod - 1
    /\ scan \in [Lcores -> [Sources -> ScanTrackers \cup {NoTracker}]]
    /\ brute \in [Lcores -> [Targets -> BruteTrackers \cup {NoTracker}]]
    /\ exfil \in [Lcores -> [Pairs -> ExfilTrackers \cup {NoTracker}]]
    /\ anomaly \in [Lcores -> [Sources -> AnomalyTrackers \cup {NoTracker}]]

TrackersSound ==
    \A l \in Lcores : /\ ScanTable(scan[l], now) /\ BruteTable(brute[l], now)
                      /\ ExfilTable(exfil[l], now) /\ AnomalyTable(anomaly[l], now)

AlertsCovered ==
    \A l \in Lcores :
        /\ TableCovered(raised, l, 9000, scan[l], now, "first_seen")
        /\ TableCovered(raised, l, 9001, brute[l], now, "window_start")
        /\ TableCovered(raised, l, 9002, exfil[l], now, "window_start")
        /\ TableCovered(raised, l, 9004, anomaly[l], now, "window_start")

IInv ==
    /\ Types /\ TrackersSound
    /\ raised \in Seq(Alerts) /\ OneEach(raised)
    /\ AlertsCovered

LEMMA InitOK == Init => IInv
<1> SUFFICES ASSUME Init PROVE IInv
  OBVIOUS
<1>1. Types
  BY BehavioralAssumption DEF Init, Types
<1>2. TrackersSound
  BY DEF Init, TrackersSound, ScanTable, BruteTable, ExfilTable, AnomalyTable
<1>3. raised \in Seq(Alerts) /\ OneEach(raised) /\ AlertsCovered
  BY DEF Init, OneEach, AlertsCovered, TableCovered, Covered, Remembered
<1> QED BY <1>1, <1>2, <1>3 DEF IInv

LEMMA PacketOK ==
  ASSUME IInv, NEW l \in Lcores, Packet(l)
  PROVE  IInv'
<1>0. PICK f \in active, g \in Garbage \cup {0}, mem \in {Allocs, {}} :
        \E p \in f.sends : InspectPacket(l, f, p.syn, p.len, g, mem)
  BY DEF Packet
<1>1. PICK p \in f.sends : InspectPacket(l, f, p.syn, p.len, g, mem)
  BY <1>0
<1> DEFINE due == packet_count + 1 = AgePeriod
           S == IF due THEN Aged(scan[l], "last_seen", SCAN_AGE) ELSE scan[l]
           B == IF due THEN Aged(brute[l], "window_start", BRUTE_AGE) ELSE brute[l]
           X == IF due THEN Aged(exfil[l], "window_start", EXFIL_AGE) ELSE exfil[l]
           A == IF due THEN Aged(anomaly[l], "window_start", ANOMALY_AGE) ELSE anomaly[l]
           ms == "scan" \in mem
           mb == "brute" \in mem
           mx == "exfil" \in mem
           ma == "anomaly" \in mem
           s == DetectPortScan(S, l, f, p.syn, ms)
           b == DetectBruteForce(B, l, f, mb)
           x == DetectExfiltration(X, l, f, p.len, mx)
           a == DetectAnomaly(A, l, f, g, ma)
           R1 == raised \o s.alerts
           R2 == R1 \o b.alerts
           R3 == R2 \o x.alerts
           R4 == R3 \o a.alerts
<1>2. /\ packet_count' = (packet_count + 1) % AgePeriod
      /\ scan' = [scan EXCEPT ![l] = s.table]
      /\ brute' = [brute EXCEPT ![l] = b.table]
      /\ exfil' = [exfil EXCEPT ![l] = x.table]
      /\ anomaly' = [anomaly EXCEPT ![l] = a.table]
      /\ raised' = R4
      /\ UNCHANGED <<active, now, off_hours_now, failed>>
  BY <1>1 DEF InspectPacket
<1>m. ms \in BOOLEAN /\ mb \in BOOLEAN /\ mx \in BOOLEAN /\ ma \in BOOLEAN
  OBVIOUS
<1> HIDE DEF ms, mb, mx, ma
<1>3. /\ f \in Flows /\ g \in Nat /\ p.syn \in BOOLEAN /\ p.len \in Nat /\ failed[f] \in Nat
      /\ now \in Nat /\ off_hours_now \in BOOLEAN
      /\ f.src \in Sources /\ <<f.dst, f.dst_port>> \in Targets /\ <<f.src, f.dst>> \in Pairs
  <2>1. f \in Flows /\ failed[f] \in Nat /\ now \in Nat /\ off_hours_now \in BOOLEAN
    BY DEF IInv, Types
  <2>2. p.syn \in BOOLEAN /\ p.len \in Nat /\ g \in Nat
    BY <2>1, BehavioralAssumption
  <2> QED BY <2>1, <2>2, FlowKeys
<1>4. /\ ScanTable(scan[l], now) /\ BruteTable(brute[l], now)
      /\ ExfilTable(exfil[l], now) /\ AnomalyTable(anomaly[l], now)
  BY DEF IInv, TrackersSound
<1>5. raised \in Seq(Alerts) /\ OneEach(raised)
  BY DEF IInv
<1>r. 9000 \in Rules /\ 9001 \in Rules /\ 9002 \in Rules /\ 9004 \in Rules
  BY DEF Rules
<1>6. ScanTable(S, now) /\ BruteTable(B, now) /\ ExfilTable(X, now) /\ AnomalyTable(A, now)
  BY <1>4, AgedTables
<1>7. /\ TableCovered(raised, l, 9000, scan[l], now, "first_seen")
      /\ TableCovered(raised, l, 9001, brute[l], now, "window_start")
      /\ TableCovered(raised, l, 9002, exfil[l], now, "window_start")
      /\ TableCovered(raised, l, 9004, anomaly[l], now, "window_start")
  BY DEF IInv, AlertsCovered
<1>8. TableCovered(raised, l, 9000, S, now, "first_seen")
  <2>1. Recent(scan[l], now, "first_seen") /\ Window(9000) <= SCAN_AGE /\ SCAN_AGE \in Nat
        /\ \A k \in DOMAIN scan[l] : scan[l][k] # NoTracker =>
             scan[l][k]["last_seen"] \in Nat /\ scan[l][k]["first_seen"] <= scan[l][k]["last_seen"]
    BY <1>3, <1>4, TablesRecent, Windows, BehavioralAssumption DEF Recent
  <2>2. TableCovered(raised, l, 9000, Aged(scan[l], "last_seen", SCAN_AGE), now, "first_seen")
    BY <2>1, <1>3, <1>5, <1>7, <1>r, AgedCovered
  <2> QED BY <2>2, <1>7
<1>9. TableCovered(raised, l, 9001, B, now, "window_start")
  <2>1. Recent(brute[l], now, "window_start") /\ Window(9001) <= BRUTE_AGE /\ BRUTE_AGE \in Nat
        /\ \A k \in DOMAIN brute[l] : brute[l][k] # NoTracker =>
             brute[l][k]["window_start"] \in Nat /\ brute[l][k]["window_start"] <= brute[l][k]["window_start"]
    BY <1>3, <1>4, TablesRecent, Windows, BehavioralAssumption DEF Recent
  <2>2. TableCovered(raised, l, 9001, Aged(brute[l], "window_start", BRUTE_AGE), now, "window_start")
    BY <2>1, <1>3, <1>5, <1>7, <1>r, AgedCovered
  <2> QED BY <2>2, <1>7
<1>10. TableCovered(raised, l, 9002, X, now, "window_start")
  <2>1. Recent(exfil[l], now, "window_start") /\ Window(9002) <= EXFIL_AGE /\ EXFIL_AGE \in Nat
        /\ \A k \in DOMAIN exfil[l] : exfil[l][k] # NoTracker =>
             exfil[l][k]["window_start"] \in Nat /\ exfil[l][k]["window_start"] <= exfil[l][k]["window_start"]
    BY <1>3, <1>4, TablesRecent, Windows, BehavioralAssumption DEF Recent
  <2>2. TableCovered(raised, l, 9002, Aged(exfil[l], "window_start", EXFIL_AGE), now, "window_start")
    BY <2>1, <1>3, <1>5, <1>7, <1>r, AgedCovered
  <2> QED BY <2>2, <1>7
<1>11. TableCovered(raised, l, 9004, A, now, "window_start")
  <2>1. Recent(anomaly[l], now, "window_start") /\ Window(9004) <= ANOMALY_AGE /\ ANOMALY_AGE \in Nat
        /\ \A k \in DOMAIN anomaly[l] : anomaly[l][k] # NoTracker =>
             anomaly[l][k]["window_start"] \in Nat /\ anomaly[l][k]["window_start"] <= anomaly[l][k]["window_start"]
    BY <1>3, <1>4, TablesRecent, Windows, BehavioralAssumption DEF Recent
  <2>2. TableCovered(raised, l, 9004, Aged(anomaly[l], "window_start", ANOMALY_AGE), now, "window_start")
    BY <2>1, <1>3, <1>5, <1>7, <1>r, AgedCovered
  <2> QED BY <2>2, <1>7
<1> HIDE DEF S, B, X, A
<1>12. ScanTable(s.table, now) /\ Alerting(S, s, f.src, "first_seen", l, 9000)
  BY <1>m, <1>3, <1>6, ScanStep
<1>13. BruteTable(b.table, now) /\ Alerting(B, b, <<f.dst, f.dst_port>>, "window_start", l, 9001)
  BY <1>m, <1>3, <1>6, BruteStep
<1>14. ExfilTable(x.table, now) /\ Alerting(X, x, <<f.src, f.dst>>, "window_start", l, 9002)
  <2> DEFINE len == p.len
  <2>1. len \in Nat
    BY <1>3
  <2> HIDE DEF len
  <2>2. /\ ExfilTable(DetectExfiltration(X, l, f, len, mx).table, now)
        /\ Alerting(X, DetectExfiltration(X, l, f, len, mx), <<f.src, f.dst>>, "window_start", l, 9002)
    BY <2>1, <1>m, <1>3, <1>6, ExfilStep
  <2> QED BY <2>2 DEF len
<1>15. AnomalyTable(a.table, now) /\ Alerting(A, a, f.src, "window_start", l, 9004)
  BY <1>m, <1>3, <1>6, AnomalyStep
<1> HIDE DEF s, b, x, a
<1>16. /\ DOMAIN S = Sources /\ DOMAIN s.table = Sources /\ Recent(S, now, "first_seen")
       /\ DOMAIN B = Targets /\ DOMAIN b.table = Targets /\ Recent(B, now, "window_start")
       /\ DOMAIN X = Pairs /\ DOMAIN x.table = Pairs /\ Recent(X, now, "window_start")
       /\ DOMAIN A = Sources /\ DOMAIN a.table = Sources /\ Recent(A, now, "window_start")
  BY <1>3, <1>6, <1>12, <1>13, <1>14, <1>15, TablesRecent
<1>17. /\ R1 \in Seq(Alerts) /\ OneEach(R1) /\ AlertOf(s.alerts, l, 9000)
       /\ TableCovered(R1, l, 9000, s.table, now, "first_seen")
  BY <1>3, <1>5, <1>8, <1>12, <1>16, <1>r, DetectorStep
<1> HIDE DEF R1
<1>18. ASSUME NEW m, NEW q, m # l \/ q # 9000, NEW table, NEW stamp,
              TableCovered(raised, m, q, table, now, stamp)
       PROVE  TableCovered(R1, m, q, table, now, stamp)
  <2> DEFINE new == s.alerts
  <2>1. R1 = raised \o new
    BY DEF R1
  <2>2. raised \in Seq(Alerts) /\ AlertOf(new, l, 9000)
    BY <1>5, <1>17
  <2> HIDE DEF new
  <2> QED BY <2>1, <2>2, <1>18, OthersKept
<1>19. /\ R2 \in Seq(Alerts) /\ OneEach(R2) /\ AlertOf(b.alerts, l, 9001)
       /\ TableCovered(R2, l, 9001, b.table, now, "window_start")
  <2>1. TableCovered(R1, l, 9001, B, now, "window_start")
    BY <1>18, <1>9
  <2> QED BY <2>1, <1>3, <1>17, <1>13, <1>16, <1>r, DetectorStep
<1> HIDE DEF R2
<1>20. ASSUME NEW m, NEW q, m # l \/ q # 9001, NEW table, NEW stamp,
              TableCovered(R1, m, q, table, now, stamp)
       PROVE  TableCovered(R2, m, q, table, now, stamp)
  <2> DEFINE new == b.alerts
  <2>1. R2 = R1 \o new
    BY DEF R2
  <2>2. R1 \in Seq(Alerts) /\ AlertOf(new, l, 9001)
    BY <1>17, <1>19
  <2> HIDE DEF new
  <2> QED BY <2>1, <2>2, <1>20, OthersKept
<1>21. /\ R3 \in Seq(Alerts) /\ OneEach(R3) /\ AlertOf(x.alerts, l, 9002)
       /\ TableCovered(R3, l, 9002, x.table, now, "window_start")
  <2>1. TableCovered(R2, l, 9002, X, now, "window_start")
    BY <1>18, <1>20, <1>10
  <2> QED BY <2>1, <1>3, <1>19, <1>14, <1>16, <1>r, DetectorStep
<1> HIDE DEF R3
<1>22. ASSUME NEW m, NEW q, m # l \/ q # 9002, NEW table, NEW stamp,
              TableCovered(R2, m, q, table, now, stamp)
       PROVE  TableCovered(R3, m, q, table, now, stamp)
  <2> DEFINE new == x.alerts
  <2>1. R3 = R2 \o new
    BY DEF R3
  <2>2. R2 \in Seq(Alerts) /\ AlertOf(new, l, 9002)
    BY <1>19, <1>21
  <2> HIDE DEF new
  <2> QED BY <2>1, <2>2, <1>22, OthersKept
<1>23. /\ R4 \in Seq(Alerts) /\ OneEach(R4) /\ AlertOf(a.alerts, l, 9004)
       /\ TableCovered(R4, l, 9004, a.table, now, "window_start")
  <2>1. TableCovered(R3, l, 9004, A, now, "window_start")
    BY <1>18, <1>20, <1>22, <1>11
  <2> QED BY <2>1, <1>3, <1>21, <1>15, <1>16, <1>r, DetectorStep
<1> HIDE DEF R4
<1>24. ASSUME NEW m, NEW q, m # l \/ q # 9004, NEW table, NEW stamp,
              TableCovered(R3, m, q, table, now, stamp)
       PROVE  TableCovered(R4, m, q, table, now, stamp)
  <2> DEFINE new == a.alerts
  <2>1. R4 = R3 \o new
    BY DEF R4
  <2>2. R3 \in Seq(Alerts) /\ AlertOf(new, l, 9004)
    BY <1>21, <1>23
  <2> HIDE DEF new
  <2> QED BY <2>1, <2>2, <1>24, OthersKept
<1>25. /\ TableCovered(R4, l, 9000, s.table, now, "first_seen")
       /\ TableCovered(R4, l, 9001, b.table, now, "window_start")
       /\ TableCovered(R4, l, 9002, x.table, now, "window_start")
       /\ TableCovered(R4, l, 9004, a.table, now, "window_start")
  <2>1. TableCovered(R4, l, 9000, s.table, now, "first_seen")
    BY <1>17, <1>20, <1>22, <1>24
  <2>2. TableCovered(R4, l, 9001, b.table, now, "window_start")
    BY <1>19, <1>22, <1>24
  <2>3. TableCovered(R4, l, 9002, x.table, now, "window_start")
    BY <1>21, <1>24
  <2> QED BY <2>1, <2>2, <2>3, <1>23
<1>26. ASSUME NEW m, m # l, NEW q, NEW table, NEW stamp,
              TableCovered(raised, m, q, table, now, stamp)
       PROVE  TableCovered(R4, m, q, table, now, stamp)
  <2>1. TableCovered(R1, m, q, table, now, stamp)
    BY <1>26, <1>18
  <2>2. TableCovered(R2, m, q, table, now, stamp)
    BY <2>1, <1>26, <1>20
  <2>3. TableCovered(R3, m, q, table, now, stamp)
    BY <2>2, <1>26, <1>22
  <2> QED BY <2>3, <1>26, <1>24
<1>27. Types'
  BY <1>2, <1>12, <1>13, <1>14, <1>15, BehavioralAssumption, SMTT(60)
  DEF IInv, Types, ScanTable, BruteTable, ExfilTable, AnomalyTable
<1>28. TrackersSound'
  <2> SUFFICES ASSUME NEW m \in Lcores
               PROVE  /\ ScanTable(scan'[m], now) /\ BruteTable(brute'[m], now)
                      /\ ExfilTable(exfil'[m], now) /\ AnomalyTable(anomaly'[m], now)
    BY <1>2 DEF TrackersSound, ScanTable, BruteTable, ExfilTable, AnomalyTable,
                ScanOK, BruteOK, ExfilOK, AnomalyOK
  <2>1. CASE m = l
    BY <2>1, <1>2, <1>12, <1>13, <1>14, <1>15 DEF IInv, Types
  <2>2. CASE m # l
    BY <2>2, <1>2 DEF IInv, Types, TrackersSound
  <2> QED BY <2>1, <2>2
<1>29. AlertsCovered'
  <2> SUFFICES ASSUME NEW m \in Lcores
               PROVE  /\ TableCovered(R4, m, 9000, scan'[m], now, "first_seen")
                      /\ TableCovered(R4, m, 9001, brute'[m], now, "window_start")
                      /\ TableCovered(R4, m, 9002, exfil'[m], now, "window_start")
                      /\ TableCovered(R4, m, 9004, anomaly'[m], now, "window_start")
    BY <1>2 DEF AlertsCovered
  <2>1. CASE m = l
    BY <2>1, <1>2, <1>25 DEF IInv, Types
  <2>2. CASE m # l
    <3>1. scan'[m] = scan[m] /\ brute'[m] = brute[m] /\ exfil'[m] = exfil[m] /\ anomaly'[m] = anomaly[m]
      BY <2>2, <1>2 DEF IInv, Types
    <3>2. /\ TableCovered(raised, m, 9000, scan[m], now, "first_seen")
          /\ TableCovered(raised, m, 9001, brute[m], now, "window_start")
          /\ TableCovered(raised, m, 9002, exfil[m], now, "window_start")
          /\ TableCovered(raised, m, 9004, anomaly[m], now, "window_start")
      BY DEF IInv, AlertsCovered
    <3> QED BY <2>2, <3>1, <3>2, <1>26
  <2> QED BY <2>1, <2>2
<1> QED BY <1>2, <1>23, <1>27, <1>28, <1>29 DEF IInv, OneEach

LEMMA TickOK == ASSUME IInv, Tick PROVE IInv'
<1>1. now \in Nat /\ now' = now + 1 /\ UNCHANGED <<scan, brute, exfil, anomaly, raised>>
  BY DEF IInv, Types, Tick, tables
<1>2. Types'
  BY DEF IInv, Types, Tick, tables
<1>3. TrackersSound'
  <2> SUFFICES ASSUME NEW l \in Lcores
               PROVE  /\ ScanTable(scan[l], now + 1) /\ BruteTable(brute[l], now + 1)
                      /\ ExfilTable(exfil[l], now + 1) /\ AnomalyTable(anomaly[l], now + 1)
    BY <1>1 DEF TrackersSound, ScanTable, BruteTable, ExfilTable, AnomalyTable,
                ScanOK, BruteOK, ExfilOK, AnomalyOK
  <2>1. /\ ScanTable(scan[l], now) /\ BruteTable(brute[l], now)
        /\ ExfilTable(exfil[l], now) /\ AnomalyTable(anomaly[l], now)
    BY DEF IInv, TrackersSound
  <2>2. ScanTable(scan[l], now + 1)
    BY <2>1, <1>1 DEF ScanTable, ScanOK, ScanTrackers
  <2>3. BruteTable(brute[l], now + 1)
    BY <2>1, <1>1 DEF BruteTable, BruteOK, BruteTrackers
  <2>4. ExfilTable(exfil[l], now + 1)
    BY <2>1, <1>1 DEF ExfilTable, ExfilOK, ExfilTrackers
  <2>5. AnomalyTable(anomaly[l], now + 1)
    BY <2>1, <1>1 DEF AnomalyTable, AnomalyOK, AnomalyTrackers
  <2> QED BY <2>2, <2>3, <2>4, <2>5
<1>4. ASSUME NEW l, NEW rule \in Rules, NEW table, NEW stamp,
             TableCovered(raised, l, rule, table, now, stamp)
      PROVE  TableCovered(raised, l, rule, table, now + 1, stamp)
  <2>1. Window(rule) \in Nat
    BY RuleWindow
  <2>2. \A i \in DOMAIN raised : raised[i].start \in Nat
    BY AlertTimes DEF IInv
  <2> QED BY <1>1, <1>4, <2>1, <2>2 DEF TableCovered, Covered, Remembered
<1>5. AlertsCovered'
  <2>1. 9000 \in Rules /\ 9001 \in Rules /\ 9002 \in Rules /\ 9004 \in Rules
    BY DEF Rules
  <2>2. \A l \in Lcores :
          /\ TableCovered(raised, l, 9000, scan[l], now + 1, "first_seen")
          /\ TableCovered(raised, l, 9001, brute[l], now + 1, "window_start")
          /\ TableCovered(raised, l, 9002, exfil[l], now + 1, "window_start")
          /\ TableCovered(raised, l, 9004, anomaly[l], now + 1, "window_start")
    BY <1>4, <2>1 DEF IInv, AlertsCovered
  <2> QED BY <1>1, <2>2 DEF AlertsCovered
<1> QED BY <1>1, <1>2, <1>3, <1>5 DEF IInv, OneEach

LEMMA QuietOK ==
  ASSUME IInv, Types', UNCHANGED <<now, scan, brute, exfil, anomaly, raised>>
  PROVE  IInv'
<1>1. TrackersSound'
  BY DEF IInv, TrackersSound, ScanTable, BruteTable, ExfilTable, AnomalyTable,
         ScanOK, BruteOK, ExfilOK, AnomalyOK
<1>2. AlertsCovered'
  BY DEF IInv, AlertsCovered
<1> QED BY <1>1, <1>2 DEF IInv, OneEach

LEMMA NextOK == IInv /\ [Next]_vars => IInv'
<1> SUFFICES ASSUME IInv, [Next]_vars PROVE IInv'
  OBVIOUS
<1>1. ASSUME NEW l \in Lcores, Packet(l) PROVE IInv'
  BY <1>1, PacketOK
<1>2. ASSUME NEW f \in Flows, LoginFails(f) PROVE IInv'
  <2>1. Types' /\ UNCHANGED <<now, scan, brute, exfil, anomaly, raised>>
    BY <1>2 DEF LoginFails, IInv, Types, tables
  <2> QED BY <2>1, QuietOK
<1>3. CASE Tick
  BY <1>3, TickOK
<1>4. CASE UNCHANGED vars
  <2>1. Types' /\ UNCHANGED <<now, scan, brute, exfil, anomaly, raised>>
    BY <1>4 DEF vars, IInv, Types, tables
  <2> QED BY <2>1, QuietOK
<1> QED BY <1>1, <1>2, <1>3, <1>4 DEF Next

LEMMA InvariantOK == Spec => []IInv
BY InitOK, NextOK, PTL DEF Spec

\* generate_behavioral_alert and the alerted flags: every alert falls in its
\* tracker's window, and one detector reports one subject at most once in a
\* window, also when the tracker was aged out and made again in between.
THEOREM OneReport == Spec => []OneAlertPerWindow
<1>1. IInv => OneAlertPerWindow
  BY DEF IInv, OneEach, OneAlertPerWindow
<1> QED BY InvariantOK, <1>1, PTL

-----------------------------------------------------------------------------
(***************************************************************************)
(* Failed logins.  failed_attempts is never below the number of distinct   *)
(* failed logins the window has seen: each is counted with the packet that *)
(* shows it first, and again with every later one.                         *)
(***************************************************************************)
NoMore(S, t) ==
    /\ IsFiniteSet(S)
    /\ IF t = NoTracker THEN S = {} ELSE Cardinality(S) <= t.failed_attempts

LoginsCounted ==
    /\ DOMAIN logins = Lcores
    /\ \A l \in Lcores : DOMAIN logins[l] = Targets
    /\ \A l \in Lcores, k \in Targets : NoMore(logins[l][k], brute[l][k])

LEMMA FailedLogins ==
  ASSUME NEW f, NEW n \in Nat
  PROVE  LET S == {<<f, i>> : i \in 1 .. n} IN IsFiniteSet(S) /\ Cardinality(S) <= n
<1> DEFINE S == {<<f, i>> : i \in 1 .. n}
           g == [i \in 1 .. n |-> <<f, i>>]
<1>1. IsFiniteSet(1 .. n) /\ Cardinality(1 .. n) = n
  BY FS_Interval
<1>2. g \in Surjection(1 .. n, S)
  BY DEF Surjection
<1> HIDE DEF S, g
<1>3. IsFiniteSet(S) /\ Cardinality(S) <= Cardinality(1 .. n)
  BY <1>1, <1>2, FS_Surjection
<1> QED BY <1>1, <1>3 DEF S

LEMMA AddLogins ==
  ASSUME NEW S, IsFiniteSet(S), NEW T, IsFiniteSet(T), NEW m \in Nat, NEW n \in Nat,
         Cardinality(S) <= m, Cardinality(T) <= n
  PROVE  IsFiniteSet(S \cup T) /\ Cardinality(S \cup T) <= n + m
<1>1. IsFiniteSet(S \cup T) /\ IsFiniteSet(S \cap T)
      /\ Cardinality(S \cup T) = Cardinality(S) + Cardinality(T) - Cardinality(S \cap T)
  BY FS_Union, FS_Intersection
<1>2. Cardinality(S) \in Nat /\ Cardinality(T) \in Nat /\ Cardinality(S \cap T) \in Nat
      /\ Cardinality(S \cup T) \in Nat
  BY <1>1, FS_CardinalityType
<1> QED BY <1>1, <1>2

LEMMA LoginsStep ==
  ASSUME IInv, LoginsCounted, NEW l \in Lcores, Packet(l)
  PROVE  LoginsCounted'
<1>0. PICK f \in active, g \in Garbage \cup {0}, mem \in {Allocs, {}} :
        \E p \in f.sends : InspectPacket(l, f, p.syn, p.len, g, mem)
  BY DEF Packet
<1>1. PICK p \in f.sends : InspectPacket(l, f, p.syn, p.len, g, mem)
  BY <1>0
<1> DEFINE due == packet_count + 1 = AgePeriod
           B == IF due THEN Aged(brute[l], "window_start", BRUTE_AGE) ELSE brute[l]
           memory == "brute" \in mem
           b == DetectBruteForce(B, l, f, memory)
           key == <<f.dst, f.dst_port>>
           L == LoginsSeen(logins[l], B, b.table, f)
<1>2. /\ brute' = [brute EXCEPT ![l] = b.table]
      /\ logins' = [logins EXCEPT ![l] = L]
  BY <1>1 DEF InspectPacket
<1>3. f \in Flows /\ now \in Nat /\ memory \in BOOLEAN /\ failed[f] \in Nat /\ key \in Targets
  <2>1. f \in Flows /\ now \in Nat /\ failed[f] \in Nat
    BY DEF IInv, Types
  <2>2. key \in Targets
    BY <2>1, FlowKeys
  <2>3. memory \in BOOLEAN
    OBVIOUS
  <2> QED BY <2>1, <2>2, <2>3
<1>4. BruteTable(B, now)
  BY AgedTables DEF IInv, TrackersSound
<1>5. \A k \in Targets : NoMore(logins[l][k], brute[l][k]) /\ (B[k] = brute[l][k] \/ B[k] = NoTracker)
  BY DEF LoginsCounted, Aged, IInv, Types
<1>6. \A k \in Targets : B[k] # NoTracker => NoMore(logins[l][k], B[k]) /\ B[k].failed_attempts \in Nat
  <2> HIDE DEF B
  <2>1. \A k \in Targets : B[k] # NoTracker => B[k].failed_attempts \in Nat
    BY <1>4 DEF BruteTable, BruteOK, BruteTrackers
  <2> QED BY <1>5, <2>1
<1> HIDE DEF B, memory
<1>7. /\ BruteTable(b.table, now) /\ Alerting(B, b, key, "window_start", l, 9001)
      /\ Counting(B, b, f)
  BY <1>3, <1>4, BruteStep
<1>8. /\ \A k \in Targets : k # key => b.table[k] = B[k]
      /\ f.alproto # "HTTP" \/ failed[f] = 0 => b.table = B
  <2>1. f.alproto # "HTTP" \/ failed[f] = 0 => b.table = B
    BY DEF DetectBruteForce
  <2> HIDE DEF b, key
  <2> QED BY <2>1, <1>4, <1>7 DEF Alerting, BruteTable
<1>k. key = <<f.dst, f.dst_port>>
  OBVIOUS
<1>b. L = LoginsSeen(logins[l], B, b.table, f)
  OBVIOUS
<1> HIDE DEF b, key, L
<1>9. ASSUME NEW k \in Targets PROVE NoMore(L[k], b.table[k])
  <2> DEFINE F == {<<f, i>> : i \in 1 .. failed[f]}
  <2>1. CASE b.table[k] = NoTracker
    <3>1. L[k] = {}
      BY <2>1, <1>b DEF LoginsSeen
    <3> QED BY <2>1, <3>1, FS_EmptySet DEF NoMore
  <2>2. CASE b.table[k] # NoTracker /\ (f.alproto # "HTTP" \/ failed[f] = 0 \/ k # key)
    <3>1. L[k] = logins[l][k] /\ b.table[k] = B[k]
      BY <2>2, <1>b, <1>k, <1>8 DEF LoginsSeen
    <3> QED BY <2>2, <3>1, <1>6
  <2>3. CASE b.table[k] # NoTracker /\ ~ (f.alproto # "HTTP" \/ failed[f] = 0 \/ k # key)
    <3>1. L[k] = (IF B[k] # NoTracker /\ now - B[k].window_start <= BRUTE_FORCE_WINDOW
                  THEN logins[l][k] ELSE {}) \cup F
      BY <2>3, <1>b, <1>k DEF LoginsSeen
    <3>2. b.table[k].failed_attempts =
            failed[f] + (IF B[k] # NoTracker /\ now - B[k].window_start <= BRUTE_FORCE_WINDOW
                         THEN B[k].failed_attempts ELSE 0)
      BY <2>3, <1>k, <1>7 DEF Counting
    <3>3. IsFiniteSet(F) /\ Cardinality(F) <= failed[f]
      BY <1>3, FailedLogins
    <3> HIDE DEF F
    <3>4. CASE B[k] # NoTracker /\ now - B[k].window_start <= BRUTE_FORCE_WINDOW
      <4>1. IsFiniteSet(logins[l][k]) /\ Cardinality(logins[l][k]) <= B[k].failed_attempts
            /\ B[k].failed_attempts \in Nat
        BY <3>4, <1>6 DEF NoMore
      <4>2. IsFiniteSet(logins[l][k] \cup F)
            /\ Cardinality(logins[l][k] \cup F) <= failed[f] + B[k].failed_attempts
        BY <4>1, <3>3, <1>3, AddLogins
      <4> QED BY <2>3, <3>1, <3>2, <3>4, <4>2 DEF NoMore
    <3>5. CASE ~ (B[k] # NoTracker /\ now - B[k].window_start <= BRUTE_FORCE_WINDOW)
      <4>1. L[k] = F /\ b.table[k].failed_attempts = failed[f]
        BY <3>1, <3>2, <3>5, <1>3
      <4> QED BY <2>3, <3>3, <4>1 DEF NoMore
    <3> QED BY <3>4, <3>5
  <2> QED BY <2>1, <2>2, <2>3
<1>10. DOMAIN L = Targets
  BY <1>b DEF LoginsSeen
<1>11. brute \in [Lcores -> [Targets -> BruteTrackers \cup {NoTracker}]]
  BY DEF IInv, Types
<1>12. /\ brute'[l] = b.table /\ logins'[l] = L /\ DOMAIN logins' = Lcores
       /\ \A m \in Lcores : m # l => brute'[m] = brute[m] /\ logins'[m] = logins[m]
  BY <1>2, <1>11 DEF LoginsCounted
<1>13. \A m \in Lcores : DOMAIN logins'[m] = Targets
  BY <1>10, <1>12 DEF LoginsCounted
<1>14. \A m \in Lcores, k \in Targets : NoMore(logins'[m][k], brute'[m][k])
  BY <1>9, <1>12 DEF LoginsCounted
<1> QED BY <1>12, <1>13, <1>14 DEF LoginsCounted, NoMore

LEMMA LoginsInvariant == Spec => []LoginsCounted
<1>1. Init => LoginsCounted
  BY FS_EmptySet DEF Init, LoginsCounted, NoMore
<1>2. IInv /\ LoginsCounted /\ [Next]_vars => LoginsCounted'
  <2> SUFFICES ASSUME IInv, LoginsCounted, [Next]_vars PROVE LoginsCounted'
    OBVIOUS
  <2>1. ASSUME NEW m \in Lcores, Packet(m) PROVE LoginsCounted'
    BY <2>1, LoginsStep
  <2>2. ASSUME brute' = brute, logins' = logins PROVE LoginsCounted'
    BY <2>2 DEF LoginsCounted, NoMore
  <2>3. ASSUME NEW f \in Flows, LoginFails(f) PROVE LoginsCounted'
    BY <2>2, <2>3 DEF LoginFails, tables
  <2>4. CASE Tick
    BY <2>2, <2>4 DEF Tick, tables
  <2>5. CASE UNCHANGED vars
    BY <2>2, <2>5 DEF vars, tables
  <2> QED BY <2>1, <2>3, <2>4, <2>5 DEF Next
<1> QED BY InvariantOK, <1>1, <1>2, PTL DEF Spec

-----------------------------------------------------------------------------
\* A tracker is marked exactly when its window was reported.
LEMMA MarkedReported ==
  ASSUME NEW l, NEW rule \in Rules, NEW k, NEW t, t # NoTracker, NEW stamp,
         t[stamp] \in Nat, Covered(raised, l, rule, k, now, t, stamp)
  PROVE  t.alerted <=> WasReported(l, rule, k, t[stamp])
<1>1. Window(rule) \in Nat
  BY RuleWindow
<1>2. t.alerted => WasReported(l, rule, k, t[stamp])
  BY DEF Covered, ReportedIn, WasReported
<1>3. ASSUME WasReported(l, rule, k, t[stamp]) PROVE t.alerted
  <2>1. PICK i \in DOMAIN raised : /\ raised[i].lcore = l /\ raised[i].rule = rule
                                   /\ raised[i].key = k /\ raised[i].start = t[stamp]
    BY <1>3 DEF WasReported
  <2>2. \/ t[stamp] = raised[i].start /\ t.alerted
        \/ t[stamp] - raised[i].start > Window(rule)
    BY <2>1 DEF Covered, Remembered
  <2> QED BY <2>1, <2>2, <1>1
<1> QED BY <1>2, <1>3

\* behavioral_detector_inspect_packet: in every state, for any number of
\* lcores, flows and packets, a port scan and a transfer were reported in their
\* window exactly when they reach their threshold, and a target against which
\* the threshold of distinct failed logins was reached was reported, whatever
\* windows ended, trackers aged out or allocations failed.
THEOREM Reported == Spec => []SuspectsReported
<1>1. IInv /\ LoginsCounted => SuspectsReported
  <2> SUFFICES ASSUME IInv, LoginsCounted PROVE SuspectsReported
    OBVIOUS
  <2>r. 9000 \in Rules /\ 9001 \in Rules /\ 9002 \in Rules
    BY DEF Rules
  <2>1. ASSUME NEW l \in Lcores, NEW k \in Sources, scan[l][k] # NoTracker
        PROVE  /\ ScanOK(scan[l][k], now) /\ now \in Nat
               /\ scan[l][k].alerted <=> WasReported(l, 9000, k, scan[l][k].first_seen)
    <3>1. ScanOK(scan[l][k], now) /\ now \in Nat
      BY <2>1 DEF IInv, Types, TrackersSound, ScanTable
    <3>2. scan[l][k].first_seen \in Nat
      BY <3>1 DEF ScanOK, ScanTrackers
    <3>3. Covered(raised, l, 9000, k, now, scan[l][k], "first_seen")
      BY DEF IInv, Types, AlertsCovered, TableCovered
    <3> QED BY <2>1, <2>r, <3>1, <3>2, <3>3, MarkedReported
  <2>2. ASSUME NEW l \in Lcores, NEW k \in Targets, brute[l][k] # NoTracker
        PROVE  /\ BruteOK(brute[l][k], now) /\ now \in Nat
               /\ brute[l][k].alerted <=> WasReported(l, 9001, k, brute[l][k].window_start)
    <3>1. BruteOK(brute[l][k], now) /\ now \in Nat
      BY <2>2 DEF IInv, Types, TrackersSound, BruteTable
    <3>2. brute[l][k].window_start \in Nat
      BY <3>1 DEF BruteOK, BruteTrackers
    <3>3. Covered(raised, l, 9001, k, now, brute[l][k], "window_start")
      BY DEF IInv, Types, AlertsCovered, TableCovered
    <3> QED BY <2>2, <2>r, <3>1, <3>2, <3>3, MarkedReported
  <2>3. ASSUME NEW l \in Lcores, NEW k \in Pairs, exfil[l][k] # NoTracker
        PROVE  /\ ExfilOK(exfil[l][k], k[2], now) /\ now \in Nat
               /\ exfil[l][k].alerted <=> WasReported(l, 9002, k, exfil[l][k].window_start)
    <3>1. ExfilOK(exfil[l][k], k[2], now) /\ now \in Nat
      BY <2>3 DEF IInv, Types, TrackersSound, ExfilTable
    <3>2. exfil[l][k].window_start \in Nat
      BY <3>1 DEF ExfilOK, ExfilTrackers
    <3>3. Covered(raised, l, 9002, k, now, exfil[l][k], "window_start")
      BY DEF IInv, Types, AlertsCovered, TableCovered
    <3> QED BY <2>3, <2>r, <3>1, <3>2, <3>3, MarkedReported
  <2>4. ASSUME NEW l \in Lcores, NEW k \in Sources, anomaly[l][k] # NoTracker
        PROVE  AnomalyOK(anomaly[l][k], now) /\ now \in Nat
    BY <2>4 DEF IInv, Types, TrackersSound, AnomalyTable
  <2>5. ScanReported
    BY <2>1 DEF ScanReported, ScanOK
  <2>6. BruteForceReported
    <3> SUFFICES ASSUME NEW l \in Lcores, NEW k \in Targets, brute[l][k] # NoTracker,
                        Cardinality(logins[l][k]) >= BRUTE_FORCE_THRESHOLD
                 PROVE  WasReported(l, 9001, k, brute[l][k].window_start)
      BY DEF BruteForceReported
    <3>1. IsFiniteSet(logins[l][k]) /\ Cardinality(logins[l][k]) <= brute[l][k].failed_attempts
      BY DEF LoginsCounted, NoMore
    <3>2. Cardinality(logins[l][k]) \in Nat /\ brute[l][k].failed_attempts \in Nat
          /\ BRUTE_FORCE_THRESHOLD \in Nat
      BY <3>1, <2>2, FS_CardinalityType, BehavioralAssumption DEF BruteOK, BruteTrackers
    <3>3. brute[l][k].failed_attempts >= BRUTE_FORCE_THRESHOLD
      BY <3>1, <3>2
    <3> QED BY <3>3, <2>2 DEF BruteOK
  <2>7. ExfiltrationReported
    BY <2>3 DEF ExfiltrationReported, ExfilOK
  <2>8. TypeOK
    <3>1. ASSUME NEW l \in Lcores, NEW k \in Sources, scan[l][k] # NoTracker
          PROVE  /\ scan[l][k].first_seen \in 0 .. now /\ scan[l][k].last_seen \in 0 .. now
                 /\ Cardinality(scan[l][k].ports) <= MAX_TRACKED_PORTS
      BY <3>1, <2>1 DEF ScanOK, ScanTrackers
    <3>2. ASSUME NEW l \in Lcores, NEW k \in Targets, brute[l][k] # NoTracker
          PROVE  brute[l][k].window_start \in 0 .. now
      BY <3>2, <2>2 DEF BruteOK, BruteTrackers
    <3>3. ASSUME NEW l \in Lcores, NEW k \in Pairs, exfil[l][k] # NoTracker
          PROVE  exfil[l][k].window_start \in 0 .. now
      BY <3>3, <2>3 DEF ExfilOK, ExfilTrackers
    <3>4. ASSUME NEW l \in Lcores, NEW k \in Sources, anomaly[l][k] # NoTracker
          PROVE  anomaly[l][k].window_start \in 0 .. now
      BY <3>4, <2>4 DEF AnomalyOK, AnomalyTrackers
    <3>5. packet_count \in 0 .. AgePeriod - 1
      BY DEF IInv, Types
    <3> QED BY <3>1, <3>2, <3>3, <3>4, <3>5 DEF TypeOK
  <2> QED BY <2>5, <2>6, <2>7, <2>8 DEF SuspectsReported
<1> QED BY InvariantOK, LoginsInvariant, <1>1, PTL
=============================================================================
