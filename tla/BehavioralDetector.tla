-------------------------- MODULE BehavioralDetector --------------------------
(***************************************************************************)
(* The behavioral detector (src/behavioral_detector.c): one detector for   *)
(* each lcore, each with four tables of trackers, and                      *)
(* behavioral_detector_inspect_packet, which every packet with a flow goes *)
(* through once its lcore has a detector.                                  *)
(*                                                                         *)
(* A chained hash table is a function from keys to trackers, NoTracker     *)
(* where there is none.  A flow is a record of constants, but the          *)
(* transactions its HTTP parser holds grow while packets are inspected:    *)
(* failed[f] of them have a 401 or 403 response.                           *)
(***************************************************************************)
EXTENDS Integers, SequencesExt

CONSTANTS
    Lcores,
    Flows,             \* [src, dst, dst_port, alproto, sends: set of [syn, len]]
    Scenarios,         \* sets of flows that send packets together
    External,          \* destinations for which IS_EXTERNAL_IP holds
    PORT_SCAN_WINDOW, PORT_SCAN_THRESHOLD, MAX_TRACKED_PORTS,
    BRUTE_FORCE_WINDOW, BRUTE_FORCE_THRESHOLD,
    DATA_EXFIL_WINDOW, DATA_EXFIL_THRESHOLD,
    ANOMALY_WINDOW, DNS_HIGH_FREQ_THRESHOLD,
    SCAN_AGE, BRUTE_AGE, EXFIL_AGE, ANOMALY_AGE,  \* when trackers age out
    AgePeriod,         \* packets from one aging to the next
    Garbage,           \* lengths of a list read from the wrong structure
    MaxTime, MaxPackets, MaxFailed,               \* bounds
    NoTracker

ASSUME BehavioralAssumption ==
    /\ Scenarios \subseteq SUBSET Flows
    /\ \A f \in Flows : \A p \in f.sends : p.syn \in BOOLEAN /\ p.len \in Nat
    /\ Garbage \subseteq Nat
    /\ AgePeriod \in Nat \ {0}
    /\ {PORT_SCAN_WINDOW, BRUTE_FORCE_WINDOW, DATA_EXFIL_WINDOW, ANOMALY_WINDOW} \subseteq Nat
    /\ {SCAN_AGE, BRUTE_AGE, EXFIL_AGE, ANOMALY_AGE} \subseteq Nat
    /\ MAX_TRACKED_PORTS \in Nat /\ PORT_SCAN_THRESHOLD \in 1 .. MAX_TRACKED_PORTS
    /\ BRUTE_FORCE_THRESHOLD \in Nat \ {0} /\ DATA_EXFIL_THRESHOLD \in Nat
    /\ DNS_HIGH_FREQ_THRESHOLD \in Nat
    /\ PORT_SCAN_WINDOW <= SCAN_AGE /\ BRUTE_FORCE_WINDOW <= BRUTE_AGE
    /\ DATA_EXFIL_WINDOW <= EXFIL_AGE /\ ANOMALY_WINDOW <= ANOMALY_AGE

Sources == {f.src : f \in Flows}
Targets == {<<f.dst, f.dst_port>> : f \in Flows}
Pairs == {<<f.src, f.dst>> : f \in Flows}
Ports == {f.dst_port : f \in Flows}

ScanTrackers == [first_seen : Nat, last_seen : Nat, ports : SUBSET Ports, alerted : BOOLEAN]
BruteTrackers == [window_start : Nat, failed_attempts : Nat, alerted : BOOLEAN]
ExfilTrackers == [window_start : Nat, bytes : Nat, off_hours : BOOLEAN, alerted : BOOLEAN]
AnomalyTrackers == [window_start : Nat, high_freq_queries : Nat, alerted : BOOLEAN]

ASSUME NoTrackerAssumption ==
    NoTracker \notin ScanTrackers \cup BruteTrackers \cup ExfilTrackers \cup AnomalyTrackers

VARIABLES
    active,          \* the flows of this behavior
    now,             \* time(NULL), in units of the windows
    off_hours_now,   \* IS_OFF_HOURS of the local hour
    failed,          \* failed logins among the transactions of a flow
    packet_count,    \* the static counter, modulo AgePeriod
    packets,         \* packets inspected
    scan, brute, exfil, anomaly,   \* the tables of each lcore's detector
    raised,          \* alerts so far: [lcore, rule, key, start, time]
    logins           \* history: the failed logins each brute force tracker has seen in its window

tables == <<scan, brute, exfil, anomaly>>
vars == <<active, now, off_hours_now, failed, packet_count, packets, tables, raised, logins>>

\* behavioral_detector_init: empty tables
Init ==
    /\ active \in Scenarios
    /\ now = 0 /\ off_hours_now \in BOOLEAN
    /\ failed = [f \in Flows |-> 0]
    /\ packet_count = 0 /\ packets = 0
    /\ scan = [l \in Lcores |-> [k \in Sources |-> NoTracker]]
    /\ brute = [l \in Lcores |-> [k \in Targets |-> NoTracker]]
    /\ exfil = [l \in Lcores |-> [k \in Pairs |-> NoTracker]]
    /\ anomaly = [l \in Lcores |-> [k \in Sources |-> NoTracker]]
    /\ raised = << >>
    /\ logins = [l \in Lcores |-> [k \in Targets |-> {}]]

-----------------------------------------------------------------------------
\* is_within_window
Within_mut(start, window) == now - start < window
Within(start, window) == now - start <= window

\* get_*_tracker with create: the one in the table, or a new one for which
\* there may be no memory
Tracker(table, key, fresh, mem) ==
    IF table[key] # NoTracker THEN table[key]
    ELSE IF mem THEN fresh ELSE NoTracker

Alert(l, rule, key, start) ==
    [lcore |-> l, rule |-> rule, key |-> key, start |-> start, time |-> now]

\* age_*_trackers: what is left of the table; stamp is the field that counts
Old(stamp, age) == now - stamp > age
Aged(table, stamp, age) ==
    [k \in DOMAIN table |->
        IF table[k] # NoTracker /\ Old(table[k][stamp], age) THEN NoTracker ELSE table[k]]

(***************************************************************************)
(* Each detector below is an operator that gives the new table and the     *)
(* alerts it raises.                                                       *)
(***************************************************************************)
NewScan == [first_seen |-> now, last_seen |-> now, ports |-> {}, alerted |-> FALSE]

ResetScan(t) ==
    IF Within(t.first_seen, PORT_SCAN_WINDOW) THEN t
    ELSE [t EXCEPT !.first_seen = now, !.ports = {}, !.alerted = FALSE]

\* add_port_to_tracker
AddPort(t, port) ==
    IF Cardinality(t.ports) < MAX_TRACKED_PORTS
    THEN [t EXCEPT !.ports = @ \cup {port}] ELSE t

\* the number of SYN and of SYN-ACK packets is only written to the log
ManyPorts(t) == Cardinality(t.ports) >= PORT_SCAN_THRESHOLD

DetectPortScan(table, l, f, syn, mem) ==
    LET t0 == Tracker(table, f.src, NewScan, mem)
        t1 == [ResetScan(t0) EXCEPT !.last_seen = now]
        t2 == IF syn THEN AddPort(t1, f.dst_port) ELSE t1
        alert == syn /\ t2.ports # t1.ports /\ ~t2.alerted /\ ManyPorts(t2)
    IN  IF t0 = NoTracker THEN [table |-> table, alerts |-> << >>]
        ELSE [table |-> [table EXCEPT ![f.src] = [t2 EXCEPT !.alerted = @ \/ alert]],
              alerts |-> IF alert THEN <<Alert(l, 9000, f.src, t2.first_seen)>> ELSE << >>]

\* detect_brute_force: once for each failed transaction in the list of the
\* flow, the ones counted with earlier packets too
NewBrute == [window_start |-> now, failed_attempts |-> 0, alerted |-> FALSE]

ResetBrute_mut(t) ==
    IF Within(t.window_start, BRUTE_FORCE_WINDOW) THEN t
    ELSE [t EXCEPT !.window_start = now, !.failed_attempts = 0]
ResetBrute(t) ==
    IF Within(t.window_start, BRUTE_FORCE_WINDOW) THEN t
    ELSE NewBrute

DetectBruteForce(table, l, f, mem) ==
    LET key == <<f.dst, f.dst_port>>
        t0 == Tracker(table, key, NewBrute, mem)
        t1 == [ResetBrute(t0) EXCEPT !.failed_attempts = @ + failed[f]]
        alert == t1.failed_attempts >= BRUTE_FORCE_THRESHOLD /\ ~t1.alerted
    IN  IF f.alproto # "HTTP" \/ failed[f] = 0 \/ t0 = NoTracker
        THEN [table |-> table, alerts |-> << >>]
        ELSE [table |-> [table EXCEPT ![key] = [t1 EXCEPT !.alerted = @ \/ alert]],
              alerts |-> IF alert THEN <<Alert(l, 9001, key, t1.window_start)>> ELSE << >>]

\* The distinct failed logins that the windows of the trackers have seen, when
\* a packet of f takes the table from old to new.
LoginsSeen(seen, old, new, f) ==
    [k \in Targets |->
        IF new[k] = NoTracker THEN {}
        ELSE IF f.alproto # "HTTP" \/ failed[f] = 0 \/ k # <<f.dst, f.dst_port>> THEN seen[k]
        ELSE (IF old[k] # NoTracker /\ now - old[k].window_start <= BRUTE_FORCE_WINDOW
              THEN seen[k] ELSE {}) \cup {<<f, i>> : i \in 1 .. failed[f]}]

\* detect_data_exfiltration
NewExfil == [window_start |-> now, bytes |-> 0, off_hours |-> off_hours_now, alerted |-> FALSE]

Suspicious(t, dst) ==
    \/ t.bytes >= DATA_EXFIL_THRESHOLD /\ dst \in External
    \/ t.off_hours /\ t.bytes >= DATA_EXFIL_THRESHOLD \div 10

UpdateExfil(t0, len) ==
    LET t == IF Within(t0.window_start, DATA_EXFIL_WINDOW) THEN t0 ELSE NewExfil
    IN  [t EXCEPT !.bytes = @ + len, !.off_hours = @ \/ off_hours_now]

DetectExfiltration(table, l, f, len, mem) ==
    LET key == <<f.src, f.dst>>
        t0 == Tracker(table, key, NewExfil, mem)
        t == UpdateExfil(t0, len)
        alert == Suspicious(t, f.dst) /\ ~t.alerted
    IN  IF len = 0 \/ t0 = NoTracker THEN [table |-> table, alerts |-> << >>]
        ELSE [table |-> [table EXCEPT ![key] = [t EXCEPT !.alerted = @ \/ alert]],
              alerts |-> IF alert THEN <<Alert(l, 9002, key, t.window_start)>> ELSE << >>]

(***************************************************************************)
(* detect_traffic_anomaly.  For HTTP and TLS it only makes a tracker and   *)
(* counts: nothing ever sets the certificate warnings.  A flow of protocol *)
(* DNS is a TCP flow (the bridge detects nothing else), and its tcp_session*)
(* is read as a dns_conn: g is the length of the list found there.         *)
(***************************************************************************)
NewAnomaly == [window_start |-> now, high_freq_queries |-> 0, alerted |-> FALSE]

CountQueries(t0, g) ==
    LET t == IF Within(t0.window_start, ANOMALY_WINDOW) THEN t0 ELSE NewAnomaly
    IN  [t EXCEPT !.high_freq_queries = @ + g]

DetectAnomaly(table, l, f, g, mem) ==
    LET t0 == Tracker(table, f.src, NewAnomaly, mem)
        t == CountQueries(t0, g)
        alert == t.high_freq_queries > DNS_HIGH_FREQ_THRESHOLD /\ ~t.alerted
    IN  IF f.alproto \notin {"HTTP", "TLS", "DNS"} \/ t0 = NoTracker
        THEN [table |-> table, alerts |-> << >>]
        ELSE IF f.alproto # "DNS"
        THEN [table |-> [table EXCEPT ![f.src] = t0], alerts |-> << >>]
        ELSE [table |-> [table EXCEPT ![f.src] = [t EXCEPT !.alerted = @ \/ alert]],
              alerts |-> IF alert THEN <<Alert(l, 9004, f.src, t.window_start)>> ELSE << >>]

-----------------------------------------------------------------------------
(***************************************************************************)
(* behavioral_detector_inspect_packet on lcore l.  The counter is static,  *)
(* so all lcores share it, but only the tables of the lcore that reaches   *)
(* the period are aged.                                                    *)
(***************************************************************************)
InspectPacket(l, f, syn, len, g, mem) ==
    LET due == packet_count + 1 = AgePeriod
        s == DetectPortScan(IF due THEN Aged(scan[l], "last_seen", SCAN_AGE) ELSE scan[l],
                            l, f, syn, "scan" \in mem)
        bt == IF due THEN Aged(brute[l], "window_start", BRUTE_AGE) ELSE brute[l]
        b == DetectBruteForce(bt, l, f, "brute" \in mem)
        x == DetectExfiltration(IF due THEN Aged(exfil[l], "window_start", EXFIL_AGE) ELSE exfil[l],
                                l, f, len, "exfil" \in mem)
        a == DetectAnomaly(IF due THEN Aged(anomaly[l], "window_start", ANOMALY_AGE) ELSE anomaly[l],
                           l, f, g, "anomaly" \in mem)
    IN  /\ packets < MaxPackets
        /\ f.alproto # "DNS" => g = 0
        /\ packets' = packets + 1
        /\ packet_count' = (packet_count + 1) % AgePeriod
        /\ scan' = [scan EXCEPT ![l] = s.table]
        /\ brute' = [brute EXCEPT ![l] = b.table]
        /\ exfil' = [exfil EXCEPT ![l] = x.table]
        /\ anomaly' = [anomaly EXCEPT ![l] = a.table]
        /\ raised' = raised \o s.alerts \o b.alerts \o x.alerts \o a.alerts
        /\ logins' = [logins EXCEPT ![l] = LoginsSeen(@, bt, b.table, f)]
        /\ UNCHANGED <<active, now, off_hours_now, failed>>

Allocs == {"scan", "brute", "exfil", "anomaly"}
Packet(l) ==
    \E f \in active, g \in Garbage \cup {0}, mem \in {Allocs, {}} :
        \E p \in f.sends : InspectPacket(l, f, p.syn, p.len, g, mem)

\* one more transaction of the flow is answered with 401 or 403
LoginFails(f) ==
    /\ f \in active /\ f.alproto = "HTTP" /\ failed[f] < MaxFailed
    /\ failed' = [failed EXCEPT ![f] = @ + 1]
    /\ UNCHANGED <<active, now, off_hours_now, packet_count, packets, tables, raised, logins>>

Tick ==
    /\ now < MaxTime
    /\ now' = now + 1
    /\ off_hours_now' \in BOOLEAN
    /\ UNCHANGED <<active, failed, packet_count, packets, tables, raised, logins>>

Next ==
    \/ \E l \in Lcores : Packet(l)
    \/ \E f \in Flows : LoginFails(f)
    \/ Tick

Spec == Init /\ [][Next]_vars

-----------------------------------------------------------------------------
(***************************************************************************)
(* Properties                                                              *)
(***************************************************************************)

\* the tables hold trackers whose times are not in the future
TypeOK ==
    \A l \in Lcores :
        /\ \A k \in Sources : scan[l][k] # NoTracker =>
             /\ scan[l][k].first_seen \in 0 .. now /\ scan[l][k].last_seen \in 0 .. now
             /\ Cardinality(scan[l][k].ports) <= MAX_TRACKED_PORTS
        /\ \A k \in Targets : brute[l][k] # NoTracker => brute[l][k].window_start \in 0 .. now
        /\ \A k \in Pairs : exfil[l][k] # NoTracker => exfil[l][k].window_start \in 0 .. now
        /\ \A k \in Sources : anomaly[l][k] # NoTracker => anomaly[l][k].window_start \in 0 .. now
        /\ packet_count \in 0 .. AgePeriod - 1

\* an alert was raised for the window that starts at start
WasReported(l, rule, key, start) ==
    \E i \in DOMAIN raised :
        raised[i].lcore = l /\ raised[i].rule = rule /\ raised[i].key = key
            /\ raised[i].start = start

\* a source was reported for the ports of its window exactly when these
\* reach the threshold: no scan is missed, none is invented
ScanReported ==
    \A l \in Lcores, k \in Sources : scan[l][k] # NoTracker =>
        (WasReported(l, 9000, k, scan[l][k].first_seen)
            <=> Cardinality(scan[l][k].ports) >= PORT_SCAN_THRESHOLD)

\* a target against which the threshold of failed logins was reached in one
\* window was reported in it.  Not the reverse: detect_brute_force walks the
\* whole list of transactions with each packet, so failed_attempts ("Failed
\* authentication count", behavioral_detector.h:70) counts a failed login once
\* for each packet after it, and fewer logins than the threshold may raise
\* the alert.
BruteForceReported ==
    \A l \in Lcores, k \in Targets : brute[l][k] # NoTracker =>
        (Cardinality(logins[l][k]) >= BRUTE_FORCE_THRESHOLD
            => WasReported(l, 9001, k, brute[l][k].window_start))

\* a transfer that is suspicious, by its size or by its hour, was reported,
\* and no other was
ExfiltrationReported ==
    \A l \in Lcores, k \in Pairs : exfil[l][k] # NoTracker =>
        (WasReported(l, 9002, k, exfil[l][k].window_start) <=> Suspicious(exfil[l][k], k[2]))

\* scans and transfers are reported in their window exactly when they are
\* suspicious and no brute force attack is missed, whatever windows end,
\* trackers age out or allocations fail in between
SuspectsReported == TypeOK /\ ScanReported /\ BruteForceReported /\ ExfiltrationReported

Window(rule) ==
    CASE rule = 9000 -> PORT_SCAN_WINDOW
      [] rule = 9001 -> BRUTE_FORCE_WINDOW
      [] rule = 9002 -> DATA_EXFIL_WINDOW
      [] OTHER -> ANOMALY_WINDOW

\* every alert falls in the window of the tracker that raised it, and one
\* detector reports one subject at most once in a window, also when the
\* tracker aged out and was made again
OneAlertPerWindow ==
    /\ \A i \in DOMAIN raised :
          raised[i].time - raised[i].start \in 0 .. Window(raised[i].rule)
    /\ \A i, j \in DOMAIN raised :
          LET a == raised[i]
              b == raised[j]
          IN  i < j /\ a.lcore = b.lcore /\ a.rule = b.rule /\ a.key = b.key
                => b.start - a.start > Window(a.rule)
=============================================================================
