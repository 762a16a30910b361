-------------------------------- MODULE Netif --------------------------------
(***************************************************************************)
(* How netif.c turns the workers of the configuration file into the queues *)
(* and the role of each lcore, and the RSS table of a port.                *)
(*                                                                         *)
(* A worker is [cpu, type, pqs]; pqs lists, for each of its ports,         *)
(* [id, rxqs, txqs].  A receive queue is [id, isol]: isol is the lcore of  *)
(* isol_rx_cpu_ids that shall receive for it, NoLcore without isolation.   *)
(***************************************************************************)
EXTENDS Integers, SequencesExt

CONSTANTS Cpus, Enabled, main_lcore, nports, NoLcore

ASSUME NetifAssumption ==
    /\ Cpus \subseteq Nat /\ IsFiniteSet(Cpus) /\ main_lcore \in Enabled /\ Enabled \subseteq Cpus
    /\ nports \in Nat \ {0}

\* a worker of the configuration: worker_type_handler leaves it one of three
\* types, or without one ("none"); in lcore_conf it has a role in its place
WorkerTypes == {"none", "master", "slave", "kni", "fwd", "idle"}
PortConf == [id : Nat, rxqs : Seq([id : Nat, isol : Cpus \cup {NoLcore}]), txqs : Seq(Nat)]
WorkerConf == [cpu : Nat, type : WorkerTypes, pqs : Seq(PortConf)]

\* the elements of S, in the order R
InOrder(S, R) ==
    CHOOSE f \in [1 .. Cardinality(S) -> S] :
        \A i, j \in 1 .. Cardinality(S) : i < j => <<f[i], f[j]>> \in R

\* the role of a worker that is not the master
RoleOf(type) ==
    IF type = "slave" THEN "fwd" ELSE IF type = "kni" THEN "kni" ELSE "idle"

\* config_lcores: the workers but the master, by increasing cpu, and in the
\* order of the file where that is the same
NotMaster(workers) == {i \in DOMAIN workers : workers[i].type # "master"}
Before(workers) ==
    {s \in NotMaster(workers) \X NotMaster(workers) :
        \/ workers[s[1]].cpu < workers[s[2]].cpu
        \/ workers[s[1]].cpu = workers[s[2]].cpu /\ s[1] < s[2]}
ConfigLcores(workers) ==
    LET order == InOrder(NotMaster(workers), Before(workers))
    IN  [n \in 1 .. Cardinality(NotMaster(workers)) |->
            [workers[order[n]] EXCEPT !.type = RoleOf(@)]]

\* "while (lcore_conf[i].nports > 0)": every loop over lcore_conf ends at the
\* first lcore without port
Used(conf) ==
    LET portless == {i \in DOMAIN conf : conf[i].pqs = << >>}
    IN  IF portless = {} THEN conf ELSE SubSeq(conf, 1, Min(portless) - 1)

\* where receive and transmit queues appear in the table, and which they are
RxSlots(conf) ==
    UNION {UNION {{<<i, j, k>> : k \in DOMAIN conf[i].pqs[j].rxqs} : j \in DOMAIN conf[i].pqs} :
              i \in DOMAIN conf}
TxSlots(conf) ==
    UNION {UNION {{<<i, j, k>> : k \in DOMAIN conf[i].pqs[j].txqs} : j \in DOMAIN conf[i].pqs} :
              i \in DOMAIN conf}
RxAt(conf, s) == <<conf[s[1]].pqs[s[2]].id, conf[s[1]].pqs[s[2]].rxqs[s[3]].id>>
TxAt(conf, s) == <<conf[s[1]].pqs[s[2]].id, conf[s[1]].pqs[s[2]].txqs[s[3]]>>

\* port_rx_queues_get and port_tx_queues_get
RxQueuesGet(conf, port) == Cardinality({s \in RxSlots(conf) : RxAt(conf, s)[1] = port})
TxQueuesGet(conf, port) == Cardinality({s \in TxSlots(conf) : TxAt(conf, s)[1] = port})

\* get_configured_port_nb
ConfiguredPortNb(conf) ==
    Cardinality(UNION {{conf[i].pqs[j].id : j \in DOMAIN conf[i].pqs} : i \in DOMAIN conf})

\* the queue ids of a port are the first ones: as many as all lcores have
\* queues of the port are looked for among those of conf
Contiguous_mut(conf, all) == TRUE
Contiguous(conf, all) ==
    \A p \in 0 .. nports - 1 :
        /\ \A q \in 0 .. RxQueuesGet(all, p) - 1 :
              \E s \in RxSlots(conf) : RxAt(conf, s) = <<p, q>>
        /\ \A q \in 0 .. TxQueuesGet(all, p) - 1 :
              \E s \in TxSlots(conf) : TxAt(conf, s) = <<p, q>>

\* check_lcore_conf; of all lcores as many as are enabled are looked at
Checked(all) ==
    IF Len(all) > Cardinality(Enabled) THEN SubSeq(all, 1, Cardinality(Enabled)) ELSE all
CheckLcoreConf(all) ==
    LET conf == Checked(all)
    IN  /\ conf # << >>
        /\ \A i \in DOMAIN conf : Len(conf[i].pqs) <= nports
        /\ \A s, t \in RxSlots(conf) : s # t => RxAt(conf, s) # RxAt(conf, t)
        /\ \A s, t \in TxSlots(conf) : s # t => TxAt(conf, s) # TxAt(conf, t)
        /\ Contiguous(conf, all)
        /\ \A i \in DOMAIN conf : /\ Len(conf[i].pqs) = ConfiguredPortNb(conf)
                                  /\ \A j \in DOMAIN conf[i].pqs : conf[i].pqs[j].txqs # << >>

\* lcore_index_init: the last one on an lcore remains in lcore2index
LcoreIndexInit(conf) == \A i \in DOMAIN conf : conf[i].cpu \in Enabled
Lcore2Index(conf, c) == Max({i \in DOMAIN conf : conf[i].cpu = c})

\* what config_lcores asks isol_rxq_add for, also for workers that no loop
\* gets to: <<c, q>> when lcore c shall receive for queue q
IsolRequests(all) ==
    {<<all[s[1]].pqs[s[2]].rxqs[s[3]].isol, RxAt(all, s)>> :
        s \in {t \in RxSlots(all) : all[t[1]].pqs[t[2]].rxqs[t[3]].isol # NoLcore}}

\* the assertions of lcore_role_init: an lcore gets a role while it is idle
RolesAsserted(conf, isol) ==
    /\ \A i \in DOMAIN conf :
          /\ conf[i].cpu # main_lcore
          /\ \A j \in 1 .. i - 1 : conf[j].cpu = conf[i].cpu => conf[j].type = "idle"
    /\ \A r \in isol :
          /\ r[1] \in Enabled \ {main_lcore}
          /\ \A i \in DOMAIN conf : conf[i].cpu = r[1] => conf[i].type = "idle"

LcoreRoleInit(conf, isol) ==
    [c \in Cpus |->
        IF c \notin Enabled THEN "max"
        ELSE IF c = main_lcore THEN "master"
        ELSE IF \E r \in isol : r[1] = c THEN "isolrx"
        ELSE IF \E i \in DOMAIN conf : conf[i].cpu = c THEN conf[Lcore2Index(conf, c)].type
        ELSE "idle"]

\* build_lcore_index: g_lcore_index2id, from 0 on in the code
BuildLcoreIndex(role) ==
    LET Sorted(r) == InOrder({c \in Cpus : role[c] = r}, {s \in Cpus \X Cpus : s[1] < s[2]})
    IN  <<main_lcore>> \o Sorted("fwd") \o Sorted("isolrx")

\* get_configured_rss_queues takes the ids from txqs, as many as there are
\* receive queues; a slot that was not configured holds 0
RssOfWorker(w, port) ==
    LET found == {j \in DOMAIN w.pqs : w.pqs[j].id = port}
        pq == w.pqs[Min(found)]
    IN  IF found = {} THEN {}
        ELSE {IF k \in DOMAIN pq.txqs THEN pq.txqs[k] ELSE 0 : k \in DOMAIN pq.rxqs}

Forwarding(conf) == {w \in ToSet(conf) : w.type = "fwd"}
RssQueues(conf, port) == UNION {RssOfWorker(w, port) : w \in Forwarding(conf)}

\* it fails for a worker without the port; the id after its last port is 0
RssConfigured(conf, port) ==
    port = 0 \/ \A w \in Forwarding(conf) : \E j \in DOMAIN w.pqs : w.pqs[j].id = port
=============================================================================
