------------------------------- MODULE System -------------------------------
(***************************************************************************)
(* main (src/main.c) of the instances that are started on one machine, and *)
(* the lcores of the one that gets to run: the pid file, the modules and   *)
(* their order, the ports, and the job loops of scheduler.c with the jobs  *)
(* of netif.c that receive packets.                                        *)
(*                                                                         *)
(* External: rte_eal_init lets one process be the primary one; a killed    *)
(* process frees what it held, but leaves its pid file.                    *)
(***************************************************************************)
EXTENDS Netif

CONSTANTS
    Instances,      \* the processes, each named by its pid
    Configs,        \* configurations: sequences of workers
    QueueIds,
    Modules,        \* what main initialises, in order
    Terms,          \* what it cleans up, in order
    Mbufs,          \* mbufs in the pool
    RingSize, Burst,        \* of an isolated queue, of rte_eth_rx_burst
    MaxArrivals,    \* bound on the packets that arrive
    NoPid

ASSUME SystemAssumption ==
    /\ NoPid \notin Instances /\ IsFiniteSet(QueueIds)
    /\ Mbufs \in Nat /\ RingSize \in Nat /\ Burst \in Nat \ {0}
    /\ Configs \subseteq Seq(WorkerConf)
    /\ Modules \in Seq(STRING) /\ \E i \in DOMAIN Modules : Modules[i] = "netif"

VARIABLES
    workers,     \* the configuration of this behavior
    at,          \* where main of each instance is
    seen,        \* the pid it read from the pid file
    pidfile,
    primary,     \* the instance that holds the EAL
    inited,      \* modules it has initialised,
    started,     \* ports it has started,
    reta,        \* and those of which it has set the RSS table,
    conf,        \* its lcore_conf, up to the first lcore without port,
    isol,        \* isol_rxq_tab: <<c, q>> when lcore c receives for queue q,
    role,        \* the role of each lcore
    looping,     \* and the lcores in their job loop
    nic,         \* packets in each receive queue
    ring,        \* packets in the rings of isolated queues
    pool,        \* free mbufs
    arrivals,
    unlinked     \* a pid file was removed that was not the one looked at

\* what the holder of the EAL has set up
setup == <<inited, started, reta, conf, isol, role, looping>>
proc == <<at, seen, pidfile, primary, setup, unlinked>>
data == <<nic, ring, pool, arrivals>>
vars == <<workers, proc, data>>

Pids == Instances \cup {NoPid}
AllQueues == (0 .. nports - 1) \X QueueIds
\* the queues of the configuration that a port has: the id of a port that was
\* not found is none of a port
Queues == {RxAt(conf, s) : s \in RxSlots(conf)} \cap AllQueues

Alive(p) == p \in Instances /\ at[p] \notin {"off", "gone"}

NoPackets == [q \in AllQueues |-> 0]
NoRings == [r \in Cpus \X AllQueues |-> 0]

Init ==
    /\ workers \in Configs
    /\ at = [p \in Instances |-> "off"] /\ seen = [p \in Instances |-> NoPid]
    /\ pidfile = NoPid /\ primary = NoPid
    /\ inited = << >> /\ started = {} /\ reta = {} /\ conf = << >> /\ isol = {}
    /\ role = [c \in Cpus |-> "idle"] /\ looping = {}
    /\ nic = NoPackets /\ ring = NoRings /\ pool = Mbufs /\ arrivals = 0
    /\ unlinked = FALSE

-----------------------------------------------------------------------------
(***************************************************************************)
(* netdefender_running: the file is read, the process is looked for and    *)
(* the file is removed in three steps that other instances can come        *)
(* between.                                                                *)
(***************************************************************************)
Start(p) ==
    /\ at[p] = "off"
    /\ at' = [at EXCEPT ![p] = "check"]
    /\ UNCHANGED <<workers, seen, pidfile, primary, setup, unlinked, data>>

ReadPid(p) ==
    /\ at[p] = "check"
    /\ seen' = [seen EXCEPT ![p] = pidfile]
    /\ at' = [at EXCEPT ![p] = IF pidfile = NoPid THEN "eal" ELSE "probe"]
    /\ UNCHANGED <<workers, pidfile, primary, setup, unlinked, data>>

\* kill(pid, 0)
Found_mut1(pid) == FALSE
Found_mut2(pid) == pid # NoPid
Found(pid) == Alive(pid)

Probe(p) ==
    /\ at[p] = "probe"
    /\ at' = [at EXCEPT ![p] = IF Found(seen[p]) THEN "gone" ELSE "unlink"]
    /\ UNCHANGED <<workers, seen, pidfile, primary, setup, unlinked, data>>

Unlink(p) ==
    /\ at[p] = "unlink"
    /\ pidfile' = NoPid
    /\ unlinked' = (unlinked \/ pidfile # seen[p])
    /\ at' = [at EXCEPT ![p] = "eal"]
    /\ UNCHANGED <<workers, seen, primary, setup, data>>

-----------------------------------------------------------------------------
\* the end of process p: its threads, its EAL and its packets go with it
Exit(p) ==
    /\ at' = [at EXCEPT ![p] = "gone"]
    /\ IF primary = p
       THEN /\ primary' = NoPid /\ inited' = << >> /\ started' = {} /\ reta' = {}
            /\ looping' = {} /\ conf' = << >> /\ isol' = {} /\ role' = [c \in Cpus |-> "idle"]
            /\ nic' = NoPackets /\ ring' = NoRings /\ pool' = Mbufs
       ELSE UNCHANGED <<primary, setup, nic, ring, pool>>
    /\ UNCHANGED <<workers, seen, pidfile, unlinked, arrivals>>

\* rte_eal_init fails when another process is the primary one, and for
\* reasons of its own
EalInit(p) ==
    /\ at[p] = "eal"
    /\ \/ /\ primary = NoPid
          /\ primary' = p
          /\ at' = [at EXCEPT ![p] = "init"]
          /\ UNCHANGED <<workers, seen, pidfile, setup, unlinked, data>>
       \/ Exit(p)

\* netif_lcore_init exits, or aborts, on a configuration that is no good, and
\* crashes on an isolated queue of an unknown port; isol_rxq_add may fail for
\* any queue, which is then received locally
NetifInit ==
    LET all == ConfigLcores(workers)
    IN  /\ \A r \in IsolRequests(all) : r[2][1] \in 0 .. nports - 1
        /\ isol' \in SUBSET IsolRequests(all)
        /\ conf' = Used(all)
        /\ CheckLcoreConf(conf') /\ LcoreIndexInit(conf') /\ RolesAsserted(conf', isol')
        /\ role' = LcoreRoleInit(conf', isol')

AllInited == Len(inited) = Len(Modules)

\* modules_init and the initialisations that follow it in main: rte_exit
\* when one fails, which happens without terminating the others
InitModule(p) ==
    LET m == Modules[Len(inited) + 1]
    IN  /\ at[p] = "init" /\ ~AllInited
        /\ \/ /\ IF m = "netif" THEN NetifInit ELSE UNCHANGED <<conf, isol, role>>
              /\ inited' = Append(inited, m)
              /\ UNCHANGED <<workers, at, seen, pidfile, primary, started, reta, looping,
                             unlinked, data>>
           \/ Exit(p)

\* netif_port_start of every port: one that fails is skipped, but when its
\* link did not come up it was started before.  Its RSS table is then left
\* alone, as it is, with a warning, when the update fails.  A port with more
\* queues than the card has ends the process, and so does, by a division by
\* zero, the update of a table without RSS queue.
Configured(port) == RxQueuesGet(conf, port) > 0 \/ TxQueuesGet(conf, port) > 0
StartPorts(p) ==
    /\ at[p] = "init" /\ AllInited
    /\ \/ /\ started' \in SUBSET {port \in 0 .. nports - 1 : Configured(port)}
          /\ reta' \in SUBSET {port \in started' : /\ RssConfigured(conf, port)
                                                   /\ RssQueues(conf, port) # {}}
          /\ at' = [at EXCEPT ![p] = "launch"]
          /\ UNCHANGED <<workers, seen, pidfile, primary, inited, conf, isol, role, looping,
                         unlinked, data>>
       \/ /\ \E port \in 0 .. nports - 1 : Configured(port)
          /\ Exit(p)

\* ndf_lcore_start(0): the other lcores enter the loop of their role, unless
\* they are idle
Slaves == {c \in Enabled \ {main_lcore} : role[c] # "idle"}
Launch(p) ==
    /\ at[p] = "launch"
    /\ looping' = Slaves
    /\ at' = [at EXCEPT ![p] = "write"]
    /\ UNCHANGED <<workers, seen, pidfile, primary, inited, started, reta, conf, isol, role,
                   unlinked, data>>

\* pidfile_write; then the master enters its own loop for good
WritePid(p) ==
    /\ at[p] = "write"
    /\ \/ /\ pidfile' = p
          /\ at' = [at EXCEPT ![p] = "normal"]
          /\ looping' = looping \cup {main_lcore}
       \/ /\ at' = [at EXCEPT ![p] = "end"]
          /\ UNCHANGED <<pidfile, looping>>
    /\ UNCHANGED <<workers, seen, primary, inited, started, reta, conf, isol, role, unlinked,
                   data>>

\* flow_cleanup, stream_reassemble_cleanup and modules_term, in this order,
\* while the lcores go on; main then returns
Left == SelectSeq(Terms, LAMBDA m : m \in ToSet(inited))
CleanUp(p) ==
    /\ at[p] = "end"
    /\ IF Left = << >> THEN Exit(p)
       ELSE /\ inited' = SelectSeq(inited, LAMBDA m : m # Head(Left))
            /\ UNCHANGED <<workers, at, seen, pidfile, primary, started, reta, conf, isol, role,
                           looping, unlinked, data>>

\* it is killed, or crashes, while its lcores run
Kill(p) == at[p] \in {"write", "normal", "end"} /\ Exit(p)

-----------------------------------------------------------------------------
(***************************************************************************)
(* The job loops.  A pass of lcore_job_recv_fwd or of recv_on_isol_lcore   *)
(* polls every queue of the lcore; one poll is one step.                   *)
(***************************************************************************)
\* the queues of worker i on ports that exist
QueuesOf(i) == {RxAt(conf, s) : s \in {t \in RxSlots(conf) : t[1] = i}} \cap AllQueues

PolledBy_mut(c) ==
    CASE role[c] = "fwd" ->
           {RxAt(conf, s) : s \in {t \in RxSlots(conf) : t[1] = Lcore2Index(conf, c) /\ t[3] = 1}}
      [] role[c] = "isolrx" -> {r[2] : r \in {x \in isol : x[1] = c}}
      [] OTHER -> {}
PolledBy(c) ==
    CASE role[c] = "fwd" -> QueuesOf(Lcore2Index(conf, c))
      [] role[c] = "isolrx" -> {r[2] : r \in {x \in isol : x[1] = c}}
      [] OTHER -> {}

Taken(q) == IF nic[q] < Burst THEN nic[q] ELSE Burst

\* The network card spreads packets over the queues of the RSS table, which
\* are all receive queues of the port when the table was not set; packets
\* without hash go to queue 0.
TableQueues(port) ==
    IF port \in reta THEN RssQueues(conf, port) ELSE 0 .. RxQueuesGet(conf, port) - 1
Arrive(q) ==
    /\ q[1] \in started /\ q[2] \in TableQueues(q[1]) \cup {0}
    /\ arrivals < MaxArrivals /\ pool > 0
    /\ arrivals' = arrivals + 1
    /\ nic' = [nic EXCEPT ![q] = @ + 1] /\ pool' = pool - 1
    /\ UNCHANGED <<workers, proc, ring>>

\* lcore_job_recv_fwd: process_packet and rte_pktmbuf_free for each packet
RecvFwd(c, q) ==
    /\ c \in looping /\ role[c] = "fwd" /\ nic[q] > 0 /\ q \in PolledBy(c)
    /\ nic' = [nic EXCEPT ![q] = @ - Taken(q)]
    /\ pool' = pool + Taken(q)
    /\ UNCHANGED <<workers, proc, ring, arrivals>>

\* recv_on_isol_lcore: the ring takes the burst or nothing of it
Freed_mut(q) == 0
Freed(q) == Taken(q)
RecvOnIsolLcore(c, q) ==
    /\ c \in looping /\ role[c] = "isolrx" /\ nic[q] > 0 /\ q \in PolledBy(c)
    /\ nic' = [nic EXCEPT ![q] = @ - Taken(q)]
    /\ IF ring[<<c, q>>] + Taken(q) <= RingSize
       THEN ring' = [ring EXCEPT ![<<c, q>>] = @ + Taken(q)] /\ UNCHANGED pool
       ELSE pool' = pool + Freed(q) /\ UNCHANGED ring
    /\ UNCHANGED <<workers, proc, arrivals>>

Main(p) ==
    \/ ReadPid(p) \/ Probe(p) \/ Unlink(p) \/ EalInit(p) \/ InitModule(p)
    \/ StartPorts(p) \/ Launch(p) \/ WritePid(p) \/ CleanUp(p)

Poll(c, q) == RecvFwd(c, q) \/ RecvOnIsolLcore(c, q)

Next ==
    \/ \E p \in Instances : Start(p) \/ Main(p) \/ Kill(p)
    \/ \E q \in Queues : Arrive(q)
    \/ \E c \in looping, q \in Queues : Poll(c, q)

\* a process runs on, and a loop polls all of its queues in every pass
Fairness ==
    /\ \A p \in Instances : WF_vars(Main(p))
    /\ \A q \in AllQueues : WF_vars(nic[q] > 0 /\ q \in Queues /\ \E c \in looping : Poll(c, q))

Spec == Init /\ [][Next]_vars /\ Fairness

-----------------------------------------------------------------------------
(***************************************************************************)
(* Properties                                                              *)
(***************************************************************************)
Total(f) == FoldFunction(+, 0, f)

Launched == primary # NoPid /\ at[primary] \in {"launch", "write", "normal", "end"}

\* each instance is at a place of main; loops run on enabled lcores, and only
\* while an instance holds the EAL
TypeOK ==
    /\ at \in [Instances -> {"off", "check", "probe", "unlink", "eal", "init", "launch",
                             "write", "normal", "end", "gone"}]
    /\ pidfile \in Pids /\ primary \in Pids
    /\ looping \subseteq Enabled
    /\ looping # {} => primary # NoPid

\* the pid file names the instance that runs, unless another instance looked
\* at an older file and removed this one
PidFileNamesRunner ==
    \A p \in Instances : at[p] = "normal" /\ ~unlinked => pidfile = p

\* with a configuration that was accepted, the receive queues of all workers
\* are those that are set up for the port, each of one worker; no two lcores
\* that forward poll the same queue, and each polls what its worker has
QueuesOwned ==
    Launched =>
        /\ \A port \in 0 .. nports - 1 :
              LET n == RxQueuesGet(conf, port)
              IN  /\ \A q \in 0 .. n - 1 :
                        Cardinality({s \in RxSlots(conf) : RxAt(conf, s) = <<port, q>>}) = 1
                  /\ \A s \in RxSlots(conf) :
                        RxAt(conf, s)[1] = port => RxAt(conf, s)[2] \in 0 .. n - 1
        /\ \A c, d \in Cpus : c # d /\ role[c] = "fwd" /\ role[d] = "fwd" =>
              PolledBy(c) \cap PolledBy(d) = {}
        /\ \A i \in DOMAIN conf : conf[i].type = "fwd" => PolledBy(conf[i].cpu) = QueuesOf(i)

\* a worker has the lcore of its own role, no lcore is twice in the index,
\* and "isolate recieving always lays on different lcores from packet
\* processing": an lcore of isol_rxq_tab does nothing else
RolesApart ==
    Launched =>
        LET index == BuildLcoreIndex(role)
        IN  /\ role[main_lcore] = "master"
            /\ \A i, j \in DOMAIN index : index[i] = index[j] => i = j
            /\ \A r \in isol : role[r[1]] = "isolrx"
            /\ \A i \in DOMAIN conf : conf[i].type # "idle" => role[conf[i].cpu] = conf[i].type

\* a configuration that was accepted gives every queue one worker, and the
\* workers and the isolated queues each an lcore of their own
LcoresSound == TypeOK /\ QueuesOwned /\ RolesApart

\* no mbuf is lost on the way: each is free, in a receive queue or in a ring
MbufsConserved == pool + Total(nic) + Total(ring) = Mbufs

\* the queues of a worker that forwards, and those that are isolated
Served(q) ==
    \/ \E s \in RxSlots(conf) : conf[s[1]].type = "fwd" /\ RxAt(conf, s) = q
    \/ \E r \in isol : r[2] = q

\* the packets of such a queue do not stay there, whichever table the card
\* uses, also those that came before the lcores were started
PacketsTaken == \A q \in AllQueues : nic[q] > 0 /\ Served(q) ~> nic[q] = 0

\* an instance that starts when no other is there gets past the pid file of
\* one that crashed, unless another one is started meanwhile
StaleFileStopsNobody ==
    \A p \in Instances :
        LET Others == \E o \in Instances \ {p} : Alive(o)
        IN  at[p] = "check" /\ ~Others ~> at[p] = "eal" \/ Others
=============================================================================
