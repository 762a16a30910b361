# A TLA+ verification of dpdk-based-nids

This directory models the intrusion-detection sensor under `src/`: the flow
table that all forwarding lcores share, the TCP session and stream reassembly
inside a flow, protocol detection, the parsers, the rule engine and the
behavioral detector behind them, the timer wheel, and the start-up with its
lcores and queues. Each component is a TLA+ module translated from its C files;
TLC checks it on small instances, and TLAPS proves the most important
properties of the flow table, reassembly, the TCP session, the timer wheel, the
packet bridge with its parsers and alerts, the behavioral detector, the DNS
parser and start-up for every value of the constants.

## 1. The system

| Component | Files | State | Operations |
|---|---|---|---|
| Start-up | `main.c`, `pidfile.c` | pid file, initialised modules | single-instance check, initialise in order, start ports, launch lcores, clean up |
| Receive loop | `netif.c` | lcore and queue tables, roles, isolated-receive rings, `last_cleanup_ts` per lcore | check the configuration, receive a burst, process each packet, clean the flow table every 10 s |
| Job scheduler | `scheduler.c` | jobs by role | register, run the loop of a role |
| Packet decoding | `packet_decode.c` | none | headers to `packet_info_t` |
| Packet bridge | `suricata_bridge.c` | per-lcore detection contexts, global counters | `process_packet`: decode, flow, detect, parse, inspect, release, statistics |
| Flow table | `flow.c` | bucket lists with a lock each, flows with lock, `use_cnt`, timestamps, timeout; unlocked counters | `flow_get`, `flow_update`, `flow_release`, `flow_cleanup_expired` |
| TCP session | `flow.c` | `tcp->state`, two stream buffers | the state machine in `flow_update`, initialisation and feeding of the buffers |
| Stream reassembly | `stream_reassemble.c` | contiguous data, `base_seq`, `next_seq`, sorted list of out-of-order segments | init, insert, overlap handling, merge, process, consume, free |
| Protocol detection | `proto_*.c` | registered patterns and probers | match, probe, guess by port |
| Parsers | `http_parser.c`, `tls_parser.c`, `dns_parser.c` | transactions, handshake, warnings | parse, free |
| Rule engine | `rule_engine.c` | rules, alerts, counters | load rules, inspect HTTP, DNS, TLS, create alerts |
| Behavioral detector | `behavioral_detector.c` | trackers of scans, brute force, exfiltration, anomalies | inspect, age |
| Timer wheel | `timer.c` | two levels of slots, cursors | schedule, cancel, reset, update, tick |
| Configuration, output, helpers | `cfgfile.c`, `parser.c`, `output_json.c`, `common.c`, `list.h` | none of interest | text and file I/O |

How they interact. `main` checks the pid file, initialises the modules, starts
the ports and sends every lcore into the job loop of its role. A forwarding
lcore runs `lcore_job_recv_fwd`: it polls its queues and calls `process_packet`
on each packet, which decodes it, takes a reference to a flow (`flow_get`),
updates it under the flow's lock (state machine, reassembly), and then, without
that lock, detects the protocol, has the reassembled data parsed, has the
transaction that is open inspected by the lcore's rule engine, shows the packet
to the behavioral detector, and gives the reference back. The same lcore sweeps
the whole table every ten seconds. The flow table, the counters and the global
timer wheel are shared by all lcores; rule engines, detectors and per-lcore
wheels are not.

What is hard here: lcores interleave inside `flow_get`, `flow_release` and the
cleanup, under two kinds of locks that do not exclude each other; packets are
retransmitted, reordered, overlap and end anywhere in a message; reassembled
data is parsed again with every packet; sequence numbers, ages and lengths wrap;
tables, buffers, queues and lists of alerts are bounded; allocations fail
halfway; instances are started twice, killed, and fail between two steps of
start-up; timers are scheduled from handlers in the middle of a tick.
`PROJECT.json` lists these hazards with their lines.

What makes the components correct:

- flow table: lists link exactly the allocated flows, one flow per tuple, no
  flow is freed while it is held, references do not leak, the limit holds, the
  table drains;
- reassembly: every byte is kept at its position, limits hold, sequence numbers
  are consistent, nothing deliverable waits, nothing accepted is lost or late,
  every call ends;
- TCP session: the state only moves forward, the timeout fits the state, no
  data before the connection is established, buffers are owned by their flow;
- detection and HTTP, TLS parsing: the parser fits the protocol, transactions
  and counters agree, what is done is not changed, warnings have a cause;
- DNS parsing: it stays in its payload, ends, reads names as they are spelled
  and loses no memory;
- rules and alerts: everything complete is inspected, the newest alerts are
  kept;
- behavioral detector: no suspect goes unreported, none is reported twice in a
  window;
- timers: a timer fires exactly its delay after it was scheduled;
- start-up: the pid file names the instance that runs, that of a dead one stops
  nobody, every queue has one owner, the packets of a polled queue are taken and
  every mbuf is given back.

## 2. Modules

| Module | Models |
|---|---|
| `FlowTable` | `flow.c` table operations as run by `lcore_job_recv_fwd` and `process_packet` |
| `FlowTableAffine` | the same under the assumption that RSS pins each flow to one lcore, with the inductive invariant |
| `FlowTableProofs` | theorems about `FlowTableAffine`, for any lcores, and more for a single one |
| `StreamBuffer` | `stream_reassemble.c`, one direction of a connection |
| `StreamBufferProofs` | theorems about `StreamBuffer` |
| `TcpFlow` | a TCP flow: `flow_update` composed with two `StreamBuffer` instances |
| `TcpFlowProofs` | theorems about `TcpFlow`, from those about its buffers |
| `TimerAbs` | what `timer.h` promises |
| `TimerWheel` | `timer.c`, and its refinement of `TimerAbs` |
| `TimerWheelProofs` | theorems about `TimerWheel`, the refinement included |
| `ProtoDetect` | `proto_detect.c` with the detectors of `proto_http.c`, `proto_tls.c`, `proto_dns.c` |
| `HttpParser`, `TlsParser` | `http_parser.c`, `tls_parser.c`: operators on a connection |
| `RuleEngine` | `rule_engine.c`: operators on an engine |
| `Bridge` | `process_packet` after `flow_update`, for TCP: composes the four modules above |
| `BridgeProofs` | theorems about `Bridge`, `HttpParser`, `TlsParser` and `RuleEngine` |
| `BehavioralDetector` | `behavioral_detector.c` |
| `BehavioralProofs` | theorems about `BehavioralDetector` |
| `PacketDecode` | `packet_decode.c` as an operator |
| `DnsParser` | `dns_parser.c` between `PacketDecode` and `RuleEngine` |
| `DnsProofs` | theorems about `DnsParser` and `PacketDecode` |
| `Netif` | how `netif.c` turns the configuration into queues, roles and the RSS table |
| `System` | `main.c`, `pidfile.c`, the loops of `scheduler.c` and the receive jobs of `netif.c` |
| `SystemProofs` | theorems about `System` and `Netif` |
| `MC...` | instances for TLC |

Operators whose names end in `_mut` (or `_mut1`, `_mut2`, `_again`) are the
definition that follows them with a plausible slip; they are used only to
confirm that the properties notice it.

### FlowTable

Each lcore is a process with a program counter `pc`, and locals `pkt`, `cur`,
`tmp`, `now`, `todo`, `bkt`, `lastClean`. A step is what other lcores cannot
interrupt: taking a lock, a load, a store. `use_cnt++` (under the bucket
lock) and `use_cnt--` (under the flow lock) are a load and a store each, since
the two locks do not exclude each other; `flows_active` likewise. The age in
the cleanup is computed modulo `AgeMod` (2^32 in the code), `use_cnt` is
modulo `UseMod` (2^16). `GetFull` and `GetNoMemory` are the two ways
`flow_get` returns NULL. `CleanAge` and the decision after it are two steps:
the code reads `last_ts` and `use_cnt` without the flow's lock.

A tuple is a key; `Peer` gives the key of the other direction; `Hash` stands
for the CRC, which in the code differs for the two directions. The list of a
bucket is a set. The contents of a flow other than count, timestamp and timeout
are left to `TcpFlow`: `FlowUpdate` here sets the timestamp and may raise the
timeout.

### StreamBuffer

The record `sb` is the `stream_buffer_t` and the locals of the call in
progress. All calls are made under the flow's lock, so a call is a sequence of
steps between two states with `phase = "idle"`: `"overlap"`
(`handle_queue_overlaps`), `"merge"` (`try_merge_segments`), `"process"`
(`process_segment_queue`). A byte is the sequence number it was sent under,
so `DataMatchesStream` compares where a byte is with where it belongs. Sequence
numbers are modulo `SeqSpace`, lengths of merged segments modulo `LenMod`.
`accepted` is a history variable. Failing allocations are alternatives of
`InsertRefused` and `MergeSkip`. `stream_buffer_init` starts a buffer at the
sequence number it is given.

Left out: the counters, the branches of `OS_POLICY_BSD` and `OS_POLICY_FIRST`
(no caller passes them), and the exit for an exact duplicate in
`insert_segment_queue`, which `QueueOrdered` shows to be unreachable under the
modelled policy.

### TcpFlow

`FirstPacket` is the creation in `flow_get` with every outcome of its
allocations (`got`), followed by `flow_update`; `LaterPacket` is
`get_packet_direction` and `flow_update`; `Transition` is the switch over
`tcp->state`; `Reassemble` the buffers' initialisation, which may fail, and the
insertion. `InsertionStep` lets the loops of the inserted segment run before
the next packet (the flow is locked). Packets of both hosts arrive in any order
and any number of times. The byte and packet counters are left out.

### TimerWheel

`cursors`, `level`, `hash` and `left` are the wheel; `phase` and `carry`
the progress of `rte_timer_tick_cb`, `running` the timer whose handler has not
returned. The interface is called between ticks, or by a running handler. The
refinement mapping reads the ticks a timer has left off its slot (`Remaining`).
Callers schedule only timers that are not pending (the code warns and corrupts
its list otherwise) and a handler leaves no periodic timer of its own pending.
An absolute timer whose time is over runs its handler at once and does not touch
the wheel.

### Bridge, with ProtoDetect, HttpParser, TlsParser and RuleEngine

A packet takes three steps: `Receive` (`flow_update` and the read of
`alproto`), `SetProto` (detection and its attempts) and `Inspect` (the rest of
`process_packet`, with the protocol read again). The stream of a direction is a
sequence of units, HTTP lines or TLS records, and a buffer is the units that are
complete and whether a part of the next follows: packets end anywhere. Since
nothing consumes the buffers, `HttpParse` and `TlsParse` get the whole buffer
with each packet, as in the code.

An HTTP line says what each line parser of the code makes of it, so a request
line read as a header, which happens when the headers of a request come in two
packets, is an error as in the code. A text is the set of the rules' conditions
it meets. `Allocs` and `Allocations` name the allocations; one of them may fail
with each packet, with the consequence the code gives it. An alert that cannot
be allocated changes nothing and is left out. The behavioral detector appears as
alerts it may raise (`Behaves`). JSON output is the success of opening its file.

`ProtoDetect` keeps the order of the code: patterns, then the probers, last
registered first, then the ports. The two probers read real bytes.

### BehavioralDetector

A hash table is a function from keys to trackers. Each detector is an operator
from a table to a table and the alerts raised; `InspectPacket` runs all four
after the aging that the shared packet counter triggers. Time is `time(NULL)`
in units of the windows. The transactions of a flow with a failed login are
counted again with each packet, as in the code (`failed[f]` at a time). A flow
of protocol DNS is a TCP flow whose session the code reads as a `dns_conn_t`:
the length of the list found there is any of `Garbage`. `raised` and `logins`,
the distinct failed logins of a window, are history variables.

### DnsParser and PacketDecode

`Receive` decodes a frame; `ParseHeader` to `Finish` are `dns_parser_parse`,
`ReadName` is one round of the loop in `parse_dns_name`, `Inspect` is the call
of the rule engine, `Free` is `dns_parser_free`. A cell of the payload is a
byte; sizes, limits and the code of a pointer are parameters, so that all short
payloads can be enumerated. `live` counts allocated blocks; what
`free_transaction` gives back is computed as the code does, by the type of a
record, and compared with what is held (`NoLeak`). The module starts from a flow
whose protocol is DNS and an lcore that has a rule engine. Left out: the entropy
mark, the counters by record type, `dns_find_transaction` and the length prefix
of DNS over TCP, which no caller asks for.

`DecodePacket` computes with lengths modulo `LenMod`, so a header length beyond
the frame wraps as in the code; a flag is set where the code sets it, also on
the paths that then end in an error.

### System and Netif

`Netif` is the pure part: `config_lcores`, `check_lcore_conf`,
`lcore_index_init`, `lcore_role_init`, `build_lcore_index`,
`get_configured_rss_queues`. Three habits of the code are kept. Every loop over
`lcore_conf` ends at the first lcore without port (`Used`), while isolated
queues are registered for all workers (`IsolRequests`). `check_lcore_conf` looks
at as many lcores as are enabled (`Checked`), but counts the queues of all. An
lcore may get a role as long as its role is idle (`RolesAsserted`), so a worker
without type leaves its lcore to a later one.

`System` has one program counter for each instance of the program: `ReadPid`,
`Probe` and `Unlink` are the three steps of `netdefender_running`, `InitModule`
any of the initialisations (the list of `main.c` has more stages; what differs
between them is `NetifInit`), `StartPorts`, `Launch`, `WritePid`, and `CleanUp`
after a pid file that could not be written. Every step may fail where the code's
may; `Kill` ends an instance whose lcores run. `isol` is `isol_rxq_tab`: any of
the requests may fail, the queue is then received locally. A port may start
without coming up, or without its RSS table being updated (`started` without
`reta`): packets then arrive by the card's own table, on all receive queues of
the port, and in either case before any lcore polls. External: the EAL lets one
primary process run; the kernel takes back what a process held, but not its pid
file. The lcores of the running instance poll the queues (`RecvFwd`,
`RecvOnIsolLcore`), one poll a step. `unlinked` is a history variable.

## 3. Runs

| Run | Instance | Checks |
|---|---|---|
| `flow_single` | one lcore, 2 buckets, 4 tuples (one connection with a hash collision, one without), limit 2 | `LimitKept` |
| `flow_multi` | two lcores with flows of their own in one shared bucket | `TableSound`, `HeldFlowIsLive`, `NoLeakedReference`, `TableDrains` under all interleavings |
| `stream_overlap` | stream of 7 bytes cut anywhere into 1..3 bytes, ISN 13 of 16 so that it wraps, buffer of 6, queue of 4, merged lengths truncated at 4, consumption | `BufferSound`, `DataMatchesStream`, `QueueOrdered`, `NothingDeliverable`, `LoopsTerminate` |
| `stream_fixed` | stream of 10 bytes always cut at the same places, in any order, wrapping, a buffer that holds it, queue of 3, consumption | `NoDataLoss`, `PrefixDelivered` |
| `tcp_flow` | a handshake, data in both directions, FIN and RST, in any order | `SessionSound`, `OnlyForward` |
| `timer_wheel` | two timers, levels of 3 slots, delays of 0, 3, 8 and too many ticks, handlers that ask for 1 or 2 | `WheelSound`, `AbsSpec` (refinement of `TimerAbs`), `TickReturns` |
| `inspect` | a web flow, or a TLS flow after a request; 5 packets, one failing allocation, buffers of 3 units, 2 alerts kept | `FlowSound`, `HttpSound`, `EveryRequestInspected`, `AlertsKept`, `WarningsJustified`, `DoneFrozen` |
| `behavior` | two lcores; a scan of 3 ports, a login, an upload, a flow taken for DNS; 4 packets in 3 units of time, windows of 1 | `SuspectsReported`, `OneAlertPerWindow` |
| `dns` | all queries of up to 4 cells, all responses of up to 3, chosen longer ones, frames of every kind cut at every header; 2 packets, one failing allocation | `ParserInBounds`, `NameFaithful`, `DnsAccounted`, `NamesReported`, `Terminates` |
| `system` | 3 processes, one port, 3 lcores, assignments of 2 queues to 2 workers, and configurations with kni workers, isolated queues, unknown ports, workers without type or port | `PidFileNamesRunner`, `LcoresSound`, `MbufsConserved`, `PacketsTaken`, `StaleFileStopsNobody` |
| `tcp_first_byte` | handshake and data | violated: the buffer waits for the sequence number of the SYN, so no data is in order |
| `http_rules` | as `inspect`, without failing allocations | violated: a transaction without URI matches every HTTP rule |

Each violated run states what a comment of the repository says; `findings` in
`PROJECT.json` quotes it.

Some properties say less than one would like, since the code holds no more:

- `LimitKept` is checked on one lcore;
- `NoDataLoss` and `PrefixDelivered` are about a stream cut at fixed places that
  fits the buffer;
- `SuspectsReported` asks for brute force only that none is missed: the code
  counts one failed login several times, so the reverse is false;
- `ParserInBounds` speaks of the payload that `decode_packet` hands on and of
  names that are accepted. The reads of `decode_packet` itself, and the label
  that is written before the length of a name is checked, leave their bounds
  (section 5);
- `NamesReported` and `WarningsJustified` do not forbid a repeated alert or a
  missed warning;
- `PidFileNamesRunner` does not speak of an instance whose pid file another one
  removed between its look and its `unlink`;
- `StaleFileStopsNobody` says that an instance which starts while no other is
  alive gets past the check, or another is started meanwhile;
- `PacketsTaken` is about queues of forwarding workers and isolated queues: that
  of a kni worker is polled by nobody;
- `EveryRequestInspected` excepts what an lcore without rule engine handled.

Five hazards of `PROJECT.json` have no property for this reason: the code does
what the property would forbid, and section 5 says how.

Bounds. In `FlowTable` the clock stops at `MaxClock` and packets stop at
`PacketHorizon`; the difference leaves room for `TimeoutEst` and a sweep, so
the drain is inside the bound. `PacketHorizon` of 2 seconds with timeouts of 1
and 2 lets flows expire, be refreshed and be looked up again while they are
swept. Two lcores suffice for the races of the two locks; the theorem covers
any number. In `StreamBuffer` the stream is shorter than half the sequence
space, as a TCP window is; of the theorems only `StreamQueueOrdered`,
`StreamNoDataLoss` and `StreamPrefixDelivered` need that. In `TimerWheel` levels
of three slots make both levels wrap many times. In `Bridge` five packets carry
a request, its response and a repetition, more lines than a buffer holds, and
more alerts than are kept. In `BehavioralDetector` the time is three windows
long, with ages of one and two, so a tracker can be reset, age out and be made
again; the packet counter comes round every second packet, for one lcore or the
other. In `DnsParser` four cells hold a header, a pointer and what it points
at, in every combination; the longer payloads have pointers to pointers, names
at the length limit and more records than are kept. In `System` three processes
are one that crashed, one that looks at its pid file and one that starts
meanwhile; two packets reach a burst and a full ring.

Fairness. `FlowTable`: lcores poll for ever and time passes (weak fairness of
every lcore's step and of the clock); nothing makes packets arrive. After the
horizon the clock waits for packets in process. `StreamBuffer`: a call runs to
its end (`LoopSpec`); no segment has to arrive, since a sensor sees no
retransmission of what the receiver has acknowledged. `TimerWheel`: the tick is driven by every lcore's loop, and
handlers return. `DnsParser`: a call to `process_packet` goes on (weak fairness
of its steps); no packet has to arrive. `System`: `main` of a started process
goes on, and a queue that has packets and that a running loop polls is polled
some time, since each pass polls all queues of the lcore; nothing makes an
instance start or a packet arrive.

Deadlock is checked in the runs of the first six modules. `inspect`,
`behavior`, `dns` and `system` bound the packets, the time or the instances, so
their behaviours come to an end (`CHECK_DEADLOCK FALSE`); `Terminates`,
`PacketsTaken` and `StaleFileStopsNobody` show that nothing stops halfway.

## 4. Proofs

Every theorem holds for every value of the constants that satisfies the named
assumptions of the modules; TLC evaluates these on the instances of section 3.
What a theorem assumes beyond them is part of its statement.

`FlowTableProofs`. For any sets of lcores, tuples and flows and any number of
buckets, limits and timeouts:

- `FlowTableInvariant`: `Spec => []IInv`;
- from it `FlowTableType` (`TypeOK`), `FlowTableHeldFlowIsLive`
  (`HeldFlowIsLive`), `FlowTableNoLeak` (`NoLeakedReference`) and
  `FlowTableStructure` (`TableSound`).

The assumption is `RxAffinity`: no two lcores receive packets that the lookup
assigns to one flow. It is what RSS on a single port gives, and it is needed
(section 5). `HeldFlowIsLive` alone is not inductive: that cleanup spares a held
flow follows from the count being exactly 1 while it is held, which needs that
the value loaded before an increment or a decrement is still the one in memory,
which needs that no other lcore touches this flow (affinity, and one flow per
tuple), which needs the bucket locks. All of it is in `LcoreInv`.

For a sensor with one forwarding lcore (`Lcores = {l}`) there is also
`FlowTableLimit` (`LimitKept`). With two lcores it is false (section 5).
`Counted` relates `flows_active` to the size of the table in the middle of an
insertion or removal; it uses that the 32-bit limit is below the range of the
64-bit counter (`MaxFlows < ActiveMod`).

`StreamBufferProofs`. For any sequence space, limits, ISNs and segments:

- `StreamInvariant`: `Spec => []IInv`;
- `StreamType`, `StreamSeqConsistent`, `StreamBounds`, together `StreamSound`
  (`BufferSound`), and `StreamDataMatches` (`DataMatchesStream`);
- `StreamNothingDeliverable` (`NothingDeliverable`);
- `StreamDuplicateGone` (`DuplicateGone`): the duplicate exit of
  `insert_segment_queue` is never taken, as section 2 says;
- `StreamQueueOrdered` (`QueueOrdered`), for a stream of at most `M` bytes with
  `2 * M < SeqSpace` (`Short(M)`): the comparison of wrapping sequence numbers
  is an order only then;
- `StreamNoDataLoss` (`NoDataLoss`) and `StreamPrefixDelivered`
  (`PrefixDelivered`), for such a stream that is also within
  `MaxBuffer` and below `LenMod` (so shorter than 64 KB with the limits of the
  code), and whose segments are equal or disjoint (`Apart`), as in the run
  `stream_fixed`. None of these three can go: section 5 names for each the step
  that loses bytes without it.

`IInv` adds to the properties that there is room for the segment in hand while
overlaps are handled (`RoomForNew`). The core are lemmas on addition modulo
`SeqSpace` and on what cutting, trimming, concatenating and truncating does to a
well-placed segment. Sortedness is not kept by every step: while
`handle_queue_overlaps` walks the list, the entries it has passed and cut may be
behind their successors. `Ordered` therefore says of each phase how far the
queue is sorted, `Span` that offsets from the ISN stay below `M`, and `NoCopy`
that no entry before the walk equals the segment in hand.

That no byte is lost needs more of the queue (`Tidy`, in offsets from the ISN).
Everything in it begins and ends between segments (`Cuts`), so a new segment
meets a queued one whole or not at all. An entry that begins inside an earlier
one also ends inside it (`Nested`); while `handle_queue_overlaps` walks, this is
said of the entries as it will leave them (`After`). `try_merge_segments` leaves
nothing to merge behind it (`MergedBefore`), and an entry behind `next_seq`
is behind it as a whole (`Ahead`). With `Tidy` each step that drops a segment or
a part of one drops what is held elsewhere too (`Redundant`), and the accepted
bytes stay delivered, queued or in hand (`AllHeld`). What is held and not
delivered then begins behind `next_seq`, or `process_segment_queue` has not
returned, which is `PrefixDelivered`.

`TcpFlowProofs`. For any hosts, packets, ISNs, limits and failures of
allocations: `Session` (`SessionSound`) and `Forward` (`OnlyForward`). The first
is inductive together with the soundness of both buffers (`BuffersSound`); that
a buffer is sound after an insertion comes from the lemmas of
`StreamBufferProofs`, instantiated once for each direction, whose assumption
follows from that of `TcpFlow`.

`TimerWheelProofs`. For any number of timers, size of the levels and delays:

- `TimerWheelSound` (`WheelSound`). `WheelInv` adds in which slots timers of
  either level may be in each phase of a tick, where the cursors are after a
  wrap, and that a periodic timer is out of the wheel while its handler runs;
- `TimerWheelImplements`: `Spec => AbsSpec`. Every step of the wheel maps to a
  step of `TimerAbs` or leaves its state alone, the ticks left of a timer being
  computed from its slot, its level and the cursors. It is proved for handlers
  that ask for less than a turn of level 0 (`HandlersShort`; the run has such
  handlers); without that it is false (section 5). `ShortAtWrap` is what this
  adds to the invariant.

`BehavioralProofs`. For any flows, lcores, windows and thresholds: `Reported`
(`SuspectsReported`) and `OneReport` (`OneAlertPerWindow`). A lemma for each detector says what it does to the
tracker of its key: nothing, going on in its window, or starting one when the
last is over (`Alerting`). `OneAlertPerWindow` needs moreover that an alert of
the current window has left its mark in the tracker, or that its tracker was
aged out after the window was over; the ages being at least the windows is part
of `BehavioralAssumption`.

`BridgeProofs`. For any traffic, limits and failures of allocations:
`BridgeFlowSound` (`FlowSound`), `BridgeHttpSound` (`HttpSound`),
`BridgeRequestsInspected` (`EveryRequestInspected`), `BridgeDoneFrozen`
(`DoneFrozen`), `BridgeWarnings` (`WarningsJustified`) and `BridgeAlerts`
(`AlertsKept`, which needs no affinity). The others assume that one lcore receives both directions of a flow
(`Affine`, as in the runs): with two, `alproto` may be set for a flow that has a
parser already. The argument has two parts. `HttpParseOK` says of one call of
`http_parser_parse`, for any buffer, that it leaves a sound connection sound
(`ConnOK`) and that at most the open transaction becomes done, and only if the
connection was waiting for its response (`Parses`); there is a lemma for each
function of the parser, and the loop over the header lines uses the least line
that ends it. `ConnOK` adds to `HttpSound` what the open transaction may be in
each state, and that a message which is not complete has room for a header.
`BridgeInv` adds that the packet of an lcore is of a flow it receives, that the
protocol is still unknown when a detection ends, so that no parser is there yet
(`WorkOK`), and that a transaction whose response is being read was inspected
(`Watched`): a response is never read by the packet that completes the request.

`WarnInv`, for TLS, says that the warnings of a connection have a cause among
the records that have arrived; buffers only grow, so a cause stays. The loop
over the records is a recursive function, which is shown to exist and to keep
that relation up to each record (`LoopExists`, `LoopStays`). `AlertInv` says of
each lcore's engine (`EngineOK`) that `alert_id_counter` is the number of
alerts generated, that the list holds the newest of them, at most `MAX_ALERTS`,
without a gap, and that the counters of the severities add up to all. The sum
is over any finite set of severities (`RuleAssumption`), by lemmas on adding to
one value of a function; an inspection is a recursive function over the rules,
so `EngineOK` is shown for one alert and carried along the list.

`SystemProofs`. For any number of instances, and any configurations, lcores and
ports: `PidFile` (`PidFileNamesRunner`), `Lcores` (`LcoresSound`) and
`MbufsKept` (`MbufsConserved`). `SysInv` says that the holder of the EAL is the
one instance between `rte_eal_init` and its end, and that a pid in the file, or
read from it, is of an instance that wrote it. `ConfInv` says that an instance
beyond `netif_init` has an accepted configuration. That acceptance implies
owners, roles and an index without repetitions is shown by lemmas on
`ConfigLcores`, `CheckLcoreConf`, `LcoreRoleInit` and `BuildLcoreIndex`. Two
steps are not obvious. The check for duplicates covers only the lcores it looks
at, but the check for gaps asks for as many queue ids as all lcores have queues,
and finds them among those looked at: so there are no others (`OneSlot`). And an
lcore with several workers is that of the last one, the others being idle, so
`lcore2index` is right for every worker with a role (`IndexIs`). `MbufInv` says what the pool, the queues
of the ports and the rings may hold and that all mbufs are among them; the sums
are over a finite set of queues (`IsFiniteSet(QueueIds)`, an assumption of
`System`), and what moving a packet does to them is again shown by a least
counterexample.

`DnsProofs`. For any frames, sizes, limits and failures of allocations:

- `DnsInBounds` (`ParserInBounds`). `FrameAssumption` types the fields of a
  frame and says that it has a cell for each byte of its payload; everything in
  the headers and the payload, counts, lengths and pointers included, is
  arbitrary. `DnsInv` adds, for a walk over a
  name, that it goes forward until it follows a pointer, so that what
  `parse_dns_name` reports as consumed is not negative and the caller stays in
  the payload;
- `DnsMemory` (`DnsAccounted`). `Owned` adds to `NoLeak` that a record with a
  name in its data has one of the types for which `free_rrs` frees it. The sums
  over records and transactions are recursive functions; what they do when
  an element is added is proved by induction on the length, as the absence of a
  least counterexample (`LeastNat`, from `WFMin` of the library, which takes no
  operator);
- `DnsNames` (`NameFaithful`). What a payload spells is given by two recursive
  functions, of the place, and of the place and the pointers that may still be
  followed. That they exist is shown row by row (`PlacesExist`, `LabelsExist`).
  `WalkRead` relates each step of the walk to them: what is copied and the rest
  of the name add up to all of it, and until the first pointer the rest ends
  where the name does;
- `DnsMarked` (`SuspectMarked`, a part of `NamesReported`).

Only model-checked:

- all liveness (`TableDrains`, `LoopsTerminate`, `TickReturns`, `Terminates`,
  `PacketsTaken`, `StaleFileStopsNobody`): the prover does not handle fairness;
- `DnsAlerted`, the other part of `NamesReported`: it is false once an engine
  has had more than `MAX_ALERTS` alerts, of which it drops the oldest, and is
  checked where there are fewer.

## 5. Seen while modelling

The following also came out of the models, or of reading the code for them:

Flow table and session

- the two directions of a connection hash to two buckets and become two flows
  (`flow.c:107`), although `flow.h:85` says "represents a bidirectional network
  flow";
- a packet that arrives on another lcore during a sweep makes `last_ts` later
  than `now`: the unsigned age wraps and a fresh flow is removed (`flow.c:638`);
- with the same tuple on two lcores (two ports) the increment and the decrement
  of `use_cnt` lose an update, and a held flow has count 0 (`flow.c:289`);
- two lcores in different buckets pass the check against `max_flows` together
  (`flow.c:307`), and lose updates of `flows_active` (`flow.c:376`, `657`);
- the flow is read after its release for the statistics
  (`suricata_bridge.c:440`), when another lcore's cleanup may have freed it;
- a retransmitted SYN is taken for a simultaneous open (`flow.c:455`): the
  next ACK of the same host establishes the connection, and the to-client buffer
  gets the client's sequence number;
- after a failed `stream_buffer_init` any later packet in that state provides
  the initial sequence number (`flow.c:561`);
- an ACK of the closing side itself is taken for the ACK of its FIN
  (`flow.c:494`).

Reassembly and timers

- an in-order segment that reaches into the head of the queue makes it stale,
  and all of the head is dropped (`stream_reassemble.c:333`, where the comment
  says "should not happen");
- a segment that lies inside a queued one, or starts with it and is shorter,
  meets none of the overlap cases (`stream_reassemble.c:424-518`): the old bytes
  stay although the policy favours new ones, and two entries of the queue
  overlap until the merge or the stale-segment branch removes one;
- the same happens without overlapping segments: when a merged head does not
  fit the buffer, a retransmission of its first part does, is taken as in-order
  data, and the rest of the head is dropped with it (`stream_reassemble.c:333`);
- merging more than 64 KB cuts the segment (`stream_reassemble.c:237`); the
  bytes kept are still the right ones (`DataMatchesStream` holds with
  truncation), the others are lost;
- a handler that schedules a long timer on the tick on which level 0 wraps gets
  it a whole turn early (`timer.c:177`);
- a handler that resets its own periodic timer has it linked twice
  (`timer.c:220`).

Detection and parsing

- the DNS prober is asked before the TLS prober and answers FAILED to anything
  of 12 bytes that is not DNS, and that answer stays: TLS is only found when
  the first payload has 5 to 11 bytes (`proto_detect.c:291-333`);
- in the direction to the client probers and ports look at `src_port` of the
  flow, the client's;
- detection is only tried on TCP packets (`suricata_bridge.c:131`), so the
  DNS branch for UDP is not reached in this version; the DNS detector and the
  statistics read a `tcp_session` as a `dns_conn_t`;
- request headers that arrive in two packets end the parser in the ERROR state,
  since the request line is read as a header; after a response the first request
  is parsed as a new transaction;
- the packet that completes a response closes the transaction before the
  inspection, so a complete transaction is neither inspected nor logged again;
  an open one is inspected, and alerts, with every packet;
- a DNS packet that cannot be parsed has the previous transaction inspected
  again; a name without questions matches every DNS rule;
- `expired_cert` and `self_signed_cert` are never set; a second hello leaks
  the first one (`tls_parser.c:469`);
- the HTTP pattern registered for both directions would be freed twice by
  `proto_detect_cleanup`, which is not called;
- a length in the IP header beyond the end of the frame makes
  `pkt_len - offset` wrap, and the transport header is read past the frame
  (`packet_decode.c:208`); Ethernet padding counts as payload;
- `parse_dns_name` copies a label before it checks the length of the name
  (`dns_parser.c:157`), into buffers of `DNS_MAX_NAME_LEN + 1` bytes
  (`dns_parser.c:217`, `265`, `331`, `341`).

Rules and behaviour

- a rule whose condition could not be allocated matches more; conditions on a
  server name are alternatives while those of the other rules are all needed;
- TLS flows are inspected only on lcores that had an HTTP packet before;
- failed logins are counted again with every packet of the connection
  (`behavioral_detector.c:505`), although `behavioral_detector.h:28` says "Failed
  attempts" and line 70 "Failed authentication count"; the DNS threshold "per minute" is used with a window of 300
  seconds;
- `packet_count` is shared by all lcores without synchronisation
  (`behavioral_detector.c:992`): an lcore that never hits the round number
  never ages its tables, although line 994 says "every 10000 packets";
- `IS_EXTERNAL_IP` compares the bytes of private networks in one byte order only
  (`behavioral_detector.c:31`).

Start-up and queues

- an instance that looks at the pid file of a dead one may remove the file a
  third has written meanwhile (`pidfile.c:46`); a process of another user counts
  as dead;
- when the pid file cannot be written, `main` frees the flow table and the
  modules while the lcores run (`main.c:284`);
- a queue with an isolated lcore is polled by its worker too, and the ring of the
  isolated lcore is never read (`netif.c:856`), although `progress.md:57` lists
  isolated reception as supported;
- the RSS table is filled with transmit queue ids (`netif.c:699`), and a port
  without forwarding worker divides by zero (`netif.c:1221`);
- when the table cannot be updated, which is only a warning (`netif.c:1694`), or
  the link does not come up after the port was started (`netif.c:1674`), the
  card spreads packets over all receive queues, also those of kni and idle
  workers, which nobody polls;
- loops over `lcore_conf` end at the first lcore without port: workers after it
  are ignored, but their isolated queues are not (`netif.c:269`): an isolated
  lcore may poll a queue that is not set up, or one that a worker has;
- an isolated queue of a port that is not found is a null pointer
  (`netif.c:271`).

## 6. Not modelled

Not modelled: JSON output, configuration parsing and the helpers are text
formatting and file I/O without protocol state; `list.h` is vendored. The port
registry, mbuf pools and bonding of `netif.c` are sequences of DPDK calls. The
clean-up functions nobody calls (`rule_engine_free`,
`behavioral_detector_free`, `proto_detect_cleanup`) and statistics are left out.
The flow's data read by the parsers while another lcore writes it needs both
directions in one flow on two lcores, and a byte-level memory; it is listed as a
hazard.
