------------------------------ MODULE TcpFlow ------------------------------
(***************************************************************************)
(* A TCP flow from its creation in flow_get to flow_free: the state        *)
(* machine of flow_update (src/flow.c), the timeout it sets, and the two   *)
(* reassembly buffers it initialises and feeds.  flow_update holds the     *)
(* lock of the flow, so no packet starts before the loops of the last      *)
(* insertion have ended (Unlocked).                                        *)
(*                                                                         *)
(* Packets may arrive in any order and any number of times: the sensor     *)
(* sees what the network carries, retransmissions included.                *)
(***************************************************************************)
EXTENDS Integers, Sequences

CONSTANTS
    SeqSpace, LenMod, MaxBuffer, MaxSegments, MergeAbove,  \* see StreamBuffer
    Hosts,      \* the two ends
    NoHost,     \* no flow
    Packets     \* [from, flags, seq, len]

ASSUME TcpFlowAssumption ==
    /\ SeqSpace \in Nat \ {0} /\ LenMod \in Nat \ {0}
    /\ MaxBuffer \in Nat /\ MaxSegments \in Nat /\ MergeAbove \in Nat
    /\ NoHost \notin Hosts
    /\ \A p \in Packets :
        /\ p.from \in Hosts
        /\ p.flags \subseteq {"SYN", "ACK", "FIN", "RST"}
        /\ p.seq \in 0 .. SeqSpace - 1
        /\ p.len \in Nat

VARIABLES
    initiator,     \* flow->src_addr, src_port: who sent the first packet
    got,           \* what calloc and rte_malloc returned: {"tcp", "ts", "tc"}
    state,         \* tcp->state
    timeout,       \* flow->timeout_policy: "new" or "est"
    toserver_sb, toserver_acc,
    toclient_sb, toclient_acc

buffers == <<toserver_sb, toserver_acc, toclient_sb, toclient_acc>>
vars == <<initiator, got, state, timeout, buffers>>

\* payloads as stream_buffer_insert_segment gets them
Payloads == [off : 0 .. SeqSpace - 1, len : {p.len : p \in Packets} \ {0}]

TS == INSTANCE StreamBuffer WITH sb <- toserver_sb, accepted <- toserver_acc,
          Isns <- 0 .. SeqSpace - 1, Segments <- Payloads, ConsumeLens <- {}
TC == INSTANCE StreamBuffer WITH sb <- toclient_sb, accepted <- toclient_acc,
          Isns <- 0 .. SeqSpace - 1, Segments <- Payloads, ConsumeLens <- {}

Init ==
    /\ initiator = NoHost /\ got = {} /\ state = "NONE" /\ timeout = "new"
    /\ TS!Init /\ TC!Init

Unlocked == toserver_sb.phase = "idle" /\ toclient_sb.phase = "idle"

(***************************************************************************)
(* The switch of flow_update                                               *)
(***************************************************************************)
AfterReset(F, st) == IF "RST" \in F THEN "CLOSED" ELSE st

SynSent(F) == IF "SYN" \in F THEN "SYN_RECV" ELSE AfterReset(F, "SYN_SENT")

FinWait1(F) ==
    IF "FIN" \in F THEN (IF "ACK" \in F THEN "TIME_WAIT" ELSE "CLOSING")
    ELSE IF "ACK" \in F THEN "FIN_WAIT2"
    ELSE AfterReset(F, "FIN_WAIT1")

TimeWait_mut(F) == IF "SYN" \in F THEN "SYN_SENT" ELSE AfterReset(F, "TIME_WAIT")
TimeWait(F) == AfterReset(F, "TIME_WAIT")

Closed(F) == "CLOSED"

Transition(st, F, toserver) ==
    CASE st = "NONE" -> IF "SYN" \in F
                        THEN (IF "ACK" \in F THEN "SYN_RECV" ELSE "SYN_SENT")
                        ELSE AfterReset(F, st)
      [] st = "SYN_SENT" -> SynSent(F)
      [] st = "SYN_RECV" -> IF "ACK" \in F THEN "ESTABLISHED" ELSE AfterReset(F, st)
      [] st = "ESTABLISHED" -> IF "FIN" \in F
                               THEN (IF toserver THEN "FIN_WAIT1" ELSE "CLOSE_WAIT")
                               ELSE AfterReset(F, st)
      [] st = "FIN_WAIT1" -> FinWait1(F)
      [] st = "FIN_WAIT2" -> IF "FIN" \in F THEN "TIME_WAIT" ELSE AfterReset(F, st)
      [] st = "CLOSING" -> IF "ACK" \in F THEN "TIME_WAIT" ELSE AfterReset(F, st)
      [] st = "TIME_WAIT" -> TimeWait(F)
      [] st = "CLOSE_WAIT" -> IF "FIN" \in F THEN "LAST_ACK" ELSE AfterReset(F, st)
      [] st = "LAST_ACK" -> IF "ACK" \in F THEN "CLOSED" ELSE AfterReset(F, st)
      [] st = "CLOSED" -> Closed(F)

\* timeout_est when SYN_RECV becomes ESTABLISHED, and never back
Timeout(st, st2) == IF st = "SYN_RECV" /\ st2 = "ESTABLISHED" THEN "est" ELSE timeout

(***************************************************************************)
(* The rest of flow_update.  stream_buffer_init runs on whatever packet    *)
(* finds the state SYN_SENT (SYN_RECV) and no data in the buffer, and may  *)
(* fail; payload is inserted in state ESTABLISHED only.                    *)
(***************************************************************************)
InitToServer(st, p) ==
    \/ /\ st = "SYN_SENT" /\ "ts" \in got'
       /\ TS!BufferInit(p.seq)
    \/ UNCHANGED <<toserver_sb, toserver_acc>>

InitToClient(st, p) ==
    \/ /\ st = "SYN_RECV" /\ "tc" \in got'
       /\ TC!BufferInit(p.seq)
    \/ UNCHANGED <<toclient_sb, toclient_acc>>

HasPayload_mut(st, p) == p.len > 0 /\ st \in {"SYN_SENT", "SYN_RECV", "ESTABLISHED"}
HasPayload(st, p) == p.len > 0 /\ st = "ESTABLISHED"

\* the payload of p as a segment of the buffer b
PayloadIn(b, p) == [off |-> TS!Sub(p.seq, b.isn), len |-> p.len]

Reassemble(st, p, toserver) ==
    \/ /\ HasPayload(st, p) /\ toserver /\ toserver_sb.init
       /\ TS!InsertSegment(PayloadIn(toserver_sb, p))
       /\ UNCHANGED <<toclient_sb, toclient_acc>>
    \/ /\ HasPayload(st, p) /\ ~ toserver /\ toclient_sb.init
       /\ TC!InsertSegment(PayloadIn(toclient_sb, p))
       /\ UNCHANGED <<toserver_sb, toserver_acc>>
    \/ /\ HasPayload(st, p) => IF toserver THEN ~ toserver_sb.init ELSE ~ toclient_sb.init
       /\ InitToServer(st, p)
       /\ InitToClient(st, p)

\* flow_update for p; toserver is what get_packet_direction says
FlowUpdate(p, toserver) ==
    \/ /\ "tcp" \in got'
       /\ state' = Transition(state, p.flags, toserver)
       /\ timeout' = Timeout(state, state')
       /\ Reassemble(state', p, toserver)
    \/ /\ "tcp" \notin got'
       /\ UNCHANGED <<state, timeout, buffers>>

\* flow_get makes the flow, whatever its allocations return
FirstPacket(p) ==
    /\ initiator = NoHost
    /\ initiator' = p.from
    /\ got' \in {{}, {"tcp"}, {"tcp", "ts"}, {"tcp", "tc"}, {"tcp", "ts", "tc"}}
    /\ FlowUpdate(p, TRUE)

LaterPacket(p) ==
    /\ initiator # NoHost /\ Unlocked
    /\ UNCHANGED <<initiator, got>>
    /\ FlowUpdate(p, p.from = initiator)

\* the loops of the insertion under way
InsertionStep ==
    /\ \/ TS!InsertLoops /\ UNCHANGED <<toclient_sb, toclient_acc>>
       \/ TC!InsertLoops /\ UNCHANGED <<toserver_sb, toserver_acc>>
    /\ UNCHANGED <<initiator, got, state, timeout>>

\* flow_free, from flow_cleanup_expired
FreeBuffers ==
    /\ toserver_sb' = TS!NoBuffer /\ toserver_acc' = {}
    /\ toclient_sb' = TC!NoBuffer /\ toclient_acc' = {}

FlowFree ==
    /\ initiator # NoHost /\ Unlocked
    /\ initiator' = NoHost /\ got' = {} /\ state' = "NONE" /\ timeout' = "new"
    /\ FreeBuffers

Next ==
    \/ \E p \in Packets : FirstPacket(p)
    \/ \E p \in Packets : LaterPacket(p)
    \/ InsertionStep
    \/ FlowFree

Spec == Init /\ [][Next]_vars

-----------------------------------------------------------------------------
(***************************************************************************)
(* Properties                                                              *)
(***************************************************************************)
HalfOpen == {"NONE", "SYN_SENT", "SYN_RECV"}
Closing == {"FIN_WAIT1", "FIN_WAIT2", "CLOSING", "TIME_WAIT", "CLOSE_WAIT", "LAST_ACK"}

TypeOK ==
    /\ initiator \in Hosts \cup {NoHost}
    /\ got \subseteq {"tcp", "ts", "tc"}
    /\ state \in HalfOpen \cup {"ESTABLISHED"} \cup Closing \cup {"CLOSED"}
    /\ timeout \in {"new", "est"}
    /\ TS!TypeOK /\ TC!TypeOK

\* A flow whose handshake is not over has the short timeout, and one that is
\* past it and open keeps the long one.
TimeoutMatchesState ==
    /\ state \in HalfOpen => timeout = "new"
    /\ state \in {"ESTABLISHED"} \cup Closing => timeout = "est"

\* The two buffers never hold a byte of a connection that was not
\* established: the insertion looks at the state after the transition.
NoDataBeforeEstablished ==
    (\E b \in {toserver_sb, toclient_sb} : b.data # <<>> \/ b.seg_list # <<>> \/ b.phase # "idle")
        => "ESTABLISHED" = state \/ (state \in Closing \cup {"CLOSED"} /\ timeout = "est")

\* A buffer has memory only while the flow has a session and the buffer's
\* structure, and a free slot has none: nothing flow_free would leak.
BuffersOwned ==
    /\ toserver_sb.init => "ts" \in got /\ initiator # NoHost
    /\ toclient_sb.init => "tc" \in got /\ initiator # NoHost

\* The session agrees with itself: state, timeout, buffers and memory.
SessionSound ==
    TypeOK /\ TimeoutMatchesState /\ NoDataBeforeEstablished /\ BuffersOwned

Rank == [s \in HalfOpen \cup {"ESTABLISHED"} \cup Closing \cup {"CLOSED"} |->
            CASE s = "NONE" -> 0 [] s = "SYN_SENT" -> 1 [] s = "SYN_RECV" -> 2
              [] s = "ESTABLISHED" -> 3 [] s \in {"FIN_WAIT1", "CLOSE_WAIT"} -> 4
              [] s \in {"FIN_WAIT2", "CLOSING", "LAST_ACK"} -> 5 [] s = "TIME_WAIT" -> 6
              [] s = "CLOSED" -> 7]

\* The state machine only moves forward: no packet, whatever its flags,
\* brings a connection back to an earlier stage while the flow lives.
OnlyForward == [][initiator' = NoHost \/ Rank[state'] >= Rank[state]]_vars
=============================================================================
