--------------------------- MODULE TcpFlowProofs ---------------------------
(***************************************************************************)
(* A TCP session keeps its state, its timeout, its two buffers and its     *)
(* memory in agreement, and its state only moves forward, whatever packets *)
(* arrive: for all packets, hosts and limits.                              *)
(*                                                                         *)
(* The invariant is SessionSound and BuffersSound together.  Neither is    *)
(* inductive alone: that no loop runs on a buffer of a connection that is  *)
(* not established (NoDataBeforeEstablished) needs the timeout of the      *)
(* closed state, and the buffers' invariant needs their types.             *)
(***************************************************************************)
EXTENDS TcpFlow, TLAPS

TSP == INSTANCE StreamBufferProofs WITH sb <- toserver_sb, accepted <- toserver_acc,
           Isns <- 0 .. SeqSpace - 1, Segments <- Payloads, ConsumeLens <- {}
TCP == INSTANCE StreamBufferProofs WITH sb <- toclient_sb, accepted <- toclient_acc,
           Isns <- 0 .. SeqSpace - 1, Segments <- Payloads, ConsumeLens <- {}

\* What StreamBuffer assumes of its constants holds of the ones given here.
LEMMA Parameters ==
  /\ SeqSpace \in Nat \ {0} /\ LenMod \in Nat \ {0}
  /\ MaxBuffer \in Nat /\ MaxSegments \in Nat /\ MergeAbove \in Nat
  /\ 0 .. SeqSpace - 1 \subseteq 0 .. SeqSpace - 1
  /\ \A g \in Payloads : g.off \in Nat /\ g.len \in Nat \ {0}
  /\ {} \subseteq Nat \ {0}
BY TcpFlowAssumption DEF Payloads

\* no data, no segment and no loop under way
Empty(b) == b.data = <<>> /\ b.seg_list = <<>> /\ b.phase = "idle"

-----------------------------------------------------------------------------
(* The buffer of the data to the server: the lemmas of StreamBufferProofs about *)
(* the calls on it.  TSP is the instance that has the lemmas, TS the one    *)
(* the specification uses; their definitions are the same.                   *)

LEMMA ServerSameInv == TSP!IInv <=> TS!IInv
BY DEF TS!IInv, TSP!IInv, TS!TypeOK, TSP!TypeOK, TS!Buffers, TSP!Buffers, TS!Seqs,
       TSP!Seqs, TS!Segs, TSP!Segs, TS!SeqConsistent, TSP!SeqConsistent, TS!Add,
       TSP!Add, TS!WithinBuffer, TSP!WithinBuffer, TS!QueueBounded, TSP!QueueBounded,
       TS!DataMatchesStream, TSP!DataMatchesStream, TS!WellPlaced, TSP!WellPlaced,
       TS!RoomForNew, TSP!RoomForNew

LEMMA ServerSameInsert == ASSUME NEW g PROVE TSP!InsertSegment(g) <=> TS!InsertSegment(g)
BY DEF TS!InsertSegment, TSP!InsertSegment, TS!InsertOld, TSP!InsertOld,
       TS!InsertInOrder, TSP!InsertInOrder, TS!InsertRefused, TSP!InsertRefused,
       TS!InsertQueued, TSP!InsertQueued, TS!Ready, TSP!Ready, TS!Accept, TSP!Accept,
       TS!Refuse, TSP!Refuse, TS!vars, TSP!vars, TS!Arrived, TSP!Arrived, TS!Add,
       TSP!Add, TS!Sub, TSP!Sub, TS!SeqCompare, TSP!SeqCompare, TS!End, TSP!End,
       TS!Drop, TSP!Drop, TS!Positions, TSP!Positions, TS!CutBefore, TSP!CutBefore,
       TS!InWindow, TSP!InWindow, TS!Consumed, TSP!Consumed, TS!InOrder, TSP!InOrder,
       TS!Reassembled, TSP!Reassembled, TS!ToQueue, TSP!ToQueue, TS!Fits, TSP!Fits,
       TS!QueueFull, TSP!QueueFull, TS!AppendData, TSP!AppendData

LEMMA ServerSameLoops == TSP!InsertLoops <=> TS!InsertLoops
BY DEF TS!InsertLoops, TSP!InsertLoops, TS!OverlapRemove, TSP!OverlapRemove,
       TS!OverlapTrim, TSP!OverlapTrim, TS!QueueInsert, TSP!QueueInsert,
       TS!MergeContained, TSP!MergeContained, TS!MergeNext, TSP!MergeNext, TS!MergeSkip,
       TSP!MergeSkip, TS!MergeDone, TSP!MergeDone, TS!ProcessStale, TSP!ProcessStale,
       TS!ProcessHead, TSP!ProcessHead, TS!ProcessEnd, TSP!ProcessEnd, TS!Covers,
       TSP!Covers, TS!OverlapsStart, TSP!OverlapsStart, TS!OverlapsEnd, TSP!OverlapsEnd,
       TS!Trim, TSP!Trim, TS!Unqueue, TSP!Unqueue, TS!Place, TSP!Place, TS!OverlapDone,
       TSP!OverlapDone, TS!curr, TSP!curr, TS!next, TSP!next, TS!Merging, TSP!Merging,
       TS!Adjacent, TSP!Adjacent, TS!NextInside, TSP!NextInside, TS!Merged, TSP!Merged,
       TS!Processing, TSP!Processing, TS!head, TSP!head, TS!Gap, TSP!Gap, TS!Add,
       TSP!Add, TS!Sub, TSP!Sub, TS!SeqCompare, TSP!SeqCompare, TS!End, TSP!End,
       TS!Drop, TSP!Drop, TS!Fits, TSP!Fits, TS!AppendData, TSP!AppendData, TS!NoSeg,
       TSP!NoSeg, TS!RemoveAt, TSP!RemoveAt, TS!InsertAt, TSP!InsertAt

LEMMA ServerSameInit ==
  /\ \A isn : TSP!BufferInit(isn) <=> TS!BufferInit(isn)
  /\ TSP!NoBuffer = TS!NoBuffer
  /\ TSP!Init <=> TS!Init
BY DEF TS!BufferInit, TSP!BufferInit, TS!NoBuffer, TSP!NoBuffer, TS!NoSeg, TSP!NoSeg,
       TS!Init, TSP!Init

LEMMA ServerInv ==
  /\ TS!IInv <=> TSP!BufferOK(toserver_sb) /\ toserver_acc \subseteq TSP!Seqs
  /\ TS!IInv' <=> TSP!BufferOK(toserver_sb') /\ toserver_acc' \subseteq TSP!Seqs'
<1>1. TS!IInv <=> TSP!BufferOK(toserver_sb) /\ toserver_acc \subseteq TSP!Seqs
  BY ServerSameInv, TSP!InvBufferOK, Parameters
<1>2. TS!IInv' <=> (TSP!BufferOK(toserver_sb) /\ toserver_acc \subseteq TSP!Seqs)'
  BY <1>1, PTL
<1> QED BY <1>1, <1>2

LEMMA ServerInsert ==
  ASSUME TS!IInv, NEW g \in Payloads, TS!InsertSegment(g)
  PROVE  TS!IInv' /\ toserver_sb'.init = toserver_sb.init
<1>1. TSP!BufferOK(toserver_sb) /\ toserver_acc \subseteq TSP!Seqs /\ TSP!InsertSegment(g) /\ TSP!TypeOK
  BY ServerInv, ServerSameInv, ServerSameInsert DEF TSP!IInv
<1>2. TSP!BufferOK(toserver_sb') /\ toserver_acc' \subseteq TSP!Seqs
  BY <1>1, TSP!InsertStepOK, Parameters
<1>3. toserver_sb'.init = toserver_sb.init
  BY <1>1, TSP!InsertKeeps, Parameters
<1> QED BY <1>2, <1>3, ServerInv

LEMMA ServerLoops ==
  ASSUME TS!IInv, TS!InsertLoops
  PROVE  TS!IInv' /\ toserver_sb'.init = toserver_sb.init /\ toserver_sb.phase # "idle"
<1>1. TSP!BufferOK(toserver_sb) /\ toserver_acc \subseteq TSP!Seqs /\ TSP!InsertLoops /\ TSP!TypeOK
  BY ServerInv, ServerSameInv, ServerSameLoops DEF TSP!IInv
<1>2. TSP!BufferOK(toserver_sb')
  BY <1>1, TSP!LoopStepOK, Parameters
<1>3. toserver_sb'.init = toserver_sb.init /\ toserver_sb.phase # "idle" /\ toserver_acc' = toserver_acc
  BY <1>1, TSP!LoopKeeps, Parameters
<1> QED BY <1>1, <1>2, <1>3, ServerInv

LEMMA ServerInit ==
  ASSUME NEW isn \in 0 .. SeqSpace - 1, TS!BufferInit(isn)
  PROVE  TS!IInv' /\ toserver_sb'.init /\ Empty(toserver_sb')
<1>1. TSP!BufferInit(isn)
  BY ServerSameInit
<1>2. TSP!BufferOK(toserver_sb')
  BY <1>1, TSP!BufferInitOK, Parameters
<1>3. toserver_acc' \subseteq TSP!Seqs /\ toserver_sb'.init /\ Empty(toserver_sb')
  BY DEF TS!BufferInit, TS!NoBuffer, Empty
<1> QED BY <1>2, <1>3, ServerInv

LEMMA ServerFree ==
  ASSUME toserver_sb' = TS!NoBuffer, toserver_acc' = {}
  PROVE  TS!IInv' /\ ~ toserver_sb'.init /\ Empty(toserver_sb')
<1>1. TSP!BufferOK(toserver_sb')
  BY TSP!NoBufferOK, ServerSameInit, Parameters
<1> QED BY <1>1, ServerInv DEF TS!NoBuffer, Empty

LEMMA ServerUnchanged ==
  ASSUME TS!IInv, toserver_sb' = toserver_sb, toserver_acc' = toserver_acc
  PROVE  TS!IInv'
BY ServerInv

-----------------------------------------------------------------------------
(* The buffer of the data to the client: the lemmas of StreamBufferProofs about *)
(* the calls on it.  TCP is the instance that has the lemmas, TC the one    *)
(* the specification uses; their definitions are the same.                   *)

LEMMA ClientSameInv == TCP!IInv <=> TC!IInv
BY DEF TC!IInv, TCP!IInv, TC!TypeOK, TCP!TypeOK, TC!Buffers, TCP!Buffers, TC!Seqs,
       TCP!Seqs, TC!Segs, TCP!Segs, TC!SeqConsistent, TCP!SeqConsistent, TC!Add,
       TCP!Add, TC!WithinBuffer, TCP!WithinBuffer, TC!QueueBounded, TCP!QueueBounded,
       TC!DataMatchesStream, TCP!DataMatchesStream, TC!WellPlaced, TCP!WellPlaced,
       TC!RoomForNew, TCP!RoomForNew

LEMMA ClientSameInsert == ASSUME NEW g PROVE TCP!InsertSegment(g) <=> TC!InsertSegment(g)
BY DEF TC!InsertSegment, TCP!InsertSegment, TC!InsertOld, TCP!InsertOld,
       TC!InsertInOrder, TCP!InsertInOrder, TC!InsertRefused, TCP!InsertRefused,
       TC!InsertQueued, TCP!InsertQueued, TC!Ready, TCP!Ready, TC!Accept, TCP!Accept,
       TC!Refuse, TCP!Refuse, TC!vars, TCP!vars, TC!Arrived, TCP!Arrived, TC!Add,
       TCP!Add, TC!Sub, TCP!Sub, TC!SeqCompare, TCP!SeqCompare, TC!End, TCP!End,
       TC!Drop, TCP!Drop, TC!Positions, TCP!Positions, TC!CutBefore, TCP!CutBefore,
       TC!InWindow, TCP!InWindow, TC!Consumed, TCP!Consumed, TC!InOrder, TCP!InOrder,
       TC!Reassembled, TCP!Reassembled, TC!ToQueue, TCP!ToQueue, TC!Fits, TCP!Fits,
       TC!QueueFull, TCP!QueueFull, TC!AppendData, TCP!AppendData

LEMMA ClientSameLoops == TCP!InsertLoops <=> TC!InsertLoops
BY DEF TC!InsertLoops, TCP!InsertLoops, TC!OverlapRemove, TCP!OverlapRemove,
       TC!OverlapTrim, TCP!OverlapTrim, TC!QueueInsert, TCP!QueueInsert,
       TC!MergeContained, TCP!MergeContained, TC!MergeNext, TCP!MergeNext, TC!MergeSkip,
       TCP!MergeSkip, TC!MergeDone, TCP!MergeDone, TC!ProcessStale, TCP!ProcessStale,
       TC!ProcessHead, TCP!ProcessHead, TC!ProcessEnd, TCP!ProcessEnd, TC!Covers,
       TCP!Covers, TC!OverlapsStart, TCP!OverlapsStart, TC!OverlapsEnd, TCP!OverlapsEnd,
       TC!Trim, TCP!Trim, TC!Unqueue, TCP!Unqueue, TC!Place, TCP!Place, TC!OverlapDone,
       TCP!OverlapDone, TC!curr, TCP!curr, TC!next, TCP!next, TC!Merging, TCP!Merging,
       TC!Adjacent, TCP!Adjacent, TC!NextInside, TCP!NextInside, TC!Merged, TCP!Merged,
       TC!Processing, TCP!Processing, TC!head, TCP!head, TC!Gap, TCP!Gap, TC!Add,
       TCP!Add, TC!Sub, TCP!Sub, TC!SeqCompare, TCP!SeqCompare, TC!End, TCP!End,
       TC!Drop, TCP!Drop, TC!Fits, TCP!Fits, TC!AppendData, TCP!AppendData, TC!NoSeg,
       TCP!NoSeg, TC!RemoveAt, TCP!RemoveAt, TC!InsertAt, TCP!InsertAt

LEMMA ClientSameInit ==
  /\ \A isn : TCP!BufferInit(isn) <=> TC!BufferInit(isn)
  /\ TCP!NoBuffer = TC!NoBuffer
  /\ TCP!Init <=> TC!Init
BY DEF TC!BufferInit, TCP!BufferInit, TC!NoBuffer, TCP!NoBuffer, TC!NoSeg, TCP!NoSeg,
       TC!Init, TCP!Init

LEMMA ClientInv ==
  /\ TC!IInv <=> TCP!BufferOK(toclient_sb) /\ toclient_acc \subseteq TCP!Seqs
  /\ TC!IInv' <=> TCP!BufferOK(toclient_sb') /\ toclient_acc' \subseteq TCP!Seqs'
<1>1. TC!IInv <=> TCP!BufferOK(toclient_sb) /\ toclient_acc \subseteq TCP!Seqs
  BY ClientSameInv, TCP!InvBufferOK, Parameters
<1>2. TC!IInv' <=> (TCP!BufferOK(toclient_sb) /\ toclient_acc \subseteq TCP!Seqs)'
  BY <1>1, PTL
<1> QED BY <1>1, <1>2

LEMMA ClientInsert ==
  ASSUME TC!IInv, NEW g \in Payloads, TC!InsertSegment(g)
  PROVE  TC!IInv' /\ toclient_sb'.init = toclient_sb.init
<1>1. TCP!BufferOK(toclient_sb) /\ toclient_acc \subseteq TCP!Seqs /\ TCP!InsertSegment(g) /\ TCP!TypeOK
  BY ClientInv, ClientSameInv, ClientSameInsert DEF TCP!IInv
<1>2. TCP!BufferOK(toclient_sb') /\ toclient_acc' \subseteq TCP!Seqs
  BY <1>1, TCP!InsertStepOK, Parameters
<1>3. toclient_sb'.init = toclient_sb.init
  BY <1>1, TCP!InsertKeeps, Parameters
<1> QED BY <1>2, <1>3, ClientInv

LEMMA ClientLoops ==
  ASSUME TC!IInv, TC!InsertLoops
  PROVE  TC!IInv' /\ toclient_sb'.init = toclient_sb.init /\ toclient_sb.phase # "idle"
<1>1. TCP!BufferOK(toclient_sb) /\ toclient_acc \subseteq TCP!Seqs /\ TCP!InsertLoops /\ TCP!TypeOK
  BY ClientInv, ClientSameInv, ClientSameLoops DEF TCP!IInv
<1>2. TCP!BufferOK(toclient_sb')
  BY <1>1, TCP!LoopStepOK, Parameters
<1>3. toclient_sb'.init = toclient_sb.init /\ toclient_sb.phase # "idle" /\ toclient_acc' = toclient_acc
  BY <1>1, TCP!LoopKeeps, Parameters
<1> QED BY <1>1, <1>2, <1>3, ClientInv

LEMMA ClientInit ==
  ASSUME NEW isn \in 0 .. SeqSpace - 1, TC!BufferInit(isn)
  PROVE  TC!IInv' /\ toclient_sb'.init /\ Empty(toclient_sb')
<1>1. TCP!BufferInit(isn)
  BY ClientSameInit
<1>2. TCP!BufferOK(toclient_sb')
  BY <1>1, TCP!BufferInitOK, Parameters
<1>3. toclient_acc' \subseteq TCP!Seqs /\ toclient_sb'.init /\ Empty(toclient_sb')
  BY DEF TC!BufferInit, TC!NoBuffer, Empty
<1> QED BY <1>2, <1>3, ClientInv

LEMMA ClientFree ==
  ASSUME toclient_sb' = TC!NoBuffer, toclient_acc' = {}
  PROVE  TC!IInv' /\ ~ toclient_sb'.init /\ Empty(toclient_sb')
<1>1. TCP!BufferOK(toclient_sb')
  BY TCP!NoBufferOK, ClientSameInit, Parameters
<1> QED BY <1>1, ClientInv DEF TC!NoBuffer, Empty

LEMMA ClientUnchanged ==
  ASSUME TC!IInv, toclient_sb' = toclient_sb, toclient_acc' = toclient_acc
  PROVE  TC!IInv'
BY ClientInv

-----------------------------------------------------------------------------
(* The state machine *)

States == HalfOpen \cup {"ESTABLISHED"} \cup Closing \cup {"CLOSED"}

\* The open states past the handshake.
Open == {"ESTABLISHED"} \cup Closing

\* Where one packet can take the session: one line per case of the switch.
LEMMA Moves ==
  ASSUME NEW F, NEW toserver \in BOOLEAN, NEW st \in States
  PROVE  LET st2 == Transition(st, F, toserver)
         IN  /\ st = "NONE" => st2 \in {"NONE", "SYN_SENT", "SYN_RECV", "CLOSED"}
             /\ st = "SYN_SENT" => st2 \in {"SYN_SENT", "SYN_RECV", "CLOSED"}
             /\ st = "SYN_RECV" => st2 \in {"SYN_RECV", "ESTABLISHED", "CLOSED"}
             /\ st = "ESTABLISHED" => st2 \in {"ESTABLISHED", "FIN_WAIT1", "CLOSE_WAIT", "CLOSED"}
             /\ st = "FIN_WAIT1" => st2 \in {"FIN_WAIT1", "FIN_WAIT2", "CLOSING", "TIME_WAIT", "CLOSED"}
             /\ st = "FIN_WAIT2" => st2 \in {"FIN_WAIT2", "TIME_WAIT", "CLOSED"}
             /\ st = "CLOSING" => st2 \in {"CLOSING", "TIME_WAIT", "CLOSED"}
             /\ st = "TIME_WAIT" => st2 \in {"TIME_WAIT", "CLOSED"}
             /\ st = "CLOSE_WAIT" => st2 \in {"CLOSE_WAIT", "LAST_ACK", "CLOSED"}
             /\ st = "LAST_ACK" => st2 \in {"LAST_ACK", "CLOSED"}
             /\ st = "CLOSED" => st2 = "CLOSED"
<1>1. CASE st = "NONE"
  BY <1>1 DEF Transition, AfterReset
<1>2. CASE st = "SYN_SENT"
  BY <1>2 DEF Transition, AfterReset, SynSent
<1>3. CASE st = "SYN_RECV"
  BY <1>3 DEF Transition, AfterReset
<1>4. CASE st = "ESTABLISHED"
  BY <1>4 DEF Transition, AfterReset
<1>5. CASE st = "FIN_WAIT1"
  BY <1>5 DEF Transition, AfterReset, FinWait1
<1>6. CASE st = "FIN_WAIT2"
  BY <1>6 DEF Transition, AfterReset
<1>7. CASE st = "CLOSING"
  BY <1>7 DEF Transition, AfterReset
<1>8. CASE st = "TIME_WAIT"
  BY <1>8 DEF Transition, AfterReset, TimeWait
<1>9. CASE st = "CLOSE_WAIT"
  BY <1>9 DEF Transition, AfterReset
<1>10. CASE st = "LAST_ACK"
  BY <1>10 DEF Transition, AfterReset
<1>11. CASE st = "CLOSED"
  BY <1>11 DEF Transition, Closed
<1> QED BY <1>1, <1>2, <1>3, <1>4, <1>5, <1>6, <1>7, <1>8, <1>9, <1>10, <1>11
        DEF States, HalfOpen, Closing

\* What the invariants ask of a transition: an open session stays open or is
\* closed, and the handshake ends in ESTABLISHED out of SYN_RECV only.
LEMMA Stages ==
  ASSUME NEW F, NEW toserver \in BOOLEAN, NEW st \in States
  PROVE  LET st2 == Transition(st, F, toserver)
         IN  /\ st2 \in States
             /\ st2 \in HalfOpen => st \in HalfOpen
             /\ st2 \in Open => st \in Open \/ (st = "SYN_RECV" /\ st2 = "ESTABLISHED")
             /\ st \in Open => st2 \in Open \cup {"CLOSED"}
             /\ st = "CLOSED" => st2 = "CLOSED"
<1> DEFINE st2 == Transition(st, F, toserver)
<1>1. /\ st = "NONE" => st2 \in {"NONE", "SYN_SENT", "SYN_RECV", "CLOSED"}
      /\ st = "SYN_SENT" => st2 \in {"SYN_SENT", "SYN_RECV", "CLOSED"}
      /\ st = "SYN_RECV" => st2 \in {"SYN_RECV", "ESTABLISHED", "CLOSED"}
      /\ st = "CLOSED" => st2 = "CLOSED"
      /\ st \in Open => st2 \in Open \cup {"CLOSED"}
  BY Moves DEF Open, Closing
<1> HIDE DEF st2
<1>2. st2 \in States /\ (st2 \in HalfOpen => st \in HalfOpen)
      /\ (st2 \in Open => st \in Open \/ (st = "SYN_RECV" /\ st2 = "ESTABLISHED"))
  BY <1>1 DEF States, HalfOpen, Open, Closing
<1> QED BY <1>1, <1>2 DEF st2

LEMMA RankForward ==
  ASSUME NEW F, NEW toserver \in BOOLEAN, NEW st \in States
  PROVE  Rank[Transition(st, F, toserver)] >= Rank[st]
<1>1. /\ Rank["NONE"] = 0 /\ Rank["SYN_SENT"] = 1 /\ Rank["SYN_RECV"] = 2
      /\ Rank["ESTABLISHED"] = 3 /\ Rank["FIN_WAIT1"] = 4 /\ Rank["CLOSE_WAIT"] = 4
      /\ Rank["FIN_WAIT2"] = 5 /\ Rank["CLOSING"] = 5 /\ Rank["LAST_ACK"] = 5
      /\ Rank["TIME_WAIT"] = 6 /\ Rank["CLOSED"] = 7
  <2>1. ASSUME NEW s \in States
        PROVE  Rank[s] = CASE s = "NONE" -> 0 [] s = "SYN_SENT" -> 1 [] s = "SYN_RECV" -> 2
                           [] s = "ESTABLISHED" -> 3 [] s \in {"FIN_WAIT1", "CLOSE_WAIT"} -> 4
                           [] s \in {"FIN_WAIT2", "CLOSING", "LAST_ACK"} -> 5
                           [] s = "TIME_WAIT" -> 6 [] s = "CLOSED" -> 7
    BY Zenon DEF Rank, States
  <2> QED BY <2>1 DEF States, HalfOpen, Closing
<1> QED BY <1>1, Moves DEF States, HalfOpen, Closing

LEMMA RankInt == ASSUME NEW s \in States PROVE Rank[s] \in Int
BY DEF Rank, States, HalfOpen, Closing

-----------------------------------------------------------------------------
(* The session *)

\* Both buffers keep the invariant of StreamBuffer when flow_update drives them.
BuffersSound == TS!IInv /\ TC!IInv

TcpInv == SessionSound /\ BuffersSound

\* Nothing is in the two buffers before the handshake is over.
LEMMA EmptyBefore ==
  NoDataBeforeEstablished <=>
      \/ state = "ESTABLISHED" \/ (state \in Closing \cup {"CLOSED"} /\ timeout = "est")
      \/ Empty(toserver_sb) /\ Empty(toclient_sb)
BY DEF NoDataBeforeEstablished, Empty

LEMMA TcpInit == Init => TcpInv
<1> SUFFICES ASSUME Init PROVE TcpInv
  OBVIOUS
<1>1. TS!IInv /\ TC!IInv
  BY TSP!InitOK, TCP!InitOK, ServerSameInit, ClientSameInit, ServerSameInv, ClientSameInv,
     Parameters DEF Init
<1>2. /\ Empty(toserver_sb) /\ ~ toserver_sb.init
      /\ Empty(toclient_sb) /\ ~ toclient_sb.init
  BY DEF Init, TS!Init, TC!Init, TS!NoBuffer, TC!NoBuffer, Empty
<1>3. TypeOK
  BY <1>1 DEF TypeOK, Init, HalfOpen, TS!IInv, TC!IInv
<1>4. TimeoutMatchesState
  BY DEF TimeoutMatchesState, Init, Closing
<1> QED BY <1>1, <1>2, <1>3, <1>4, EmptyBefore DEF TcpInv, SessionSound, BuffersSound, BuffersOwned

\* stream_buffer_insert_segment and stream_buffer_init as flow_update calls
\* them: both buffers stay sound, only an ESTABLISHED session puts data in
\* one, and memory is taken only where the structure was allocated.
LEMMA ReassembleOK ==
  ASSUME BuffersSound, NEW st, NEW p \in Packets, NEW toserver \in BOOLEAN,
         Reassemble(st, p, toserver)
  PROVE  /\ BuffersSound'
         /\ st = "ESTABLISHED" \/ ((Empty(toserver_sb) => Empty(toserver_sb'))
                                   /\ (Empty(toclient_sb) => Empty(toclient_sb')))
         /\ toserver_sb'.init => toserver_sb.init \/ "ts" \in got'
         /\ toclient_sb'.init => toclient_sb.init \/ "tc" \in got'
<1>0. TS!IInv /\ TC!IInv /\ p.seq \in 0 .. SeqSpace - 1 /\ p.len \in Nat
  BY TcpFlowAssumption DEF BuffersSound
<1>1. ASSUME p.len > 0
      PROVE  PayloadIn(toserver_sb, p) \in Payloads /\ PayloadIn(toclient_sb, p) \in Payloads
  <2>1. toserver_sb.isn \in 0 .. SeqSpace - 1 /\ toclient_sb.isn \in 0 .. SeqSpace - 1
    BY <1>0 DEF TS!IInv, TS!TypeOK, TS!Buffers, TS!Seqs, TC!IInv, TC!TypeOK, TC!Buffers, TC!Seqs
  <2>2. /\ TS!Sub(p.seq, toserver_sb.isn) \in 0 .. SeqSpace - 1
        /\ TS!Sub(p.seq, toclient_sb.isn) \in 0 .. SeqSpace - 1
    <3>1. /\ TSP!Sub(p.seq, toserver_sb.isn) \in TSP!Seqs
          /\ TSP!Sub(p.seq, toclient_sb.isn) \in TSP!Seqs
      BY <1>0, <2>1, TSP!AddType, Parameters
    <3> QED BY <3>1 DEF TSP!Sub, TS!Sub, TSP!Seqs
  <2>3. p.len \in {q.len : q \in Packets} \ {0}
    BY <1>0, <1>1
  <2> QED BY <2>2, <2>3 DEF PayloadIn, Payloads
<1>2. CASE /\ HasPayload(st, p) /\ toserver /\ toserver_sb.init
           /\ TS!InsertSegment(PayloadIn(toserver_sb, p))
           /\ UNCHANGED <<toclient_sb, toclient_acc>>
  BY <1>0, <1>1, <1>2, ServerInsert, ClientUnchanged DEF HasPayload, BuffersSound
<1>3. CASE /\ HasPayload(st, p) /\ ~ toserver /\ toclient_sb.init
           /\ TC!InsertSegment(PayloadIn(toclient_sb, p))
           /\ UNCHANGED <<toserver_sb, toserver_acc>>
  BY <1>0, <1>1, <1>3, ClientInsert, ServerUnchanged DEF HasPayload, BuffersSound
<1>4. CASE InitToServer(st, p) /\ InitToClient(st, p)
  <2>1. TS!IInv' /\ (Empty(toserver_sb) => Empty(toserver_sb'))
        /\ (toserver_sb'.init => toserver_sb.init \/ "ts" \in got')
    BY <1>0, <1>4, ServerInit, ServerUnchanged DEF InitToServer
  <2>2. TC!IInv' /\ (Empty(toclient_sb) => Empty(toclient_sb'))
        /\ (toclient_sb'.init => toclient_sb.init \/ "tc" \in got')
    BY <1>0, <1>4, ClientInit, ClientUnchanged DEF InitToClient
  <2> QED BY <2>1, <2>2 DEF BuffersSound
<1> QED BY <1>2, <1>3, <1>4 DEF Reassemble

\* flow_update on a session whose memory is that of its flow.
LEMMA UpdateOK ==
  ASSUME TcpInv, NEW p \in Packets, NEW toserver \in BOOLEAN, FlowUpdate(p, toserver),
         initiator' \in Hosts, got' \subseteq {"tcp", "ts", "tc"},
         toserver_sb.init => "ts" \in got', toclient_sb.init => "tc" \in got'
  PROVE  TcpInv'
<1>0. /\ state \in States /\ timeout \in {"new", "est"} /\ BuffersSound
      /\ TimeoutMatchesState /\ NoDataBeforeEstablished /\ initiator' # NoHost
  BY TcpFlowAssumption DEF TcpInv, SessionSound, TypeOK, States
<1>1. CASE UNCHANGED <<state, timeout, buffers>>
  <2>1. BuffersSound'
    BY <1>0, <1>1, ServerUnchanged, ClientUnchanged DEF BuffersSound, buffers
  <2>2. TypeOK'
    BY <1>0, <1>1, <2>1 DEF TypeOK, States, BuffersSound, TS!IInv, TC!IInv
  <2>3. TimeoutMatchesState' /\ NoDataBeforeEstablished'
    BY <1>0, <1>1 DEF TimeoutMatchesState, NoDataBeforeEstablished, buffers
  <2>4. BuffersOwned'
    BY <1>0, <1>1 DEF BuffersOwned, buffers
  <2> QED BY <2>1, <2>2, <2>3, <2>4 DEF TcpInv, SessionSound
<1>2. CASE /\ state' = Transition(state, p.flags, toserver)
           /\ timeout' = Timeout(state, state')
           /\ Reassemble(state', p, toserver)
  <2>1. /\ BuffersSound'
        /\ state' = "ESTABLISHED" \/ ((Empty(toserver_sb) => Empty(toserver_sb'))
                                      /\ (Empty(toclient_sb) => Empty(toclient_sb')))
        /\ toserver_sb'.init => toserver_sb.init \/ "ts" \in got'
        /\ toclient_sb'.init => toclient_sb.init \/ "tc" \in got'
    BY <1>0, <1>2, ReassembleOK
  <2>2. /\ state' \in States
        /\ state' \in HalfOpen => state \in HalfOpen
        /\ state' \in Open => state \in Open \/ (state = "SYN_RECV" /\ state' = "ESTABLISHED")
        /\ state \in Open => state' \in Open \cup {"CLOSED"}
        /\ state = "CLOSED" => state' = "CLOSED"
    BY <1>0, <1>2, Stages
  <2>3. timeout' \in {"new", "est"} /\ TimeoutMatchesState'
    BY <1>0, <1>2, <2>2 DEF Timeout, TimeoutMatchesState, HalfOpen, Open, Closing
  <2>4. TypeOK'
    BY <2>1, <2>2, <2>3 DEF TypeOK, States, BuffersSound, TS!IInv, TC!IInv
  <2>5. NoDataBeforeEstablished'
    <3>1. CASE state = "ESTABLISHED" \/ (state \in Closing \cup {"CLOSED"} /\ timeout = "est")
      <4>1. state' \in Open \cup {"CLOSED"} /\ timeout' = "est"
        BY <1>0, <1>2, <2>2, <3>1 DEF Timeout, TimeoutMatchesState, Open, Closing
      <4> QED BY <4>1 DEF NoDataBeforeEstablished, Open
    <3>2. CASE Empty(toserver_sb) /\ Empty(toclient_sb)
      BY <2>1, <3>2 DEF NoDataBeforeEstablished, Empty
    <3> QED BY <1>0, <3>1, <3>2, EmptyBefore
  <2>6. BuffersOwned'
    BY <1>0, <2>1 DEF BuffersOwned
  <2> QED BY <2>1, <2>3, <2>4, <2>5, <2>6 DEF TcpInv, SessionSound
<1> QED BY <1>1, <1>2 DEF FlowUpdate

LEMMA TcpNext == TcpInv /\ [Next]_vars => TcpInv'
<1> SUFFICES ASSUME TcpInv, [Next]_vars PROVE TcpInv'
  OBVIOUS
<1>0. /\ TypeOK /\ TimeoutMatchesState /\ NoDataBeforeEstablished /\ BuffersOwned
      /\ BuffersSound /\ TS!IInv /\ TC!IInv
  BY DEF TcpInv, SessionSound, BuffersSound
<1>1. ASSUME NEW p \in Packets, FirstPacket(p) PROVE TcpInv'
  BY <1>0, <1>1, UpdateOK, TcpFlowAssumption DEF FirstPacket, BuffersOwned
<1>2. ASSUME NEW p \in Packets, LaterPacket(p) PROVE TcpInv'
  <2>1. initiator' \in Hosts /\ got' = got /\ (p.from = initiator) \in BOOLEAN
    BY <1>0, <1>2 DEF LaterPacket, TypeOK
  <2> QED BY <1>0, <1>2, <2>1, UpdateOK DEF LaterPacket, BuffersOwned, TypeOK
<1>3. CASE InsertionStep
  <2>1. BuffersSound' /\ toserver_sb'.init = toserver_sb.init /\ toclient_sb'.init = toclient_sb.init
        /\ (toserver_sb.phase # "idle" \/ toclient_sb.phase # "idle")
    BY <1>0, <1>3, ServerLoops, ClientLoops, ServerUnchanged, ClientUnchanged
       DEF InsertionStep, BuffersSound
  <2>2. UNCHANGED <<initiator, got, state, timeout>>
    BY <1>3 DEF InsertionStep
  <2>3. TypeOK'
    BY <1>0, <2>1, <2>2 DEF TypeOK, BuffersSound, TS!IInv, TC!IInv
  <2>4. TimeoutMatchesState' /\ BuffersOwned'
    BY <1>0, <2>1, <2>2 DEF TimeoutMatchesState, BuffersOwned
  <2>5. NoDataBeforeEstablished'
    BY <1>0, <2>1, <2>2 DEF NoDataBeforeEstablished
  <2> QED BY <2>1, <2>3, <2>4, <2>5 DEF TcpInv, SessionSound
<1>4. CASE FlowFree
  <2>1. BuffersSound' /\ ~ toserver_sb'.init /\ ~ toclient_sb'.init
        /\ Empty(toserver_sb') /\ Empty(toclient_sb')
    BY <1>4, ServerFree, ClientFree DEF FlowFree, FreeBuffers, BuffersSound
  <2>2. TypeOK' /\ TimeoutMatchesState'
    BY <1>4, <2>1 DEF FlowFree, TypeOK, TimeoutMatchesState, BuffersSound, TS!IInv, TC!IInv,
                      HalfOpen, Closing
  <2> QED BY <2>1, <2>2 DEF TcpInv, SessionSound, BuffersOwned, NoDataBeforeEstablished, Empty
<1>5. CASE UNCHANGED vars
  <2>1. BuffersSound'
    BY <1>0, <1>5, ServerUnchanged, ClientUnchanged DEF BuffersSound, vars, buffers
  <2> QED BY <1>0, <1>5, <2>1 DEF TcpInv, SessionSound, TypeOK, TimeoutMatchesState,
          NoDataBeforeEstablished, BuffersOwned, vars, buffers, BuffersSound, TS!IInv, TC!IInv
<1> QED BY <1>1, <1>2, <1>3, <1>4, <1>5 DEF Next

LEMMA TcpInvariant == Spec => []TcpInv
BY TcpInit, TcpNext, PTL DEF Spec

\* flow_update keeps the state, the timeout, the buffers and the memory of a
\* session in agreement: what run tcp_flow checks, for all packets.
THEOREM Session == Spec => []SessionSound
BY TcpInvariant, PTL DEF TcpInv

\* No packet brings a session back to an earlier stage while its flow lives.
THEOREM Forward == Spec => OnlyForward
<1>1. ASSUME TcpInv, [Next]_vars
      PROVE  initiator' = NoHost \/ Rank[state'] >= Rank[state]
  <2>0. state \in States
    BY <1>1 DEF TcpInv, SessionSound, TypeOK, States
  <2>1. ASSUME NEW p \in Packets, NEW toserver \in BOOLEAN, FlowUpdate(p, toserver)
        PROVE  state' = state \/ Rank[state'] >= Rank[state]
    BY <2>0, <2>1, RankForward DEF FlowUpdate
  <2>2. initiator' = NoHost \/ state' = state \/ Rank[state'] >= Rank[state]
    <3>1. ASSUME NEW p \in Packets, FirstPacket(p)
          PROVE  state' = state \/ Rank[state'] >= Rank[state]
      BY <2>1, <3>1 DEF FirstPacket
    <3>2. ASSUME NEW p \in Packets, LaterPacket(p)
          PROVE  state' = state \/ Rank[state'] >= Rank[state]
      <4>1. (p.from = initiator) \in BOOLEAN
        OBVIOUS
      <4> QED BY <2>1, <3>2, <4>1 DEF LaterPacket
    <3> QED BY <1>1, <3>1, <3>2 DEF Next, InsertionStep, FlowFree, vars
  <2>3. Rank[state] \in Int
    BY <2>0, RankInt
  <2> QED BY <2>2, <2>3
<1> QED BY <1>1, TcpInvariant, PTL DEF Spec, OnlyForward
=============================================================================
