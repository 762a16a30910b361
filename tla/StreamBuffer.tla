---------------------------- MODULE StreamBuffer ----------------------------
(***************************************************************************)
(* One direction of a TCP connection in src/stream_reassemble.c: a buffer  *)
(* of contiguous data from base_seq to next_seq and a list of out-of-order *)
(* segments behind it.  All calls on a buffer are made under the lock of   *)
(* its flow, so they do not interleave; the loops inside a call            *)
(* (handle_queue_overlaps, try_merge_segments, process_segment_queue) are  *)
(* stepped by phase, and no other call starts before phase is "idle".      *)
(*                                                                         *)
(* Sequence numbers are modulo SeqSpace.  A byte is the sequence number it *)
(* was sent under.  The overlap policy is the one flow.c passes,           *)
(* OS_POLICY_LINUX (WINDOWS and LAST share its branches).                  *)
(***************************************************************************)
EXTENDS Integers, Sequences, SequencesExt

CONSTANTS
    SeqSpace,      \* 2^32
    LenMod,        \* 2^16: payload_len is a uint16_t
    MaxBuffer,     \* max_buffer_size
    MaxSegments,   \* max_segments
    MergeAbove,    \* the 10 of insert_segment_queue
    Isns,          \* initial sequence numbers tried
    Segments,      \* what the sender sends: [off, len], off from the ISN
    ConsumeLens    \* lengths stream_buffer_consume is called with

ASSUME StreamAssumption ==
    /\ SeqSpace \in Nat \ {0}
    /\ LenMod \in Nat \ {0}
    /\ MaxBuffer \in Nat
    /\ MaxSegments \in Nat
    /\ MergeAbove \in Nat
    /\ Isns \subseteq 0 .. SeqSpace - 1
    /\ \A g \in Segments : g.off \in Nat /\ g.len \in Nat \ {0}
    /\ ConsumeLens \subseteq Nat \ {0}

VARIABLES
    sb,        \* the stream_buffer_t, and the locals of the call in progress
    accepted   \* history: bytes of segments that insert_segment did not refuse

vars == <<sb, accepted>>

Seqs == 0 .. SeqSpace - 1
Segs == [seq : Seqs, pay : Seq(Seqs)]

Add(s, n) == (s + n) % SeqSpace
Sub(s, t) == (s - t) % SeqSpace

\* the sign bit of the difference decides
SeqCompare_mut(s, t) == IF s = t THEN 0 ELSE IF s < t THEN -1 ELSE 1
SeqCompare(s, t) == IF s = t THEN 0 ELSE IF 2 * Sub(s, t) >= SeqSpace THEN -1 ELSE 1

End(seg) == Add(seg.seq, Len(seg.pay))
Drop(p, n) == SubSeq(p, n + 1, Len(p))

\* the segment g as it arrives: its bytes under their sequence numbers
Arrived(g) ==
    LET s == Add(sb.isn, g.off)
    IN  [seq |-> s, pay |-> [i \in 1 .. g.len |-> Add(s, i - 1)]]

Positions(seg) == {seg.pay[i] : i \in DOMAIN seg.pay}

NoSeg == [seq |-> 0, pay |-> <<>>]

\* sb->data is NULL: after the memset of flow_get and after stream_buffer_free
NoBuffer == [init |-> FALSE, isn |-> 0, base_seq |-> 0, next_seq |-> 0, data |-> <<>>,
             seg_list |-> <<>>, seg_count |-> 0, phase |-> "idle", at |-> 1, new |-> NoSeg]

Init == sb = NoBuffer /\ accepted = {}

(***************************************************************************)
(* stream_buffer_init (called again only when data is NULL) and _free      *)
(***************************************************************************)
BufferInit(isn) ==
    /\ ~ sb.init
    /\ sb' = [NoBuffer EXCEPT !.init = TRUE, !.isn = isn, !.base_seq = isn, !.next_seq = isn]
    /\ accepted' = {}

BufferFree ==
    /\ sb.init /\ sb.phase = "idle"
    /\ sb' = NoBuffer
    /\ accepted' = {}

(***************************************************************************)
(* stream_buffer_insert_segment, one action per way out.  Accept and       *)
(* Refuse are its results >= 0 and -1.                                     *)
(***************************************************************************)
Ready == sb.init /\ sb.phase = "idle"
Accept(g) == accepted' = accepted \cup Positions(Arrived(g))
Refuse == UNCHANGED vars

\* bytes before seq t cut off the front of a segment
CutBefore_mut(seg, t) == IF SeqCompare(seg.seq, t) < 0
                         THEN [seq |-> t, pay |-> seg.pay]
                         ELSE seg
CutBefore(seg, t) == IF SeqCompare(seg.seq, t) < 0
                     THEN [seq |-> t, pay |-> Drop(seg.pay, Sub(t, seg.seq))]
                     ELSE seg

\* after the adjustment to base_seq
InWindow(g) == CutBefore(Arrived(g), sb.base_seq)

\* before base_seq, all of it
Consumed(g) ==
    \/ SeqCompare(End(Arrived(g)), sb.base_seq) <= 0
    \/ InWindow(g).pay = <<>>

InOrder(g) == ~ Consumed(g) /\ InWindow(g).seq = sb.next_seq

\* out of order, but before next_seq, all of it (handle_buffer_overlap)
Reassembled(g) ==
    /\ ~ Consumed(g) /\ ~ InOrder(g)
    /\ SeqCompare(InWindow(g).seq, sb.next_seq) < 0
    /\ SeqCompare(End(InWindow(g)), sb.next_seq) <= 0

ToQueue(g) == ~ Consumed(g) /\ ~ InOrder(g) /\ ~ Reassembled(g)

\* data_len + payload_len <= max_buffer_size
Fits_mut2(seg) == Len(sb.data) + Len(seg.pay) < MaxBuffer
Fits(seg) == Len(sb.data) + Len(seg.pay) <= MaxBuffer

\* seg_count >= max_segments
QueueFull == sb.seg_count >= MaxSegments

InsertOld(g) ==
    /\ Ready
    /\ Consumed(g) \/ Reassembled(g)
    /\ Accept(g)
    /\ UNCHANGED sb

\* memcpy to the end of the data, then process_segment_queue
AppendData_mut(b, seg) == [b EXCEPT !.data = @ \o seg.pay]
AppendData(b, seg) == [b EXCEPT !.data = @ \o seg.pay, !.next_seq = Add(@, Len(seg.pay))]

InsertInOrder(g) ==
    /\ Ready
    /\ InOrder(g) /\ Fits(InWindow(g))
    /\ sb' = [AppendData(sb, InWindow(g)) EXCEPT !.phase = "process"]
    /\ Accept(g)

\* the buffer is full, the queue is full, or segment_alloc fails
InsertRefused(g) ==
    /\ Ready
    /\ \/ InOrder(g) /\ ~ Fits(InWindow(g))
       \/ ToQueue(g)
    /\ Refuse

\* cut to next_seq, allocate, and look for overlaps
InsertQueued(g) ==
    /\ Ready
    /\ ToQueue(g) /\ ~ QueueFull
    /\ sb' = [sb EXCEPT !.new = CutBefore(InWindow(g), sb.next_seq),
                        !.phase = "overlap", !.at = 1]
    /\ Accept(g)

(***************************************************************************)
(* handle_queue_overlaps: one step per queued segment                      *)
(***************************************************************************)
Covers(new, curr) ==
    SeqCompare(new.seq, curr.seq) <= 0 /\ SeqCompare(End(new), End(curr)) >= 0

OverlapsStart(new, curr) ==
    /\ SeqCompare(new.seq, curr.seq) < 0
    /\ SeqCompare(End(new), curr.seq) > 0
    /\ SeqCompare(End(new), End(curr)) < 0

OverlapsEnd(new, curr) ==
    /\ SeqCompare(new.seq, curr.seq) > 0
    /\ SeqCompare(new.seq, End(curr)) < 0
    /\ SeqCompare(End(new), End(curr)) >= 0

\* the queued segment gives way to the new one
Trim(new, curr) ==
    IF OverlapsStart(new, curr)
    THEN [seq |-> End(new), pay |-> Drop(curr.pay, Sub(End(new), curr.seq))]
    ELSE IF OverlapsEnd(new, curr)
    THEN [curr EXCEPT !.pay = SubSeq(@, 1, Sub(new.seq, curr.seq))]
    ELSE curr

\* unlink the i-th segment, segment_free, seg_count--
Unqueue_mut2(b, i) == b
Unqueue(b, i) == [b EXCEPT !.seg_list = RemoveAt(@, i), !.seg_count = @ - 1]

OverlapRemove ==
    /\ sb.phase = "overlap" /\ sb.at <= Len(sb.seg_list)
    /\ Covers(sb.new, sb.seg_list[sb.at])
    /\ sb' = Unqueue(sb, sb.at)
    /\ UNCHANGED accepted

OverlapTrim ==
    /\ sb.phase = "overlap" /\ sb.at <= Len(sb.seg_list)
    /\ ~ Covers(sb.new, sb.seg_list[sb.at])
    /\ sb' = [sb EXCEPT !.seg_list[sb.at] = Trim(sb.new, @), !.at = @ + 1]
    /\ UNCHANGED accepted

(***************************************************************************)
(* the rest of insert_segment_queue: sorted insertion                      *)
(***************************************************************************)

\* in front of the first segment with a larger sequence number
Place_mut == Len(sb.seg_list) + 1
Place ==
    CHOOSE i \in 1 .. Len(sb.seg_list) + 1 :
        /\ \A j \in 1 .. i - 1 : SeqCompare(sb.new.seq, sb.seg_list[j].seq) >= 0
        /\ i <= Len(sb.seg_list) => SeqCompare(sb.new.seq, sb.seg_list[i].seq) < 0

\* The way out for an exact duplicate is left out: under this policy
\* handle_queue_overlaps has removed the segment it would find (DuplicateGone).
Duplicate ==
    \E j \in 1 .. Place - 1 :
        /\ sb.seg_list[j].seq = sb.new.seq
        /\ Len(sb.seg_list[j].pay) = Len(sb.new.pay)

OverlapDone == sb.phase = "overlap" /\ sb.at > Len(sb.seg_list)

QueueInsert ==
    /\ OverlapDone
    /\ sb' = [sb EXCEPT !.seg_list = InsertAt(@, Place, sb.new),
                        !.seg_count = @ + 1,
                        !.phase = IF sb.seg_count + 1 > MergeAbove THEN "merge" ELSE "process",
                        !.new = NoSeg, !.at = 1]
    /\ UNCHANGED accepted

(***************************************************************************)
(* try_merge_segments: curr is the segment at at, one step per comparison  *)
(***************************************************************************)
curr == sb.seg_list[sb.at]
next == sb.seg_list[sb.at + 1]

Merging == sb.phase = "merge" /\ sb.at < Len(sb.seg_list)
Adjacent == SeqCompare(End(curr), next.seq) >= 0
NextInside == SeqCompare(End(next), End(curr)) <= 0

MergeContained ==
    /\ Merging /\ Adjacent /\ NextInside
    /\ sb' = Unqueue(sb, sb.at + 1)
    /\ UNCHANGED accepted

\* curr gets the part of next behind it; merged_len is stored in a uint16_t
Merged ==
    LET all == curr.pay \o Drop(next.pay, Sub(End(curr), next.seq))
    IN  [seq |-> curr.seq, pay |-> SubSeq(all, 1, Len(all) % LenMod)]

MergeNext ==
    /\ Merging /\ Adjacent /\ ~ NextInside
    /\ sb' = Unqueue([sb EXCEPT !.seg_list[sb.at] = Merged], sb.at + 1)
    /\ UNCHANGED accepted

\* not adjacent, or rte_malloc failed: curr = curr->next
MergeSkip ==
    /\ Merging /\ (Adjacent => ~ NextInside)
    /\ sb' = [sb EXCEPT !.at = @ + 1]
    /\ UNCHANGED accepted

MergeDone ==
    /\ sb.phase = "merge" /\ sb.at >= Len(sb.seg_list)
    /\ sb' = [sb EXCEPT !.phase = "process", !.at = 1]
    /\ UNCHANGED accepted

(***************************************************************************)
(* process_segment_queue: one step per turn of its loop                    *)
(***************************************************************************)
Processing == sb.phase = "process" /\ sb.seg_list # <<>>
head == Head(sb.seg_list)

\* (int32_t)(seg->seq - next_seq) > 0
Gap == SeqCompare(head.seq, sb.next_seq) > 0

\* an unexpected segment is thrown away
ProcessStale ==
    /\ Processing /\ head.seq # sb.next_seq /\ ~ Gap
    /\ sb' = Unqueue(sb, 1)
    /\ UNCHANGED accepted

ProcessHead ==
    /\ Processing /\ head.seq = sb.next_seq /\ Fits(head)
    /\ sb' = Unqueue(AppendData(sb, head), 1)
    /\ UNCHANGED accepted

\* the queue is empty, a gap, or the buffer is full
ProcessEnd ==
    /\ sb.phase = "process"
    /\ sb.seg_list # <<>> => Gap \/ (head.seq = sb.next_seq /\ ~ Fits(head))
    /\ sb' = [sb EXCEPT !.phase = "idle"]
    /\ UNCHANGED accepted

(***************************************************************************)
(* stream_buffer_consume: more than is there means all of it, and a queue  *)
(* that waits for room is processed                                        *)
(***************************************************************************)
AfterConsume_mut == "idle"
AfterConsume == IF sb.seg_list # <<>> THEN "process" ELSE "idle"

Consume(want) ==
    /\ Ready
    /\ LET n == IF want > Len(sb.data) THEN Len(sb.data) ELSE want
       IN  sb' = [sb EXCEPT !.data = Drop(@, n),
                            !.base_seq = Add(@, n),
                            !.phase = AfterConsume]
    /\ UNCHANGED accepted

InsertSegment(g) == InsertOld(g) \/ InsertInOrder(g) \/ InsertRefused(g) \/ InsertQueued(g)

InsertLoops ==
    \/ OverlapRemove \/ OverlapTrim \/ QueueInsert
    \/ MergeContained \/ MergeNext \/ MergeSkip \/ MergeDone
    \/ ProcessStale \/ ProcessHead \/ ProcessEnd

Next ==
    \/ \E isn \in Isns : BufferInit(isn)
    \/ BufferFree
    \/ \E g \in Segments : InsertSegment(g)
    \/ InsertLoops
    \/ \E n \in ConsumeLens : Consume(n)

Spec == Init /\ [][Next]_vars

\* A call runs to its end.
LoopSpec == Spec /\ WF_vars(InsertLoops)

-----------------------------------------------------------------------------
(***************************************************************************)
(* Properties                                                              *)
(***************************************************************************)
Buffers ==
    [init : BOOLEAN, isn : Seqs, base_seq : Seqs, next_seq : Seqs,
     data : Seq(Seqs), seg_list : Seq(Segs), seg_count : Int,
     phase : {"idle", "overlap", "merge", "process"}, at : Nat \ {0}, new : Segs]

\* Every sequence number stays in its 32 bits, and the loops stay in the list.
TypeOK == sb \in Buffers /\ accepted \subseteq Seqs

\* next_seq is base_seq plus the data in the buffer, whatever insert,
\* process_segment_queue and consume did: they advance three fields apart.
SeqConsistent == sb.next_seq = Add(sb.base_seq, Len(sb.data))

\* The data fits the allocation of stream_buffer_init: no memcpy beyond it.
WithinBuffer == Len(sb.data) <= MaxBuffer

\* seg_count, which the limit is checked against, counts the list; with the
\* segment in hand the list stays within max_segments.
QueueBounded == sb.seg_count = Len(sb.seg_list) /\ sb.seg_count <= MaxSegments

\* The fields of a buffer agree with each other and keep their limits in
\* every state of every call.
BufferSound == TypeOK /\ SeqConsistent /\ WithinBuffer /\ QueueBounded

\* A byte is kept at the position it was sent for.
WellPlaced(seg) == \A i \in 1 .. Len(seg.pay) : seg.pay[i] = Add(seg.seq, i - 1)

\* Every byte, delivered or queued, is at the position it was sent for: no
\* cut, trim, merge or append of a payload is off, also across the wrap of
\* the sequence space and when a merged length is truncated.
DataMatchesStream ==
    /\ WellPlaced([seq |-> sb.base_seq, pay |-> sb.data])
    /\ WellPlaced(sb.new)
    /\ \A i \in 1 .. Len(sb.seg_list) : WellPlaced(sb.seg_list[i])

\* The inductive invariant: the limit checked at the start of
\* insert_segment_queue still holds when the new segment is linked in.
RoomForNew == sb.phase = "overlap" => sb.seg_count < MaxSegments

IInv ==
    /\ TypeOK /\ SeqConsistent /\ WithinBuffer /\ QueueBounded
    /\ DataMatchesStream /\ RoomForNew

\* The list is sorted whenever process_segment_queue and try_merge_segments
\* look at its head, or at a segment and the one behind it.
QueueSorted ==
    sb.phase # "overlap" =>
        \A i, j \in 1 .. Len(sb.seg_list) :
            i < j => SeqCompare(sb.seg_list[i].seq, sb.seg_list[j].seq) <= 0

\* No queued segment has the sequence number and the length of the new one
\* when insert_segment_queue looks for a duplicate: it is always the newer
\* payload that stays.
DuplicateGone == OverlapDone => ~ Duplicate

\* The queue is sorted and the newest of equal segments is the one in it.
QueueOrdered == QueueSorted /\ DuplicateGone

\* After every call the head of the queue waits for a missing byte, or for
\* room in the buffer: nothing deliverable is left in the queue.
NothingDeliverable ==
    sb.phase = "idle" /\ sb.seg_list # <<>> =>
        Gap \/ (head.seq = sb.next_seq /\ ~ Fits(head))

\* Every call returns: no list, however its segments overlap, keeps one of
\* the three loops from ending.
LoopsTerminate == sb.phase # "idle" ~> sb.phase = "idle"

\* No byte that insert_segment accepted is lost: between calls it has been
\* delivered or it is in the queue.
NoDataLoss ==
    sb.phase = "idle" =>
        \A p \in accepted :
            \/ Sub(p, sb.isn) < Sub(sb.next_seq, sb.isn)
            \/ \E i \in 1 .. Len(sb.seg_list) : p \in Positions(sb.seg_list[i])

\* A byte is delivered with the call that closes the last gap before it: when
\* a call has returned, the first byte not delivered has not come, or heads the
\* queue in a segment the buffer has no room for.
PrefixDelivered ==
    sb.init /\ sb.phase = "idle" /\ sb.next_seq \in accepted =>
        sb.seg_list # <<>> /\ head.seq = sb.next_seq /\ ~ Fits(head)
=============================================================================
