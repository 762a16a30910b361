------------------------- MODULE StreamBufferProofs -------------------------
(***************************************************************************)
(* The safety of the reassembly buffer for every sequence space, buffer    *)
(* size, segment limit and every set of segments; for streams shorter than *)
(* half of the sequence space, the order of the queue; and that no byte is *)
(* lost or held back when the stream fits the buffer and is always cut at  *)
(* the same places.                                                        *)
(***************************************************************************)
EXTENDS StreamBuffer, WellFoundedInduction, TLAPS

-----------------------------------------------------------------------------
(* Arithmetic modulo m *)

LEMMA ModRange ==
  ASSUME NEW a \in Int, NEW m \in Nat \ {0}
  PROVE  a % m \in 0 .. m - 1
OBVIOUS

LEMMA ModDiv ==
  ASSUME NEW a \in Int, NEW m \in Nat \ {0}
  PROVE  a = m * (a \div m) + (a % m)
OBVIOUS

LEMMA SmallMultiple ==
  ASSUME NEW m \in Nat \ {0}, NEW k \in Int, m * k < m, m * k > 0 - m
  PROVE  m * k = 0
<1>1. k >= 1 => m * k >= m
  OBVIOUS
<1>2. k <= -1 => m * k <= -m
  OBVIOUS
<1> QED BY <1>1, <1>2

\* Numbers that differ by a multiple of m are equal modulo m.
LEMMA ModCong ==
  ASSUME NEW m \in Nat \ {0}, NEW a \in Int, NEW b \in Int, NEW k \in Int, a = b + m * k
  PROVE  a % m = b % m
<1> DEFINE q == a \div m
           r == b \div m
           u == a % m
           v == b % m
<1>1. a = m * q + u /\ b = m * r + v
  BY ModDiv
<1>2. q \in Int /\ r \in Int /\ u \in 0 .. m - 1 /\ v \in 0 .. m - 1
  BY ModRange
<1> HIDE DEF q, r, u, v
<1> DEFINE j == k + r - q
<1>3. m * j = m * k + m * r - m * q
  BY <1>2
<1>4. m * j = u - v
  BY <1>1, <1>2, <1>3
<1>5. j \in Int
  BY <1>2
<1> HIDE DEF j
<1>6. m * j = 0
  BY <1>2, <1>4, <1>5, SmallMultiple
<1> QED BY <1>2, <1>4, <1>6 DEF u, v

LEMMA ModAdd ==
  ASSUME NEW m \in Nat \ {0}, NEW a \in Int, NEW b \in Int
  PROVE  /\ ((a % m) + b) % m = (a + b) % m
         /\ (b - (a % m)) % m = (b - a) % m
<1> DEFINE q == a \div m
           u == a % m
<1>1. a = m * q + u /\ q \in Int /\ u \in Int
  BY ModDiv, ModRange
<1> HIDE DEF q, u
<1>2. u + b = (a + b) + m * (-q) /\ b - u = (b - a) + m * q
  BY <1>1
<1>3. u + b \in Int /\ a + b \in Int /\ b - u \in Int /\ b - a \in Int /\ -q \in Int
  BY <1>1
<1>4. (u + b) % m = (a + b) % m
  BY <1>2, <1>3, ModCong
<1>5. (b - u) % m = (b - a) % m
  <2>1. b - u = (b - a) + m * q
    BY <1>2
  <2>2. b - u \in Int /\ b - a \in Int /\ q \in Int
    BY <1>1, <1>3
  <2> QED BY <2>1, <2>2, ModCong, Zenon
<1> QED BY <1>4, <1>5 DEF u

LEMMA ModSmaller ==
  ASSUME NEW m \in Nat \ {0}, NEW a \in Nat
  PROVE  a % m \in Nat /\ a % m <= a
<1> DEFINE q == a \div m
           u == a % m
<1>1. a = m * q + u /\ q \in Int /\ u \in 0 .. m - 1
  BY ModDiv, ModRange
<1> HIDE DEF q, u
<1>2. q <= -1 => m * q <= -m
  BY <1>1
<1>3. q >= 0
  BY <1>1, <1>2
<1>4. m * q >= 0
  BY <1>1, <1>3
<1> QED BY <1>1, <1>4 DEF u

LEMMA AddType == ASSUME NEW s \in Int, NEW n \in Int PROVE Add(s, n) \in Seqs /\ Sub(s, n) \in Seqs
BY ModRange, StreamAssumption DEF Add, Sub, Seqs

LEMMA AddAdd == ASSUME NEW s \in Int, NEW m \in Int, NEW n \in Int
                PROVE  Add(Add(s, m), n) = Add(s, m + n)
<1>1. s + m \in Int /\ SeqSpace \in Nat \ {0}
  BY StreamAssumption
<1>2. (((s + m) % SeqSpace) + n) % SeqSpace = ((s + m) + n) % SeqSpace
  BY <1>1, ModAdd, Zenon
<1>3. (s + m) + n = s + (m + n)
  OBVIOUS
<1> QED BY <1>2, <1>3 DEF Add

LEMMA AddZero == ASSUME NEW s \in Seqs PROVE Add(s, 0) = s
BY StreamAssumption DEF Add, Seqs

LEMMA AddSub == ASSUME NEW s \in Seqs, NEW t \in Seqs, NEW n \in Int
                PROVE  Add(s, Sub(t, s) + n) = Add(t, n)
<1>1. s \in Int /\ t \in Int /\ t - s \in Int /\ s + n \in Int /\ SeqSpace \in Nat \ {0}
  BY StreamAssumption DEF Seqs
<1>2. (((t - s) % SeqSpace) + (s + n)) % SeqSpace = ((t - s) + (s + n)) % SeqSpace
  BY ModAdd, <1>1, Zenon
<1>3. Sub(t, s) \in Int
  BY AddType, <1>1, StreamAssumption DEF Seqs
<1>4. (t - s) + (s + n) = t + n
  BY <1>1
<1>5. s + (Sub(t, s) + n) = Sub(t, s) + (s + n)
  BY <1>1, <1>3
<1> QED BY <1>2, <1>4, <1>5 DEF Add, Sub

-----------------------------------------------------------------------------
(* Segments whose bytes are where they were sent *)

SegOK(seg) == seg \in Segs /\ WellPlaced(seg)

LEMMA SeqsInt == ASSUME NEW s \in Seqs PROVE s \in Int
BY StreamAssumption DEF Seqs

LEMMA DropType ==
  ASSUME NEW p \in Seq(Seqs), NEW n \in Nat
  PROVE  /\ Drop(p, n) \in Seq(Seqs)
         /\ \A i \in 1 .. Len(Drop(p, n)) : i + n \in 1 .. Len(p) /\ Drop(p, n)[i] = p[i + n]
BY DEF Drop

LEMMA SubType == ASSUME NEW s \in Seqs, NEW t \in Seqs PROVE Sub(s, t) \in Nat
BY AddType, SeqsInt, StreamAssumption DEF Seqs

LEMMA EndType == ASSUME NEW seg, SegOK(seg) PROVE End(seg) \in Seqs
BY AddType, SeqsInt DEF SegOK, Segs, End

\* A payload cut in front, under the sequence number of what is left.
LEMMA DropOK ==
  ASSUME NEW seg, SegOK(seg), NEW t \in Seqs
  PROVE  SegOK([seq |-> t, pay |-> Drop(seg.pay, Sub(t, seg.seq))])
<1> DEFINE n == Sub(t, seg.seq)
           p == Drop(seg.pay, n)
<1>1. seg.seq \in Seqs /\ seg.pay \in Seq(Seqs) /\ n \in Nat
  BY SubType DEF SegOK, Segs
<1>2. p \in Seq(Seqs) /\ \A i \in 1 .. Len(p) : i + n \in 1 .. Len(seg.pay) /\ p[i] = seg.pay[i + n]
  BY <1>1, DropType
<1>3. ASSUME NEW i \in 1 .. Len(p)
      PROVE  p[i] = Add(t, i - 1)
  <2>1. p[i] = Add(seg.seq, (i + n) - 1)
    BY <1>2, <1>3 DEF SegOK, WellPlaced
  <2>2. (i + n) - 1 = n + (i - 1) /\ i - 1 \in Int
    BY <1>1, <1>2
  <2>3. Add(seg.seq, n + (i - 1)) = Add(t, i - 1)
    BY <1>1, <2>2, AddSub
  <2> QED BY <2>1, <2>2, <2>3
<1> QED BY <1>2, <1>3 DEF SegOK, Segs, WellPlaced

\* A payload cut behind.
LEMMA PrefixOK ==
  ASSUME NEW seg, SegOK(seg), NEW n \in Nat, n <= Len(seg.pay)
  PROVE  SegOK([seq |-> seg.seq, pay |-> SubSeq(seg.pay, 1, n)])
<1>1. seg.seq \in Seqs /\ seg.pay \in Seq(Seqs)
  BY DEF SegOK, Segs
<1>2. SubSeq(seg.pay, 1, n) \in Seq(Seqs) /\ Len(SubSeq(seg.pay, 1, n)) = n
  BY <1>1
<1>3. \A i \in 1 .. n : SubSeq(seg.pay, 1, n)[i] = seg.pay[i] /\ i \in 1 .. Len(seg.pay)
  BY <1>1
<1> QED BY <1>1, <1>2, <1>3 DEF SegOK, Segs, WellPlaced

LEMMA ConcatType ==
  ASSUME NEW p \in Seq(Seqs), NEW q \in Seq(Seqs)
  PROVE  /\ p \o q \in Seq(Seqs)
         /\ Len(p) \in Nat /\ Len(q) \in Nat
         /\ Len(p \o q) = Len(p) + Len(q)
         /\ \A i \in 1 .. Len(p) : (p \o q)[i] = p[i]
         /\ \A i \in 1 .. Len(q) : (p \o q)[Len(p) + i] = q[i]
OBVIOUS

\* A payload appended to the segment it follows.
LEMMA ConcatOK ==
  ASSUME NEW a, SegOK(a), NEW b, SegOK(b), b.seq = End(a)
  PROVE  SegOK([seq |-> a.seq, pay |-> a.pay \o b.pay])
<1> DEFINE pa == a.pay
           pb == b.pay
           p == pa \o pb
           s == a.seq
<1>1. s \in Seqs /\ pa \in Seq(Seqs) /\ pb \in Seq(Seqs) /\ s \in Int
  BY SeqsInt DEF SegOK, Segs
<1>2. /\ \A i \in 1 .. Len(pa) : pa[i] = Add(s, i - 1)
      /\ \A i \in 1 .. Len(pb) : pb[i] = Add(Add(s, Len(pa)), i - 1)
  BY DEF SegOK, WellPlaced, End
<1> HIDE DEF pa, pb, s
<1>3. /\ p \in Seq(Seqs) /\ Len(pa) \in Nat /\ Len(pb) \in Nat
      /\ Len(p) = Len(pa) + Len(pb)
      /\ \A i \in 1 .. Len(pa) : p[i] = pa[i]
      /\ \A i \in 1 .. Len(pb) : p[Len(pa) + i] = pb[i]
  BY <1>1, ConcatType
<1> HIDE DEF p
<1>4. ASSUME NEW i \in 1 .. Len(p)
      PROVE  p[i] = Add(s, i - 1)
  <2>1. CASE i \in 1 .. Len(pa)
    BY <1>2, <1>3, <2>1
  <2>2. CASE i \notin 1 .. Len(pa)
    <3>1. PICK k \in 1 .. Len(pb) : i = Len(pa) + k
      <4>1. i - Len(pa) \in 1 .. Len(pb) /\ i = Len(pa) + (i - Len(pa))
        BY <1>3, <2>2
      <4> QED BY <4>1
    <3>2. p[i] = Add(Add(s, Len(pa)), k - 1)
      BY <1>2, <1>3, <3>1
    <3>3. k - 1 \in Int /\ Len(pa) \in Int /\ Len(pa) + (k - 1) = i - 1
      BY <1>3, <3>1
    <3>4. Add(Add(s, Len(pa)), k - 1) = Add(s, Len(pa) + (k - 1))
      BY <1>1, <3>3, AddAdd, Zenon
    <3> QED BY <3>2, <3>3, <3>4
  <2> QED BY <2>1, <2>2
<1> QED BY <1>1, <1>3, <1>4 DEF SegOK, Segs, WellPlaced, p, s, pa, pb

LEMMA CutBeforeOK ==
  ASSUME NEW seg, SegOK(seg), NEW t \in Seqs
  PROVE  SegOK(CutBefore(seg, t))
BY DropOK DEF CutBefore

\* A point after the start of a segment and before its end is within its
\* length, whatever the length.
LEMMA InsideLength ==
  ASSUME NEW c, SegOK(c), NEW s \in Seqs, SeqCompare(s, c.seq) > 0, SeqCompare(s, End(c)) < 0
  PROVE  Sub(s, c.seq) <= Len(c.pay)
<1> DEFINE L == Len(c.pay)
           d == Sub(s, c.seq)
<1>1. s \in Int /\ c.seq \in Int /\ L \in Nat /\ SeqSpace \in Nat \ {0} /\ c.seq \in Seqs
  BY SeqsInt, StreamAssumption DEF SegOK, Segs
<1>2. d \in Nat /\ d < SeqSpace /\ 2 * d < SeqSpace
  <2>1. d \in Seqs
    BY <1>1, AddType, Zenon
  <2>2. ~ (2 * d >= SeqSpace)
    BY DEF SeqCompare
  <2> QED BY <1>1, <2>1, <2>2 DEF Seqs
<1>3. 2 * Sub(s, End(c)) >= SeqSpace
  BY DEF SeqCompare
<1>4. Sub(s, End(c)) = (d - L) % SeqSpace
  <2>1. c.seq + L \in Int /\ s - c.seq \in Int /\ -L \in Int
    BY <1>1
  <2>2. (s - ((c.seq + L) % SeqSpace)) % SeqSpace = (s - (c.seq + L)) % SeqSpace
    BY <1>1, <2>1, ModAdd, Zenon
  <2>3. (((s - c.seq) % SeqSpace) + (-L)) % SeqSpace = ((s - c.seq) + (-L)) % SeqSpace
    BY <1>1, <2>1, ModAdd, Zenon
  <2>4. s - (c.seq + L) = (s - c.seq) + (-L)
    BY <1>1
  <2>5. d + (-L) = d - L
    BY <1>1, <1>2
  <2> QED BY <2>2, <2>3, <2>4, <2>5 DEF Sub, End, Add
<1>5. SUFFICES ASSUME d > L PROVE FALSE
  BY <1>1, <1>2
<1>6. (d - L) % SeqSpace = d - L
  <2> HIDE DEF d, L
  <2> QED BY <1>1, <1>2, <1>5
<1> QED
  <2> HIDE DEF d, L
  <2> QED BY <1>1, <1>2, <1>3, <1>4, <1>5, <1>6

LEMMA TrimOK ==
  ASSUME NEW n, SegOK(n), NEW c, SegOK(c)
  PROVE  SegOK(Trim(n, c))
<1>1. CASE OverlapsStart(n, c)
  BY <1>1, EndType, DropOK DEF Trim
<1>2. CASE ~ OverlapsStart(n, c) /\ OverlapsEnd(n, c)
  <2> DEFINE k == Sub(n.seq, c.seq)
  <2>1. Trim(n, c) = [seq |-> c.seq, pay |-> SubSeq(c.pay, 1, k)]
    BY <1>2 DEF Trim, SegOK, Segs
  <2>2. n.seq \in Seqs /\ c.seq \in Seqs
    BY DEF SegOK, Segs
  <2>3. k <= Len(c.pay)
    BY <1>2, <2>2, InsideLength DEF OverlapsEnd
  <2> QED BY <2>1, <2>2, <2>3, SubType, PrefixOK
<1>3. CASE ~ OverlapsStart(n, c) /\ ~ OverlapsEnd(n, c)
  BY <1>3 DEF Trim
<1> QED BY <1>1, <1>2, <1>3

-----------------------------------------------------------------------------
(* Lists of such segments *)

QueueOK(q) == q \in Seq(Segs) /\ \A i \in 1 .. Len(q) : SegOK(q[i])

LEMMA RemoveOK ==
  ASSUME NEW q, QueueOK(q), NEW j \in 1 .. Len(q)
  PROVE  QueueOK(RemoveAt(q, j)) /\ Len(RemoveAt(q, j)) = Len(q) - 1
<1> DEFINE a == SubSeq(q, 1, j - 1)
           b == SubSeq(q, j + 1, Len(q))
<1>1. q \in Seq(Segs) /\ Len(q) \in Nat
  BY DEF QueueOK
<1>2. /\ a \in Seq(Segs) /\ Len(a) = j - 1
      /\ \A i \in 1 .. Len(a) : a[i] = q[i] /\ i \in 1 .. Len(q)
  BY <1>1
<1>3. /\ b \in Seq(Segs) /\ Len(b) = Len(q) - j
      /\ \A i \in 1 .. Len(b) : b[i] = q[i + j] /\ i + j \in 1 .. Len(q)
  BY <1>1
<1> HIDE DEF a, b
<1>4. a \o b \in Seq(Segs) /\ Len(a \o b) = Len(q) - 1
  <2>0. a \in Seq(Segs) /\ b \in Seq(Segs)
    BY <1>2, <1>3
  <2>1. a \o b \in Seq(Segs) /\ Len(a \o b) = Len(a) + Len(b)
    BY <2>0
  <2> QED BY <1>1, <1>2, <1>3, <2>1
<1>5. ASSUME NEW i \in 1 .. Len(a \o b) PROVE SegOK((a \o b)[i])
  <2>1. \/ i \in 1 .. Len(a) /\ (a \o b)[i] = a[i]
        \/ i - Len(a) \in 1 .. Len(b) /\ (a \o b)[i] = b[i - Len(a)]
    BY <1>1, <1>2, <1>3
  <2> QED BY <1>2, <1>3, <2>1 DEF QueueOK
<1> QED BY <1>4, <1>5 DEF RemoveAt, QueueOK, a, b

LEMMA InsertOK ==
  ASSUME NEW q, QueueOK(q), NEW j \in 1 .. Len(q) + 1, NEW seg, SegOK(seg)
  PROVE  QueueOK(InsertAt(q, j, seg)) /\ Len(InsertAt(q, j, seg)) = Len(q) + 1
<1> DEFINE a == SubSeq(q, 1, j - 1)
           b == SubSeq(q, j, Len(q))
           c == a \o <<seg>>
<1>1. q \in Seq(Segs) /\ Len(q) \in Nat /\ seg \in Segs
  BY DEF QueueOK, SegOK
<1>2. /\ a \in Seq(Segs) /\ Len(a) = j - 1
      /\ \A i \in 1 .. Len(a) : a[i] = q[i] /\ i \in 1 .. Len(q)
  BY <1>1
<1>3. /\ b \in Seq(Segs) /\ Len(b) = Len(q) - (j - 1)
      /\ \A i \in 1 .. Len(b) : b[i] = q[i + (j - 1)] /\ i + (j - 1) \in 1 .. Len(q)
  BY <1>1
<1> HIDE DEF a, b
<1>4. c \in Seq(Segs) /\ Len(c) = j
  BY <1>1, <1>2
<1>5. ASSUME NEW i \in 1 .. j PROVE SegOK(c[i])
  <2>1. CASE i = j
    BY <1>1, <1>2, <2>1
  <2>2. CASE i # j
    <3>1. i \in 1 .. Len(a) /\ c[i] = a[i]
      BY <1>1, <1>2, <2>2
    <3> QED BY <1>2, <3>1 DEF QueueOK
  <2> QED BY <2>1, <2>2
<1> HIDE DEF c
<1>6. c \o b \in Seq(Segs) /\ Len(c \o b) = Len(q) + 1
  <2>0. c \in Seq(Segs) /\ b \in Seq(Segs)
    BY <1>3, <1>4
  <2>1. c \o b \in Seq(Segs) /\ Len(c \o b) = Len(c) + Len(b)
    BY <2>0
  <2> QED BY <1>1, <1>3, <1>4, <2>1
<1>7. ASSUME NEW i \in 1 .. Len(c \o b) PROVE SegOK((c \o b)[i])
  <2>1. \/ i \in 1 .. j /\ (c \o b)[i] = c[i]
        \/ i - j \in 1 .. Len(b) /\ (c \o b)[i] = b[i - j]
    BY <1>1, <1>3, <1>4
  <2> QED BY <1>3, <1>5, <2>1 DEF QueueOK
<1> QED BY <1>6, <1>7 DEF InsertAt, QueueOK, a, b, c

LEMMA ReplaceOK ==
  ASSUME NEW q, QueueOK(q), NEW j \in 1 .. Len(q), NEW seg, SegOK(seg)
  PROVE  QueueOK([q EXCEPT ![j] = seg]) /\ Len([q EXCEPT ![j] = seg]) = Len(q)
BY DEF QueueOK, SegOK

-----------------------------------------------------------------------------
(* The parts a call is made of, on any buffer *)

BufferOK(b) ==
    /\ b \in Buffers
    /\ b.next_seq = Add(b.base_seq, Len(b.data))
    /\ Len(b.data) <= MaxBuffer
    /\ b.seg_count = Len(b.seg_list)
    /\ b.seg_count <= MaxSegments
    /\ b.phase = "overlap" => b.seg_count < MaxSegments
    /\ SegOK([seq |-> b.base_seq, pay |-> b.data])
    /\ SegOK(b.new)
    /\ QueueOK(b.seg_list)

LEMMA InvBufferOK == IInv <=> BufferOK(sb) /\ accepted \subseteq Seqs
<1> DEFINE d == [seq |-> sb.base_seq, pay |-> sb.data]
<1>1. ASSUME sb \in Buffers
      PROVE  /\ d \in Segs /\ sb.new \in Segs /\ sb.seg_list \in Seq(Segs)
             /\ \A i \in 1 .. Len(sb.seg_list) : sb.seg_list[i] \in Segs
  <2>1. /\ sb.new \in Segs /\ sb.seg_list \in Seq(Segs)
        /\ sb.base_seq \in Seqs /\ sb.data \in Seq(Seqs)
    BY <1>1 DEF Buffers
  <2>2. d \in Segs
    BY <2>1 DEF Segs
  <2> QED BY <2>1, <2>2
<1> HIDE DEF d
<1>2. DataMatchesStream <=> /\ WellPlaced(d) /\ WellPlaced(sb.new)
                            /\ \A i \in 1 .. Len(sb.seg_list) : WellPlaced(sb.seg_list[i])
  BY DEF DataMatchesStream, d
<1>3. sb \in Buffers => (DataMatchesStream <=> SegOK(d) /\ SegOK(sb.new) /\ QueueOK(sb.seg_list))
  BY <1>1, <1>2 DEF SegOK, QueueOK
<1> QED BY <1>3 DEF IInv, TypeOK, SeqConsistent, WithinBuffer, QueueBounded, RoomForNew, BufferOK, d

LEMMA NoSegOK == SegOK(NoSeg)
BY StreamAssumption DEF NoSeg, SegOK, Segs, WellPlaced, Seqs

LEMMA NoBufferOK == BufferOK(NoBuffer)
<1>1. SegOK([seq |-> 0, pay |-> <<>>])
  BY NoSegOK DEF NoSeg
<1>2. 0 \in Seqs /\ Add(0, 0) = 0
  BY StreamAssumption, AddZero DEF Seqs
<1>3. NoBuffer \in Buffers
  BY <1>2, NoSegOK DEF NoBuffer, Buffers, SegOK
<1> QED BY <1>1, <1>2, <1>3, NoSegOK, StreamAssumption DEF BufferOK, NoBuffer, QueueOK

LEMMA UnqueueOK ==
  ASSUME NEW b, BufferOK(b), NEW j \in 1 .. Len(b.seg_list)
  PROVE  BufferOK(Unqueue(b, j))
<1> DEFINE c == Unqueue(b, j)
           q == RemoveAt(b.seg_list, j)
<1>1. QueueOK(q) /\ Len(q) = Len(b.seg_list) - 1
  BY RemoveOK DEF BufferOK
<1> HIDE DEF q
<1>2. b \in Buffers /\ c = [b EXCEPT !.seg_list = q, !.seg_count = b.seg_count - 1]
  BY DEF BufferOK, Unqueue, q
<1>3. c \in Buffers
  <2>1. q \in Seq(Segs) /\ b.seg_count - 1 \in Int
    BY <1>1, <1>2 DEF Buffers, QueueOK
  <2> QED BY <1>2, <2>1 DEF Buffers
<1>4. /\ c.seg_list = q /\ c.seg_count = b.seg_count - 1 /\ c.base_seq = b.base_seq
      /\ c.next_seq = b.next_seq /\ c.data = b.data /\ c.new = b.new /\ c.phase = b.phase
  BY <1>2 DEF Buffers
<1>5. b.seg_count \in Int /\ MaxSegments \in Nat
  BY <1>2, StreamAssumption DEF Buffers
<1> HIDE DEF c
<1> QED BY <1>1, <1>3, <1>4, <1>5 DEF BufferOK, c

LEMMA AppendOK ==
  ASSUME NEW b, BufferOK(b), NEW seg, SegOK(seg), seg.seq = b.next_seq,
         Len(b.data) + Len(seg.pay) <= MaxBuffer
  PROVE  BufferOK(AppendData(b, seg))
<1> DEFINE c == AppendData(b, seg)
           d == b.data \o seg.pay
           a == [seq |-> b.base_seq, pay |-> b.data]
<1>1. /\ b \in Buffers /\ b.data \in Seq(Seqs) /\ seg.pay \in Seq(Seqs)
      /\ b.base_seq \in Seqs /\ b.next_seq \in Seqs
  BY DEF BufferOK, Buffers, SegOK, Segs
<1>2. d \in Seq(Seqs) /\ Len(d) = Len(b.data) + Len(seg.pay)
  BY <1>1, ConcatType
<1>3. SegOK([seq |-> b.base_seq, pay |-> d])
  <2>1. SegOK(a) /\ seg.seq = End(a)
    BY DEF BufferOK, End
  <2>2. SegOK([seq |-> a.seq, pay |-> a.pay \o seg.pay])
    BY <2>1, ConcatOK
  <2> QED BY <2>2
<1> HIDE DEF d
<1>4. Add(b.next_seq, Len(seg.pay)) = Add(b.base_seq, Len(d)) /\ Add(b.base_seq, Len(d)) \in Seqs
  <2>1. b.base_seq \in Int /\ Len(b.data) \in Int /\ Len(seg.pay) \in Int
    BY <1>1, SeqsInt
  <2>2. Add(Add(b.base_seq, Len(b.data)), Len(seg.pay)) = Add(b.base_seq, Len(b.data) + Len(seg.pay))
    BY <2>1, AddAdd, Zenon
  <2>3. b.next_seq = Add(b.base_seq, Len(b.data)) /\ Len(d) \in Int
    BY <1>2, <2>1 DEF BufferOK
  <2>4. Add(b.base_seq, Len(d)) \in Seqs
    BY <2>1, <2>3, AddType
  <2> QED BY <1>2, <2>2, <2>3, <2>4
<1>5. c = [b EXCEPT !.data = d, !.next_seq = Add(b.next_seq, Len(seg.pay))]
  BY <1>1 DEF AppendData, Buffers, d
<1>6. c \in Buffers
  <2> DEFINE n == Add(b.next_seq, Len(seg.pay))
  <2>1. b \in Buffers /\ d \in Seq(Seqs) /\ n \in Seqs /\ c = [b EXCEPT !.data = d, !.next_seq = n]
    BY <1>1, <1>2, <1>4, <1>5
  <2> HIDE DEF n, c
  <2> QED BY <2>1 DEF Buffers
<1>7. /\ c.seg_list = b.seg_list /\ c.seg_count = b.seg_count /\ c.base_seq = b.base_seq
      /\ c.next_seq = Add(b.next_seq, Len(seg.pay)) /\ c.data = d /\ c.new = b.new /\ c.phase = b.phase
  BY <1>1, <1>5 DEF Buffers
<1> HIDE DEF c
<1> QED BY <1>2, <1>3, <1>4, <1>6, <1>7 DEF BufferOK, c

\* A step that only moves on to another loop, or along one.
LEMMA PhaseOK ==
  ASSUME NEW b, BufferOK(b), NEW ph \in {"idle", "merge", "process"}
  PROVE  BufferOK([b EXCEPT !.phase = ph])
BY DEF BufferOK, Buffers

LEMMA MoveOK ==
  ASSUME NEW b, BufferOK(b), NEW k \in Nat \ {0}
  PROVE  BufferOK([b EXCEPT !.at = k])
BY DEF BufferOK, Buffers

LEMMA NewType ==
  ASSUME NEW b \in Buffers, NEW seg \in Segs, NEW k \in Nat \ {0},
         NEW ph \in {"idle", "overlap", "merge", "process"}
  PROVE  [b EXCEPT !.new = seg, !.phase = ph, !.at = k] \in Buffers
BY DEF Buffers

\* The start of insert_segment_queue, and of process_segment_queue.
LEMMA StartOK ==
  ASSUME NEW b, BufferOK(b)
  PROVE  /\ BufferOK([b EXCEPT !.phase = "process", !.at = 1])
         /\ \A seg : SegOK(seg) /\ b.seg_count < MaxSegments =>
                BufferOK([b EXCEPT !.new = seg, !.phase = "overlap", !.at = 1])
<1>1. ASSUME NEW seg, SegOK(seg), b.seg_count < MaxSegments
      PROVE  BufferOK([b EXCEPT !.new = seg, !.phase = "overlap", !.at = 1])
  <2> DEFINE c == [b EXCEPT !.new = seg, !.phase = "overlap", !.at = 1]
  <2>1. b \in Buffers /\ seg \in Segs
    BY <1>1 DEF BufferOK, SegOK
  <2>5. 1 \in Nat \ {0} /\ "overlap" \in {"idle", "overlap", "merge", "process"}
    OBVIOUS
  <2>2. c \in Buffers
    BY <2>1, <2>5, NewType, Zenon
  <2>3. /\ c.seg_list = b.seg_list /\ c.seg_count = b.seg_count /\ c.base_seq = b.base_seq
        /\ c.next_seq = b.next_seq /\ c.data = b.data /\ c.new = seg
    BY <2>1 DEF Buffers
  <2> HIDE DEF c
  <2>4. BufferOK(c)
    BY <1>1, <2>2, <2>3 DEF BufferOK
  <2> QED BY <2>4 DEF c
<1>2. BufferOK([b EXCEPT !.phase = "process", !.at = 1])
  <2>1. BufferOK([[b EXCEPT !.phase = "process"] EXCEPT !.at = 1])
    <3>1. "process" \in {"idle", "merge", "process"} /\ 1 \in Nat \ {0}
      OBVIOUS
    <3> QED BY <3>1, PhaseOK, MoveOK, Zenon
  <2>2. [[b EXCEPT !.phase = "process"] EXCEPT !.at = 1] = [b EXCEPT !.phase = "process", !.at = 1]
    BY DEF BufferOK, Buffers
  <2> QED BY <2>1, <2>2
<1> QED BY <1>1, <1>2

\* The j-th segment of the list takes another form.
LEMMA ReplaceSegOK ==
  ASSUME NEW b, BufferOK(b), NEW j \in 1 .. Len(b.seg_list), NEW seg, SegOK(seg)
  PROVE  BufferOK([b EXCEPT !.seg_list[j] = seg])
<1> DEFINE q == [b.seg_list EXCEPT ![j] = seg]
           c == [b EXCEPT !.seg_list = q]
<1>1. QueueOK(q) /\ Len(q) = Len(b.seg_list)
  BY ReplaceOK DEF BufferOK
<1> HIDE DEF q
<1>2. BufferOK(c)
  BY <1>1 DEF BufferOK, Buffers, QueueOK
<1> QED BY <1>2 DEF q, BufferOK, Buffers

-----------------------------------------------------------------------------
(* The invariant *)

LEMMA ArrivedOK ==
  ASSUME BufferOK(sb), NEW g \in Segments
  PROVE  SegOK(Arrived(g)) /\ Positions(Arrived(g)) \subseteq Seqs
<1> DEFINE s == Add(sb.isn, g.off)
           p == [i \in 1 .. g.len |-> Add(s, i - 1)]
<1>1. g.off \in Nat /\ g.len \in Nat /\ sb.isn \in Int
  BY SeqsInt, StreamAssumption DEF BufferOK, Buffers
<1>2. s \in Seqs /\ s \in Int
  <2>1. g.off \in Int
    BY <1>1
  <2> QED BY <1>1, <2>1, AddType, SeqsInt, Zenon
<1> HIDE DEF s
<1>3. \A i \in 1 .. g.len : Add(s, i - 1) \in Seqs
  BY <1>2, AddType
<1>4. p \in Seq(Seqs) /\ Len(p) = g.len /\ DOMAIN p = 1 .. g.len
  <2>1. \A i \in 1 .. g.len : p[i] \in Seqs
    BY <1>1, <1>3
  <2>2. DOMAIN p = 1 .. g.len /\ p = [i \in 1 .. g.len |-> p[i]]
    OBVIOUS
  <2> HIDE DEF p
  <2>3. p \in [1 .. g.len -> Seqs]
    BY <2>1, <2>2
  <2> QED BY <1>1, <2>2, <2>3
<1>5. \A i \in 1 .. g.len : p[i] = Add(s, i - 1)
  OBVIOUS
<1>6. Arrived(g) = [seq |-> s, pay |-> p]
  BY DEF Arrived, s
<1> HIDE DEF p
<1> QED BY <1>2, <1>3, <1>4, <1>5, <1>6 DEF SegOK, Segs, WellPlaced, Positions

LEMMA InWindowOK ==
  ASSUME BufferOK(sb), NEW g \in Segments
  PROVE  SegOK(InWindow(g)) /\ SegOK(CutBefore(InWindow(g), sb.next_seq))
BY ArrivedOK, CutBeforeOK DEF InWindow, BufferOK, Buffers

LEMMA InitOK == Init => IInv
BY NoBufferOK, InvBufferOK DEF Init

LEMMA InsertStepOK ==
  ASSUME BufferOK(sb), accepted \subseteq Seqs, NEW g \in Segments, InsertSegment(g)
  PROVE  BufferOK(sb') /\ accepted' \subseteq Seqs
<1>1. CASE InsertOld(g)
  BY <1>1, ArrivedOK DEF InsertOld, Accept
<1>2. CASE InsertInOrder(g)
  <2> DEFINE b == AppendData(sb, InWindow(g))
  <2>1. BufferOK(b)
    BY <1>2, InWindowOK, AppendOK DEF InsertInOrder, InOrder, Fits
  <2> HIDE DEF b
  <2>2. sb' = [b EXCEPT !.phase = "process"]
    BY <1>2 DEF InsertInOrder, b
  <2>3. BufferOK(sb')
    BY <2>1, <2>2, PhaseOK
  <2> QED BY <1>2, <2>3, ArrivedOK DEF InsertInOrder, Accept
<1>3. CASE InsertRefused(g)
  BY <1>3 DEF InsertRefused, Refuse, vars
<1>4. CASE InsertQueued(g)
  <2> DEFINE n == CutBefore(InWindow(g), sb.next_seq)
  <2>1. SegOK(n)
    BY InWindowOK
  <2> HIDE DEF n
  <2>2. sb' = [sb EXCEPT !.new = n, !.phase = "overlap", !.at = 1] /\ sb.seg_count < MaxSegments
    BY <1>4, StreamAssumption DEF InsertQueued, QueueFull, n, BufferOK, Buffers
  <2>3. BufferOK(sb')
    BY <2>1, <2>2, StartOK
  <2> QED BY <1>4, <2>3, ArrivedOK DEF InsertQueued, Accept
<1> QED BY <1>1, <1>2, <1>3, <1>4 DEF InsertSegment

LEMMA MergedOK ==
  ASSUME BufferOK(sb), Merging
  PROVE  SegOK(Merged)
<1> DEFINE tail == [seq |-> End(curr), pay |-> Drop(next.pay, Sub(End(curr), next.seq))]
           all == [seq |-> curr.seq, pay |-> curr.pay \o tail.pay]
           n == Len(all.pay) % LenMod
<1>1. SegOK(curr) /\ SegOK(next)
  <2>1. sb.at \in 1 .. Len(sb.seg_list) /\ sb.at + 1 \in 1 .. Len(sb.seg_list)
    BY DEF Merging, BufferOK, Buffers
  <2> QED BY <2>1 DEF curr, next, BufferOK, QueueOK
<1>2. SegOK(tail)
  BY <1>1, EndType, DropOK
<1>3. SegOK(all)
  BY <1>1, <1>2, ConcatOK
<1>4. Merged = [seq |-> all.seq, pay |-> SubSeq(all.pay, 1, n)]
  BY DEF Merged
<1> HIDE DEF all
<1>5. n \in Nat /\ n <= Len(all.pay)
  <2>1. Len(all.pay) \in Nat
    BY <1>3 DEF SegOK, Segs
  <2> QED BY <2>1, ModSmaller, StreamAssumption
<1> HIDE DEF n
<1> QED BY <1>3, <1>4, <1>5, PrefixOK

LEMMA Smallest ==
  ASSUME NEW T \in SUBSET Nat, T # {}
  PROVE  \E x \in T : \A y \in T : x <= y
<1> DEFINE R == OpToRel(<, Nat)
<1>1. PICK x \in T : \A y \in T : ~ (<<y, x>> \in R)
  BY NatLessThanWellFounded, WFMin
<1>2. ASSUME NEW y \in T PROVE x <= y
  <2>1. y < x => <<y, x>> \in R
    BY DEF OpToRel
  <2>2. x \in Nat /\ y \in Nat
    OBVIOUS
  <2> HIDE DEF R
  <2> QED BY <1>1, <2>1, <2>2
<1> QED BY <1>2

\* There is one place, and only one, for the new segment.
LEMMA PlaceType ==
  ASSUME BufferOK(sb)
  PROVE  /\ Place \in 1 .. Len(sb.seg_list) + 1
         /\ \A j \in 1 .. Place - 1 : SeqCompare(sb.new.seq, sb.seg_list[j].seq) >= 0
         /\ Place <= Len(sb.seg_list) => SeqCompare(sb.new.seq, sb.seg_list[Place].seq) < 0
<1> DEFINE q == sb.seg_list
           T == {i \in 1 .. Len(q) : SeqCompare(sb.new.seq, q[i].seq) < 0} \cup {Len(q) + 1}
           P(i) == /\ \A j \in 1 .. i - 1 : SeqCompare(sb.new.seq, q[j].seq) >= 0
                   /\ i <= Len(q) => SeqCompare(sb.new.seq, q[i].seq) < 0
<1>1. Len(q) \in Nat
  BY DEF BufferOK, Buffers
<1>2. PICK i \in T : \A y \in T : i <= y
  <2>1. T \in SUBSET Nat /\ T # {}
    BY <1>1
  <2> QED BY <2>1, Smallest
<1>3. i \in 1 .. Len(q) + 1 /\ i <= Len(q) + 1
  BY <1>1, <1>2
<1>4. ASSUME NEW j \in 1 .. i - 1 PROVE SeqCompare(sb.new.seq, q[j].seq) >= 0
  <2>1. j \in 1 .. Len(q) /\ ~ (i <= j)
    BY <1>1, <1>3
  <2>2. j \notin T
    BY <1>2, <2>1
  <2>3. SeqCompare(sb.new.seq, q[j].seq) \in Int
    BY DEF SeqCompare
  <2> QED BY <2>1, <2>2, <2>3
<1>5. i <= Len(q) => SeqCompare(sb.new.seq, q[i].seq) < 0
  BY <1>1, <1>2
<1>6. \E k \in 1 .. Len(q) + 1 : P(k)
  BY <1>3, <1>4, <1>5
<1>7. Place = CHOOSE k \in 1 .. Len(q) + 1 : P(k)
  BY DEF Place
<1> HIDE DEF P
<1>8. Place \in 1 .. Len(q) + 1 /\ P(Place)
  BY <1>6, <1>7
<1> QED BY <1>8 DEF P

LEMMA LoopStepOK ==
  ASSUME BufferOK(sb), InsertLoops
  PROVE  BufferOK(sb')
<1> DEFINE q == sb.seg_list
<1>0. sb.at \in Nat \ {0} /\ q \in Seq(Segs) /\ Len(q) \in Nat /\ SegOK(sb.new)
  BY DEF BufferOK, Buffers
<1>1. CASE OverlapRemove
  <2>1. sb.at \in 1 .. Len(q)
    BY <1>0, <1>1 DEF OverlapRemove
  <2> QED BY <1>1, <2>1, UnqueueOK DEF OverlapRemove
<1>2. CASE OverlapTrim
  <2> DEFINE seg == Trim(sb.new, q[sb.at])
             b == [sb EXCEPT !.seg_list[sb.at] = seg]
  <2>1. sb.at \in 1 .. Len(q)
    BY <1>0, <1>2 DEF OverlapTrim
  <2>2. SegOK(seg)
    BY <1>0, <2>1, TrimOK DEF BufferOK, QueueOK
  <2> HIDE DEF seg
  <2>3. BufferOK(b)
    BY <2>1, <2>2, ReplaceSegOK
  <2>4. sb' = [b EXCEPT !.at = sb.at + 1]
    BY <1>2, <2>1 DEF OverlapTrim, seg, BufferOK, Buffers
  <2>5. sb.at + 1 \in Nat \ {0}
    BY <1>0
  <2> HIDE DEF b
  <2> QED BY <2>3, <2>4, <2>5, MoveOK
<1>3. CASE QueueInsert
  <2> DEFINE c == InsertAt(q, Place, sb.new)
             ph == IF sb.seg_count + 1 > MergeAbove THEN "merge" ELSE "process"
  <2>1. QueueOK(c) /\ Len(c) = Len(q) + 1
    BY <1>0, PlaceType, InsertOK DEF BufferOK
  <2> HIDE DEF c
  <2>2. ph \in {"idle", "overlap", "merge", "process"} /\ ph # "overlap"
    OBVIOUS
  <2> HIDE DEF ph
  <2>3. sb' = [sb EXCEPT !.seg_list = c, !.seg_count = sb.seg_count + 1, !.phase = ph,
                         !.new = NoSeg, !.at = 1]
    BY <1>3 DEF QueueInsert, c, ph
  <2>4. sb.seg_count < MaxSegments /\ sb.seg_count \in Int /\ sb \in Buffers
    BY <1>3 DEF QueueInsert, OverlapDone, BufferOK, Buffers
  <2>5. /\ sb'.seg_list = c /\ sb'.seg_count = sb.seg_count + 1 /\ sb'.phase = ph
        /\ sb'.new = NoSeg /\ sb'.data = sb.data
        /\ sb'.base_seq = sb.base_seq /\ sb'.next_seq = sb.next_seq
    BY <2>3, <2>4 DEF Buffers
  <2>6. sb' \in Buffers
    <3>1. /\ c \in Seq(Segs) /\ sb.seg_count + 1 \in Int /\ NoSeg \in Segs /\ 1 \in Nat \ {0}
      BY <2>1, <2>4, NoSegOK DEF QueueOK, SegOK
    <3> QED BY <2>2, <2>3, <2>4, <3>1 DEF Buffers
  <2>7. sb.seg_count + 1 <= MaxSegments
    BY <2>4, StreamAssumption
  <2> QED BY <2>1, <2>2, <2>5, <2>6, <2>7, NoSegOK DEF BufferOK
<1>4. CASE MergeContained
  <2>1. sb.at + 1 \in 1 .. Len(q)
    BY <1>0, <1>4 DEF MergeContained, Merging
  <2> QED BY <1>4, <2>1, UnqueueOK DEF MergeContained
<1>5. CASE MergeNext
  <2> DEFINE b == [sb EXCEPT !.seg_list[sb.at] = Merged]
  <2>1. sb.at \in 1 .. Len(q) /\ sb.at + 1 \in 1 .. Len(q)
    BY <1>0, <1>5 DEF MergeNext, Merging
  <2>2. SegOK(Merged)
    BY <1>5, MergedOK DEF MergeNext
  <2>3. BufferOK(b)
    BY <2>1, <2>2, ReplaceSegOK
  <2>4. Len(b.seg_list) = Len(q)
    BY <1>0, <2>1 DEF BufferOK, Buffers
  <2>5. sb' = Unqueue(b, sb.at + 1)
    BY <1>5 DEF MergeNext
  <2> HIDE DEF b
  <2> QED BY <2>1, <2>3, <2>4, <2>5, UnqueueOK
<1>6. CASE MergeSkip
  <2>1. sb.at + 1 \in Nat \ {0} /\ sb' = [sb EXCEPT !.at = sb.at + 1]
    BY <1>0, <1>6 DEF MergeSkip
  <2> QED BY <2>1, MoveOK
<1>7. CASE MergeDone
  BY <1>7, StartOK DEF MergeDone
<1>8. CASE ProcessStale
  BY <1>0, <1>8, UnqueueOK DEF ProcessStale, Processing
<1>9. CASE ProcessHead
  <2> DEFINE b == AppendData(sb, head)
  <2>1. SegOK(head) /\ 1 \in 1 .. Len(q)
    BY <1>0, <1>9 DEF ProcessHead, Processing, head, BufferOK, QueueOK
  <2>2. BufferOK(b)
    BY <1>9, <2>1, AppendOK DEF ProcessHead, Fits
  <2>3. b.seg_list = q
    BY DEF AppendData, BufferOK, Buffers
  <2>4. sb' = Unqueue(b, 1)
    BY <1>9 DEF ProcessHead
  <2> HIDE DEF b
  <2> QED BY <2>1, <2>2, <2>3, <2>4, UnqueueOK
<1>10. CASE ProcessEnd
  BY <1>10, PhaseOK DEF ProcessEnd
<1> QED BY <1>1, <1>2, <1>3, <1>4, <1>5, <1>6, <1>7, <1>8, <1>9, <1>10 DEF InsertLoops

LEMMA ConsumeOK ==
  ASSUME BufferOK(sb), NEW want \in ConsumeLens, Consume(want)
  PROVE  BufferOK(sb')
<1> DEFINE n == IF want > Len(sb.data) THEN Len(sb.data) ELSE want
           ph == IF sb.seg_list # <<>> THEN "process" ELSE "idle"
           d == Drop(sb.data, n)
           t == Add(sb.base_seq, n)
<1>1. /\ sb \in Buffers /\ sb.data \in Seq(Seqs) /\ Len(sb.data) \in Nat
      /\ sb.base_seq \in Seqs /\ sb.base_seq \in Int
  BY SeqsInt DEF BufferOK, Buffers
<1>2. n \in Nat /\ n <= Len(sb.data)
  BY <1>1, StreamAssumption
<1> HIDE DEF n
<1>3. d \in Seq(Seqs) /\ Len(d) = Len(sb.data) - n
  BY <1>1, <1>2 DEF Drop
<1>4. t \in Seqs /\ Add(t, Len(d)) = sb.next_seq
  <2>1. n \in Int /\ Len(d) \in Int /\ n + Len(d) = Len(sb.data)
    BY <1>1, <1>2, <1>3
  <2>2. Add(Add(sb.base_seq, n), Len(d)) = Add(sb.base_seq, n + Len(d))
    BY <1>1, <2>1, AddAdd, Zenon
  <2>3. Add(sb.base_seq, n) \in Seqs
    BY <1>1, <2>1, AddType, Zenon
  <2> QED BY <2>1, <2>2, <2>3 DEF BufferOK
<1>5. SegOK([seq |-> t, pay |-> d])
  <2>1. \A i \in 1 .. Len(d) : i + n \in 1 .. Len(sb.data) /\ d[i] = sb.data[i + n]
    BY <1>1, <1>2, DropType
  <2>2. \A i \in 1 .. Len(sb.data) : sb.data[i] = Add(sb.base_seq, i - 1)
    BY DEF BufferOK, SegOK, WellPlaced
  <2>3. ASSUME NEW i \in 1 .. Len(d) PROVE d[i] = Add(t, i - 1)
    <3>1. d[i] = Add(sb.base_seq, (i + n) - 1)
      BY <2>1, <2>2
    <3>2. (i + n) - 1 = n + (i - 1) /\ i - 1 \in Int /\ n \in Int
      BY <1>2, <1>3
    <3>3. Add(Add(sb.base_seq, n), i - 1) = Add(sb.base_seq, n + (i - 1))
      BY <1>1, <3>2, AddAdd, Zenon
    <3> QED BY <3>1, <3>2, <3>3
  <2> HIDE DEF d, t
  <2> QED BY <1>3, <1>4, <2>3 DEF SegOK, Segs, WellPlaced
<1>6. sb' = [sb EXCEPT !.data = d, !.base_seq = t, !.phase = ph]
  BY DEF Consume, AfterConsume, n
<1>7. ph \in {"idle", "overlap", "merge", "process"} /\ ph # "overlap"
  OBVIOUS
<1> HIDE DEF d, t, ph
<1>8. sb' \in Buffers
  BY <1>1, <1>3, <1>4, <1>6, <1>7 DEF Buffers
<1>9. /\ sb'.seg_list = sb.seg_list /\ sb'.seg_count = sb.seg_count /\ sb'.phase = ph
      /\ sb'.new = sb.new /\ sb'.data = d /\ sb'.base_seq = t /\ sb'.next_seq = sb.next_seq
  BY <1>1, <1>6 DEF Buffers
<1>10. Len(d) <= MaxBuffer
  BY <1>1, <1>2, <1>3, StreamAssumption DEF BufferOK
<1> QED BY <1>4, <1>5, <1>7, <1>8, <1>9, <1>10 DEF BufferOK

LEMMA BufferInitOK ==
  ASSUME NEW isn \in Isns, BufferInit(isn)
  PROVE  BufferOK(sb')
<1>1. isn \in Seqs /\ Add(isn, 0) = isn
  BY AddZero, StreamAssumption DEF Seqs
<1>2. SegOK([seq |-> isn, pay |-> <<>>])
  BY <1>1 DEF SegOK, Segs, WellPlaced
<1>3. NoBuffer \in Buffers /\ BufferOK(NoBuffer)
  BY NoBufferOK DEF BufferOK
<1>4. sb' = [NoBuffer EXCEPT !.init = TRUE, !.isn = isn, !.base_seq = isn, !.next_seq = isn]
  BY DEF BufferInit
<1>5. sb' \in Buffers
  BY <1>1, <1>3, <1>4 DEF Buffers
<1>6. /\ sb'.seg_list = NoBuffer.seg_list /\ sb'.seg_count = NoBuffer.seg_count
      /\ sb'.phase = NoBuffer.phase /\ sb'.new = NoBuffer.new /\ sb'.data = <<>>
      /\ sb'.base_seq = isn /\ sb'.next_seq = isn
  BY <1>4 DEF NoBuffer
<1> QED BY <1>1, <1>2, <1>3, <1>5, <1>6, StreamAssumption DEF BufferOK

LEMMA NextOK == IInv /\ [Next]_vars => IInv'
<1> SUFFICES ASSUME BufferOK(sb), accepted \subseteq Seqs, [Next]_vars
             PROVE  BufferOK(sb') /\ accepted' \subseteq Seqs
  <2>1. IInv' <=> (BufferOK(sb) /\ accepted \subseteq Seqs)'
    BY InvBufferOK, PTL
  <2> QED BY <2>1, InvBufferOK DEF BufferOK, Buffers
<1>1. ASSUME NEW isn \in Isns, BufferInit(isn) PROVE BufferOK(sb') /\ accepted' \subseteq Seqs
  BY <1>1, BufferInitOK DEF BufferInit
<1>2. CASE BufferFree
  BY <1>2, NoBufferOK DEF BufferFree
<1>3. ASSUME NEW g \in Segments, InsertSegment(g) PROVE BufferOK(sb') /\ accepted' \subseteq Seqs
  BY <1>3, InsertStepOK
<1>4. CASE InsertLoops
  <2>1. accepted' = accepted
    BY <1>4 DEF InsertLoops, OverlapRemove, OverlapTrim, QueueInsert, MergeContained, MergeNext,
                MergeSkip, MergeDone, ProcessStale, ProcessHead, ProcessEnd
  <2> QED BY <1>4, <2>1, LoopStepOK
<1>5. ASSUME NEW n \in ConsumeLens, Consume(n) PROVE BufferOK(sb') /\ accepted' \subseteq Seqs
  BY <1>5, ConsumeOK DEF Consume, AfterConsume
<1>6. CASE UNCHANGED vars
  BY <1>6 DEF vars
<1> QED BY <1>1, <1>2, <1>3, <1>4, <1>5, <1>6 DEF Next

\* The buffer invariant: whatever segments arrive, in whatever order and
\* with whatever overlaps, and whenever data is consumed.
THEOREM StreamInvariant == Spec => []IInv
BY InitOK, NextOK, PTL DEF Spec

\* Every sequence number of a stream buffer stays in its 32 bits.
THEOREM StreamType == Spec => []TypeOK
BY StreamInvariant, PTL DEF IInv

\* next_seq, base_seq and data_len agree in every state of every call.
THEOREM StreamSeqConsistent == Spec => []SeqConsistent
BY StreamInvariant, PTL DEF IInv

\* No memcpy of insert_segment or process_segment_queue goes beyond the
\* buffer, and the queue never exceeds max_segments.
THEOREM StreamBounds == Spec => [](WithinBuffer /\ QueueBounded)
BY StreamInvariant, PTL DEF IInv

\* The fields of a buffer agree and keep their limits: what run
\* stream_overlap checks, for every stream, limit and sequence space.
THEOREM StreamSound == Spec => []BufferSound
BY StreamInvariant, PTL DEF IInv, BufferSound

\* Every delivered or queued byte is at the position it was sent for.
THEOREM StreamDataMatches == Spec => []DataMatchesStream
BY StreamInvariant, PTL DEF IInv

-----------------------------------------------------------------------------
(* What is left in the queue *)

\* How the parts of a buffer that a step writes leave its other parts.
LEMMA Fields ==
  ASSUME NEW b \in Buffers
  PROVE  /\ \A j : LET c == Unqueue(b, j) IN c.phase = b.phase /\ c.new = b.new /\ c.at = b.at
                                          /\ c.seg_list = RemoveAt(b.seg_list, j)
         /\ \A seg : LET c == AppendData(b, seg) IN c.phase = b.phase /\ c.seg_list = b.seg_list
BY DEF Buffers, Unqueue, AppendData

LEMMA DeliverableStep ==
  ASSUME TypeOK, NothingDeliverable, [Next]_vars
  PROVE  NothingDeliverable'
<1> USE DEF TypeOK
<1> SUFFICES ASSUME sb' # sb, sb'.phase = "idle", sb'.seg_list # <<>>
             PROVE  (Gap \/ (head.seq = sb.next_seq /\ ~ Fits(head)))'
  <2>1. CASE sb' = sb
    BY <2>1 DEF NothingDeliverable, Gap, head, Fits
  <2> QED BY <2>1 DEF NothingDeliverable
<1>1. ASSUME NEW isn \in Isns, BufferInit(isn) PROVE FALSE
  BY <1>1 DEF BufferInit, NoBuffer
<1>2. CASE BufferFree
  BY <1>2 DEF BufferFree, NoBuffer
<1>3. ASSUME NEW g \in Segments, InsertSegment(g) PROVE FALSE
  <2>1. CASE InsertInOrder(g)
    <3> DEFINE b == AppendData(sb, InWindow(g))
    <3>1. sb' = [b EXCEPT !.phase = "process"]
      BY <2>1 DEF InsertInOrder
    <3>2. b = [sb EXCEPT !.data = b.data, !.next_seq = b.next_seq]
      BY DEF AppendData, Buffers
    <3> HIDE DEF b
    <3>3. sb'.phase = "process"
      BY <3>1, <3>2 DEF Buffers
    <3> QED BY <3>3
  <2>2. CASE InsertQueued(g)
    BY <2>2 DEF InsertQueued, Buffers
  <2> QED BY <1>3, <2>1, <2>2 DEF InsertSegment, InsertOld, InsertRefused, Refuse, vars
<1>4. CASE InsertLoops
  <2>1. CASE OverlapRemove \/ MergeContained \/ ProcessStale
    BY <2>1, Fields DEF OverlapRemove, MergeContained, ProcessStale, Merging, Processing
  <2>2. CASE OverlapTrim \/ QueueInsert \/ MergeSkip \/ MergeDone
    BY <2>2 DEF OverlapTrim, QueueInsert, OverlapDone, MergeSkip, MergeDone, Merging, Buffers
  <2>3. CASE MergeNext
    <3> DEFINE b == [sb EXCEPT !.seg_list[sb.at] = Merged]
    <3>1. sb' = Unqueue(b, sb.at + 1) /\ sb.phase = "merge"
      BY <2>3 DEF MergeNext, Merging
    <3>2. b.phase = "merge"
      BY <3>1 DEF Buffers
    <3>3. sb'.phase = "merge"
      <4> HIDE DEF b
      <4> QED BY <3>1, <3>2 DEF Unqueue
    <3> QED BY <3>3
  <2>4. CASE ProcessHead
    <3> DEFINE b == AppendData(sb, head)
    <3>1. sb' = Unqueue(b, 1) /\ b.phase = "process"
      BY <2>4, Fields DEF ProcessHead, Processing
    <3>3. sb'.phase = "process"
      <4> HIDE DEF b
      <4> QED BY <3>1 DEF Unqueue
    <3> QED BY <3>3
  <2>5. CASE ProcessEnd
    BY <2>5 DEF ProcessEnd, Gap, head, Fits, Buffers
  <2> QED BY <1>4, <2>1, <2>2, <2>3, <2>4, <2>5 DEF InsertLoops
<1>5. ASSUME NEW n \in ConsumeLens, Consume(n) PROVE FALSE
  BY <1>5 DEF Consume, AfterConsume, Buffers
<1> QED BY <1>1, <1>2, <1>3, <1>4, <1>5 DEF Next, vars

\* process_segment_queue and stream_buffer_consume: when no call is running,
\* the head of the queue waits for a missing byte or for room in the buffer.
THEOREM StreamNothingDeliverable == Spec => []NothingDeliverable
<1>1. Init => NothingDeliverable
  BY DEF Init, NoBuffer, NothingDeliverable
<1> QED BY <1>1, StreamType, DeliverableStep, PTL DEF Spec
-----------------------------------------------------------------------------
(* What the module that drives a buffer needs of its calls *)

\* A buffer keeps its memory through insert_segment, and a loop only runs
\* while the call that started it does.
LEMMA InsertKeeps ==
  ASSUME TypeOK, NEW g, InsertSegment(g)
  PROVE  sb'.init = sb.init
<1> USE DEF TypeOK
<1>1. CASE InsertInOrder(g)
  <2> DEFINE d == sb.data \o InWindow(g).pay
             n == Add(sb.next_seq, Len(InWindow(g).pay))
             b == AppendData(sb, InWindow(g))
  <2>1. b = [sb EXCEPT !.data = d, !.next_seq = n]
    BY DEF AppendData
  <2>2. sb' = [b EXCEPT !.phase = "process"]
    BY <1>1 DEF InsertInOrder
  <2> HIDE DEF b, d, n
  <2> QED BY <2>1, <2>2 DEF Buffers
<1>2. CASE InsertQueued(g)
  BY <1>2 DEF InsertQueued, Buffers
<1> QED BY <1>1, <1>2 DEF InsertSegment, InsertOld, InsertRefused, Refuse, vars

LEMMA LoopKeeps ==
  ASSUME TypeOK, InsertLoops
  PROVE  sb'.init = sb.init /\ sb.phase # "idle" /\ accepted' = accepted
<1> USE DEF TypeOK
<1>0. ASSUME NEW b, NEW j, b \in Buffers, b.init = sb.init, sb' = Unqueue(b, j)
      PROVE  sb'.init = sb.init
  BY <1>0 DEF Unqueue, Buffers
<1>1. CASE OverlapRemove \/ MergeContained \/ ProcessStale
  BY <1>0, <1>1 DEF OverlapRemove, MergeContained, ProcessStale, Merging, Processing
<1>2. CASE OverlapTrim \/ QueueInsert \/ MergeSkip \/ MergeDone \/ ProcessEnd
  BY <1>2 DEF OverlapTrim, QueueInsert, OverlapDone, MergeSkip, MergeDone, Merging,
              ProcessEnd, Buffers
<1>3. CASE MergeNext
  <2> DEFINE b == [sb EXCEPT !.seg_list[sb.at] = Merged]
  <2>1. sb' = Unqueue(b, sb.at + 1) /\ sb.phase = "merge" /\ accepted' = accepted
    BY <1>3 DEF MergeNext, Merging
  <2>2. b.init = sb.init
    BY DEF Buffers
  <2> HIDE DEF b
  <2>3. sb'.init = b.init
    BY <2>1 DEF Unqueue
  <2> QED BY <2>1, <2>2, <2>3
<1>4. CASE ProcessHead
  <2> DEFINE b == AppendData(sb, head)
  <2>1. sb' = Unqueue(b, 1) /\ sb.phase = "process" /\ accepted' = accepted
    BY <1>4 DEF ProcessHead, Processing
  <2>2. b.init = sb.init
    BY DEF AppendData, Buffers
  <2> HIDE DEF b
  <2>3. sb'.init = b.init
    BY <2>1 DEF Unqueue
  <2> QED BY <2>1, <2>2, <2>3
<1> QED BY <1>1, <1>2, <1>3, <1>4 DEF InsertLoops
-----------------------------------------------------------------------------
(***************************************************************************)
(* The order of the queue.  SeqCompare orders sequence numbers only as     *)
(* long as they lie within half of the sequence space, so this part is     *)
(* about streams of at most M bytes, M below the half.                     *)
(***************************************************************************)
Short(M) == M \in Nat /\ 2 * M < SeqSpace /\ \A g \in Segments : g.off + g.len <= M

\* Without the modulus.
LEMMA SubCases ==
  ASSUME NEW s \in Seqs, NEW t \in Seqs
  PROVE  Sub(s, t) = IF s >= t THEN s - t ELSE s - t + SeqSpace
<1> DEFINE S == SeqSpace
<1>1. S \in Nat \ {0} /\ s \in 0 .. S - 1 /\ t \in 0 .. S - 1
  BY StreamAssumption DEF Seqs
<1>2. s >= t => (s - t) % S = s - t
  BY <1>1
<1>3. s < t => (s - t) % S = s - t + S
  <2>1. s - t = (s - t + S) + S * (-1)
    BY <1>1
  <2>2. s - t \in Int /\ s - t + S \in Int /\ -1 \in Int
    BY <1>1
  <2>3. (s - t) % S = (s - t + S) % S
    BY <1>1, <2>1, <2>2, ModCong
  <2>4. s < t => (s - t + S) % S = s - t + S
    BY <1>1
  <2> QED BY <2>3, <2>4
<1> QED BY <1>1, <1>2, <1>3 DEF Sub

LEMMA AddCases ==
  ASSUME NEW s \in Seqs, NEW n \in Nat, n < SeqSpace
  PROVE  Add(s, n) = IF s + n < SeqSpace THEN s + n ELSE s + n - SeqSpace
<1> DEFINE S == SeqSpace
<1>1. S \in Nat \ {0} /\ s \in 0 .. S - 1
  BY StreamAssumption DEF Seqs
<1>2. s + n < S => (s + n) % S = s + n
  BY <1>1
<1>3. s + n >= S => (s + n) % S = s + n - S
  <2>1. s + n = (s + n - S) + S * 1
    BY <1>1
  <2>2. s + n \in Int /\ s + n - S \in Int /\ 1 \in Int
    BY <1>1
  <2>3. (s + n) % S = (s + n - S) % S
    BY <1>1, <2>1, <2>2, ModCong
  <2>4. s + n >= S => (s + n - S) % S = s + n - S
    BY <1>1
  <2> QED BY <2>3, <2>4
<1> QED BY <1>1, <1>2, <1>3 DEF Add

\* SeqCompare orders what lies within half of the space after i by the
\* distance from i.
LEMMA Compare ==
  ASSUME NEW i \in Seqs, NEW s \in Seqs, NEW t \in Seqs,
         2 * Sub(s, i) < SeqSpace, 2 * Sub(t, i) < SeqSpace
  PROVE  /\ SeqCompare(s, t) < 0 <=> Sub(s, i) < Sub(t, i)
         /\ SeqCompare(s, t) <= 0 <=> Sub(s, i) <= Sub(t, i)
         /\ SeqCompare(s, t) > 0 <=> Sub(s, i) > Sub(t, i)
         /\ SeqCompare(s, t) >= 0 <=> Sub(s, i) >= Sub(t, i)
         /\ s = t <=> Sub(s, i) = Sub(t, i)
         /\ Sub(s, i) >= Sub(t, i) => Sub(s, t) = Sub(s, i) - Sub(t, i)
<1>1. SeqSpace \in Nat \ {0} /\ i \in 0 .. SeqSpace - 1 /\ s \in 0 .. SeqSpace - 1 /\ t \in 0 .. SeqSpace - 1
  BY StreamAssumption DEF Seqs
<1>2. /\ Sub(s, i) = IF s >= i THEN s - i ELSE s - i + SeqSpace
      /\ Sub(t, i) = IF t >= i THEN t - i ELSE t - i + SeqSpace
      /\ Sub(s, t) = IF s >= t THEN s - t ELSE s - t + SeqSpace
  BY SubCases
<1> QED BY <1>1, <1>2 DEF SeqCompare

LEMMA AddRel ==
  ASSUME NEW i \in Seqs, NEW s \in Seqs, NEW n \in Nat, Sub(s, i) + n < SeqSpace
  PROVE  Add(s, n) \in Seqs /\ Sub(Add(s, n), i) = Sub(s, i) + n
<1>1. SeqSpace \in Nat \ {0} /\ i \in 0 .. SeqSpace - 1 /\ s \in 0 .. SeqSpace - 1
  BY StreamAssumption DEF Seqs
<1>2. Sub(s, i) = IF s >= i THEN s - i ELSE s - i + SeqSpace
  BY SubCases
<1>3. n < SeqSpace
  BY <1>1, <1>2
<1>4. Add(s, n) = IF s + n < SeqSpace THEN s + n ELSE s + n - SeqSpace
  BY <1>3, AddCases
<1>5. Add(s, n) \in Seqs
  BY <1>1, <1>3, <1>4 DEF Seqs
<1>6. Sub(Add(s, n), i) = IF Add(s, n) >= i THEN Add(s, n) - i ELSE Add(s, n) - i + SeqSpace
  BY <1>5, SubCases
<1> QED BY <1>1, <1>2, <1>4, <1>5, <1>6

\* a segment within the first M bytes after i
Within(i, M, seg) == Sub(seg.seq, i) + Len(seg.pay) <= M

LEMMA RelTypes ==
  ASSUME NEW i \in Seqs, NEW M, Short(M), NEW seg \in Segs, Within(i, M, seg)
  PROVE  /\ seg.seq \in Seqs /\ seg.pay \in Seq(Seqs) /\ Len(seg.pay) \in Nat /\ Sub(seg.seq, i) \in Nat
         /\ End(seg) \in Seqs /\ Sub(End(seg), i) = Sub(seg.seq, i) + Len(seg.pay)
         /\ M \in Nat /\ 2 * M < SeqSpace /\ SeqSpace \in Nat
         /\ 2 * Sub(seg.seq, i) < SeqSpace /\ 2 * Sub(End(seg), i) < SeqSpace
<1>1. /\ seg.seq \in Seqs /\ seg.pay \in Seq(Seqs) /\ Len(seg.pay) \in Nat
      /\ M \in Nat /\ 2 * M < SeqSpace /\ SeqSpace \in Nat
  BY StreamAssumption DEF Segs, Short
<1>2. Sub(seg.seq, i) \in Nat
  BY <1>1, SubType
<1>3. Sub(seg.seq, i) + Len(seg.pay) < SeqSpace
  BY <1>1, <1>2 DEF Within
<1>4. End(seg) \in Seqs /\ Sub(End(seg), i) = Sub(seg.seq, i) + Len(seg.pay)
  BY <1>1, <1>3, AddRel DEF End
<1> QED BY <1>1, <1>2, <1>4 DEF Within

LEMMA CutWithin ==
  ASSUME NEW i \in Seqs, NEW M, Short(M), NEW seg \in Segs, Within(i, M, seg),
         NEW t \in Seqs, Sub(t, i) <= M
  PROVE  Within(i, M, CutBefore(seg, t))
<1>1. /\ seg.seq \in Seqs /\ seg.pay \in Seq(Seqs) /\ Len(seg.pay) \in Nat /\ Sub(seg.seq, i) \in Nat
      /\ M \in Nat /\ 2 * M < SeqSpace /\ SeqSpace \in Nat /\ 2 * Sub(seg.seq, i) < SeqSpace
  BY RelTypes
<1>2. Sub(t, i) \in Nat /\ 2 * Sub(t, i) < SeqSpace
  BY <1>1, SubType
<1>3. CASE SeqCompare(seg.seq, t) < 0
  <2> DEFINE n == Sub(t, seg.seq)
  <2>1. n = Sub(t, i) - Sub(seg.seq, i) /\ n \in Nat
    BY <1>1, <1>2, <1>3, Compare
  <2> HIDE DEF n
  <2>2. Len(Drop(seg.pay, n)) = IF n <= Len(seg.pay) THEN Len(seg.pay) - n ELSE 0
    BY <1>1, <2>1 DEF Drop
  <2>3. CutBefore(seg, t) = [seq |-> t, pay |-> Drop(seg.pay, n)]
    BY <1>3 DEF CutBefore, n
  <2>4. CutBefore(seg, t).seq = t /\ CutBefore(seg, t).pay = Drop(seg.pay, n)
    BY <2>3
  <2>5. Sub(seg.seq, i) + Len(seg.pay) <= M
    BY DEF Within
  <2>6. Sub(t, i) + Len(Drop(seg.pay, n)) <= M
    <3> DEFINE a == Sub(t, i)
               b == Sub(seg.seq, i)
               e == Len(seg.pay)
    <3>1. a \in Nat /\ b \in Nat /\ e \in Nat /\ M \in Nat /\ n = a - b /\ b + e <= M /\ a <= M
      BY <1>1, <1>2, <2>1, <2>5
    <3> HIDE DEF a, b, e
    <3> QED BY <2>2, <3>1 DEF a, b, e
  <2> QED BY <2>4, <2>6 DEF Within
<1> QED BY <1>3 DEF CutBefore

\* Trim moves the start of a segment only when it lies inside the new one,
\* and then to the end of the new one.
LEMMA TrimWithin ==
  ASSUME NEW i \in Seqs, NEW M, Short(M), NEW n \in Segs, Within(i, M, n),
         NEW c \in Segs, Within(i, M, c), NEW d, d = Trim(n, c)
  PROVE  /\ Within(i, M, d)
         /\ \/ d.seq = c.seq /\ ~ OverlapsStart(n, c)
            \/ /\ d.seq = End(n) /\ Sub(n.seq, i) < Sub(c.seq, i)
               /\ Sub(c.seq, i) < Sub(End(n), i) /\ OverlapsStart(n, c)
<1>1. /\ c.seq \in Seqs /\ c.pay \in Seq(Seqs) /\ Len(c.pay) \in Nat /\ Sub(c.seq, i) \in Nat
      /\ End(c) \in Seqs /\ Sub(End(c), i) = Sub(c.seq, i) + Len(c.pay)
      /\ M \in Nat /\ 2 * M < SeqSpace /\ SeqSpace \in Nat
      /\ 2 * Sub(c.seq, i) < SeqSpace /\ 2 * Sub(End(c), i) < SeqSpace
  BY RelTypes
<1>2. /\ n.seq \in Seqs /\ Sub(n.seq, i) \in Nat /\ Sub(End(n), i) \in Nat /\ End(n) \in Seqs
      /\ 2 * Sub(n.seq, i) < SeqSpace /\ 2 * Sub(End(n), i) < SeqSpace
  <2>1. /\ n.seq \in Seqs /\ Sub(n.seq, i) \in Nat /\ End(n) \in Seqs
        /\ 2 * Sub(n.seq, i) < SeqSpace /\ 2 * Sub(End(n), i) < SeqSpace
    BY RelTypes
  <2> QED BY <2>1, SubType
<1>3. CASE OverlapsStart(n, c)
  <2>1. /\ Sub(n.seq, i) < Sub(c.seq, i) /\ Sub(End(n), i) > Sub(c.seq, i)
        /\ Sub(End(n), i) < Sub(End(c), i)
    <3>1. SeqCompare(n.seq, c.seq) < 0 => Sub(n.seq, i) < Sub(c.seq, i)
      BY <1>1, <1>2, Compare
    <3>2. SeqCompare(End(n), c.seq) > 0 => Sub(End(n), i) > Sub(c.seq, i)
      BY <1>1, <1>2, Compare
    <3>3. SeqCompare(End(n), End(c)) < 0 => Sub(End(n), i) < Sub(End(c), i)
      BY <1>1, <1>2, Compare
    <3> QED BY <1>3, <3>1, <3>2, <3>3 DEF OverlapsStart
  <2> DEFINE k == Sub(End(n), c.seq)
  <2>2. k = Sub(End(n), i) - Sub(c.seq, i) /\ k \in Nat
    <3>1. Sub(End(n), i) >= Sub(c.seq, i) => k = Sub(End(n), i) - Sub(c.seq, i)
      BY <1>1, <1>2, Compare
    <3> HIDE DEF k
    <3> QED BY <1>1, <1>2, <2>1, <3>1
  <2> HIDE DEF k
  <2>3. Len(Drop(c.pay, k)) = Len(c.pay) - k
    BY <1>1, <1>2, <2>1, <2>2, SMTT(60) DEF Drop
  <2>4. d = [seq |-> End(n), pay |-> Drop(c.pay, k)]
    BY <1>3 DEF Trim, k
  <2>5. Sub(End(n), i) + (Len(c.pay) - k) <= M
    BY <1>1, <1>2, <2>1, <2>2, SMTT(60) DEF Within
  <2> QED BY <1>3, <2>1, <2>3, <2>4, <2>5 DEF Within
<1>4. CASE ~ OverlapsStart(n, c) /\ OverlapsEnd(n, c)
  <2> DEFINE k == Sub(n.seq, c.seq)
             p == SubSeq(c.pay, 1, k)
  <2>1. Sub(n.seq, i) > Sub(c.seq, i) /\ Sub(n.seq, i) < Sub(End(c), i)
    BY <1>1, <1>2, <1>4, Compare DEF OverlapsEnd
  <2>2. k = Sub(n.seq, i) - Sub(c.seq, i) /\ k \in Nat
    BY <1>1, <1>2, <2>1, Compare
  <2> HIDE DEF k
  <2>3. Len(p) = k /\ k <= Len(c.pay)
    BY <1>1, <1>2, <2>1, <2>2
  <2>4. d = [seq |-> c.seq, pay |-> p]
    BY <1>4 DEF Trim, k, Segs
  <2>5. Sub(c.seq, i) + k <= M
    BY <1>1, <2>2, <2>3 DEF Within
  <2> HIDE DEF p
  <2>6. d.seq = c.seq /\ Len(d.pay) = k
    BY <2>3, <2>4
  <2>7. Within(i, M, d)
    BY <2>5, <2>6 DEF Within
  <2> QED BY <1>4, <2>6, <2>7
<1>5. CASE ~ OverlapsStart(n, c) /\ ~ OverlapsEnd(n, c)
  <2>1. d = c
    BY <1>5, Zenon DEF Trim
  <2> QED BY <1>5, <2>1
<1> QED BY <1>3, <1>4, <1>5
LEMMA RemoveIndex ==
  ASSUME NEW q \in Seq(Segs), NEW j \in 1 .. Len(q)
  PROVE  LET r == RemoveAt(q, j)
         IN  /\ r \in Seq(Segs) /\ Len(r) = Len(q) - 1
             /\ \A k \in 1 .. Len(r) : r[k] = IF k < j THEN q[k] ELSE q[k + 1]
<1> DEFINE a == SubSeq(q, 1, j - 1)
           b == SubSeq(q, j + 1, Len(q))
<1>1. a \in Seq(Segs) /\ Len(a) = j - 1 /\ \A k \in 1 .. Len(a) : a[k] = q[k]
  OBVIOUS
<1>2. b \in Seq(Segs) /\ Len(b) = Len(q) - j /\ \A k \in 1 .. Len(b) : b[k] = q[k + j]
  OBVIOUS
<1>3. RemoveAt(q, j) = a \o b
  BY DEF RemoveAt
<1> HIDE DEF a, b
<1>4. a \o b \in Seq(Segs) /\ Len(a \o b) = Len(q) - 1
  <2>0. a \in Seq(Segs) /\ b \in Seq(Segs)
    BY <1>1, <1>2
  <2>1. a \o b \in Seq(Segs) /\ Len(a \o b) = Len(a) + Len(b)
    BY <2>0
  <2> QED BY <1>1, <1>2, <2>1
<1>5. ASSUME NEW k \in 1 .. Len(q) - 1
      PROVE  (a \o b)[k] = IF k < j THEN q[k] ELSE q[k + 1]
  <2>1. CASE k < j
    BY <1>1, <1>2, <2>1
  <2>2. CASE ~ (k < j)
    <3>1. (a \o b)[k] = b[k - Len(a)]
      BY <1>1, <1>2, <2>2
    <3>2. k - Len(a) \in 1 .. Len(b) /\ (k - Len(a)) + j = k + 1
      BY <1>1, <1>2, <2>2
    <3> QED BY <1>2, <2>2, <3>1, <3>2
  <2> QED BY <2>1, <2>2
<1> QED BY <1>3, <1>4, <1>5

LEMMA InsertIndex ==
  ASSUME NEW q \in Seq(Segs), NEW j \in 1 .. Len(q) + 1, NEW seg \in Segs
  PROVE  LET r == InsertAt(q, j, seg)
         IN  /\ r \in Seq(Segs) /\ Len(r) = Len(q) + 1
             /\ \A k \in 1 .. Len(r) : r[k] = IF k < j THEN q[k] ELSE IF k = j THEN seg ELSE q[k - 1]
<1> DEFINE a == SubSeq(q, 1, j - 1)
           b == SubSeq(q, j, Len(q))
           c == a \o <<seg>>
<1>1. a \in Seq(Segs) /\ Len(a) = j - 1 /\ \A k \in 1 .. Len(a) : a[k] = q[k]
  OBVIOUS
<1>2. b \in Seq(Segs) /\ Len(b) = Len(q) - (j - 1) /\ \A k \in 1 .. Len(b) : b[k] = q[k + (j - 1)]
  OBVIOUS
<1>3. InsertAt(q, j, seg) = c \o b
  BY DEF InsertAt
<1> HIDE DEF a, b
<1>4. c \in Seq(Segs) /\ Len(c) = j /\ c[j] = seg /\ \A k \in 1 .. j - 1 : c[k] = q[k]
  BY <1>1
<1> HIDE DEF c
<1>5. c \o b \in Seq(Segs) /\ Len(c \o b) = Len(q) + 1
  <2>0. c \in Seq(Segs) /\ b \in Seq(Segs)
    BY <1>2, <1>4
  <2>1. c \o b \in Seq(Segs) /\ Len(c \o b) = Len(c) + Len(b)
    BY <2>0
  <2> QED BY <1>2, <1>4, <2>1
<1>6. ASSUME NEW k \in 1 .. Len(q) + 1
      PROVE  (c \o b)[k] = IF k < j THEN q[k] ELSE IF k = j THEN seg ELSE q[k - 1]
  <2>1. CASE k <= j
    BY <1>2, <1>4, <2>1
  <2>2. CASE ~ (k <= j)
    <3>1. (c \o b)[k] = b[k - Len(c)]
      BY <1>2, <1>4, <2>2
    <3>2. k - Len(c) \in 1 .. Len(b) /\ (k - Len(c)) + (j - 1) = k - 1
      BY <1>2, <1>4, <2>2
    <3>3. b[k - Len(c)] = q[k - 1]
      BY <1>2, <3>2
    <3> QED BY <2>2, <3>1, <3>3
  <2> QED BY <2>1, <2>2
<1> QED BY <1>3, <1>5, <1>6

\* The distance of the j-th queued segment from the start of the stream.
Rel(b, j) == Sub(b.seg_list[j].seq, b.isn)

\* Everything in the buffer is within the first M bytes of the stream.
Span(b, M) ==
    /\ Sub(b.base_seq, b.isn) + Len(b.data) <= M
    /\ \A j \in 1 .. Len(b.seg_list) : Within(b.isn, M, b.seg_list[j])
    /\ b.phase = "overlap" => Within(b.isn, M, b.new)

\* The queue is sorted, except that while handle_queue_overlaps runs the
\* segments it has already cut start at the end of the new one, and those it
\* has still to look at may start inside the new one.
Ordered(b) ==
    \A i, j \in 1 .. Len(b.seg_list) : i < j =>
        \/ Rel(b, i) <= Rel(b, j)
        \/ /\ b.phase = "overlap" /\ i < b.at /\ b.at <= j
           /\ Rel(b, i) = Sub(End(b.new), b.isn) /\ Sub(b.new.seq, b.isn) < Rel(b, j)

\* Taking a segment out: in handle_queue_overlaps the one it looks at.
LEMMA RemoveOrder ==
  ASSUME NEW b \in Buffers, NEW c, NEW M, NEW j \in 1 .. Len(b.seg_list),
         b.phase = "overlap" => j = b.at,
         c.isn = b.isn, c.phase = b.phase, c.at = b.at, c.new = b.new,
         c.seg_list = RemoveAt(b.seg_list, j), Ordered(b),
         \A k \in 1 .. Len(b.seg_list) : Within(b.isn, M, b.seg_list[k])
  PROVE  Ordered(c) /\ \A k \in 1 .. Len(c.seg_list) : Within(c.isn, M, c.seg_list[k])
<1> DEFINE q == b.seg_list
           r == c.seg_list
           o(k) == IF k < j THEN k ELSE k + 1
<1>1. q \in Seq(Segs) /\ Len(q) \in Nat /\ b.at \in Nat \ {0}
  BY DEF Buffers
<1>2. Len(r) = Len(q) - 1 /\ \A k \in 1 .. Len(r) : r[k] = IF k < j THEN q[k] ELSE q[k + 1]
  BY <1>1, RemoveIndex
<1>3. \A k \in 1 .. Len(r) : o(k) \in 1 .. Len(q) /\ r[k] = q[o(k)]
  BY <1>1, <1>2
<1>4. \A k \in 1 .. Len(r) : Rel(c, k) = Rel(b, o(k))
  BY <1>3 DEF Rel
<1>5. ASSUME NEW i \in 1 .. Len(r), NEW k \in 1 .. Len(r), i < k
      PROVE  /\ o(i) < o(k)
             /\ b.phase = "overlap" /\ o(i) < b.at /\ b.at <= o(k) => i < b.at /\ b.at <= k
  BY <1>1, <1>2, <1>5
<1> HIDE DEF o, q, r
<1>6. ASSUME NEW i \in 1 .. Len(r), NEW k \in 1 .. Len(r), i < k
      PROVE  \/ Rel(c, i) <= Rel(c, k)
             \/ /\ c.phase = "overlap" /\ i < c.at /\ c.at <= k
                /\ Rel(c, i) = Sub(End(c.new), c.isn) /\ Sub(c.new.seq, c.isn) < Rel(c, k)
  <2>1. /\ o(i) \in 1 .. Len(q) /\ o(k) \in 1 .. Len(q) /\ o(i) < o(k)
        /\ Rel(c, i) = Rel(b, o(i)) /\ Rel(c, k) = Rel(b, o(k))
    BY <1>3, <1>4, <1>5, <1>6
  <2>2. \/ Rel(b, o(i)) <= Rel(b, o(k))
        \/ /\ b.phase = "overlap" /\ o(i) < b.at /\ b.at <= o(k)
           /\ Rel(b, o(i)) = Sub(End(b.new), b.isn) /\ Sub(b.new.seq, b.isn) < Rel(b, o(k))
    BY <2>1 DEF Ordered, q
  <2> QED BY <1>5, <1>6, <2>1, <2>2
<1> QED BY <1>3, <1>6 DEF Ordered, q, r
\* One turn of the loop of handle_queue_overlaps on a segment it keeps.
LEMMA TrimOrder ==
  ASSUME NEW M, Short(M), NEW b \in Buffers, Ordered(b), Span(b, M), b.phase = "overlap",
         b.at <= Len(b.seg_list), ~ Covers(b.new, b.seg_list[b.at]),
         NEW c, c.isn = b.isn, c.phase = "overlap", c.new = b.new, c.at = b.at + 1,
         c.seg_list = [b.seg_list EXCEPT ![b.at] = Trim(b.new, @)]
  PROVE  Ordered(c) /\ \A k \in 1 .. Len(c.seg_list) : Within(c.isn, M, c.seg_list[k])
<1> DEFINE q == b.seg_list
           at == b.at
           i0 == b.isn
           n == b.new
           d == Trim(n, q[at])
           N == Sub(n.seq, i0)
           E == Sub(End(n), i0)
<1>1. /\ q \in Seq(Segs) /\ at \in 1 .. Len(q) /\ Len(q) \in Nat /\ i0 \in Seqs /\ n \in Segs
      /\ q[at] \in Segs /\ Within(i0, M, n) /\ Within(i0, M, q[at])
  BY DEF Buffers, Span
<1>2. /\ Within(i0, M, d)
      /\ \/ d.seq = q[at].seq /\ ~ OverlapsStart(n, q[at])
         \/ /\ d.seq = End(n) /\ N < Sub(q[at].seq, i0)
            /\ Sub(q[at].seq, i0) < E /\ OverlapsStart(n, q[at])
  BY <1>1, TrimWithin
<1>3. \A k \in 1 .. Len(q) : c.seg_list[k] = IF k = at THEN d ELSE q[k]
  BY <1>1
<1>4. Len(c.seg_list) = Len(q)
  BY <1>1
<1> DEFINE x(k) == Sub(q[k].seq, i0)
           y(k) == Sub(c.seg_list[k].seq, i0)
<1>5. \A k \in 1 .. Len(q) : x(k) \in Nat /\ (k # at => y(k) = x(k))
  <2>0. \A k \in 1 .. Len(q) : q[k] \in Segs
    BY <1>1
  <2>1. \A k \in 1 .. Len(q) : q[k].seq \in Seqs
    BY <2>0 DEF Segs
  <2> QED BY <1>1, <1>3, <2>1, SubType
<1>6. /\ N \in Nat /\ E \in Nat /\ E >= N
      /\ y(at) = x(at) \/ (y(at) = E /\ N < x(at) /\ x(at) < E)
  <2>1. N \in Nat /\ E = N + Len(n.pay) /\ Len(n.pay) \in Nat
    BY <1>1, RelTypes
  <2>2. y(at) = Sub(d.seq, i0)
    BY <1>1, <1>3
  <2> QED BY <1>2, <2>1, <2>2
\* a segment that starts inside the new one is cut
<1>7. N < x(at) /\ x(at) < E => y(at) = E
  <2> SUFFICES ASSUME N < x(at), x(at) < E PROVE OverlapsStart(n, q[at])
    BY <1>1, <1>2, <1>3
  <2>1. /\ q[at].seq \in Seqs /\ End(q[at]) \in Seqs /\ n.seq \in Seqs /\ End(n) \in Seqs
        /\ 2 * x(at) < SeqSpace /\ 2 * Sub(End(q[at]), i0) < SeqSpace
        /\ 2 * N < SeqSpace /\ 2 * E < SeqSpace /\ Sub(End(q[at]), i0) \in Nat
    <3>1. /\ q[at].seq \in Seqs /\ End(q[at]) \in Seqs
          /\ 2 * x(at) < SeqSpace /\ 2 * Sub(End(q[at]), i0) < SeqSpace
      BY <1>1, RelTypes
    <3>2. /\ n.seq \in Seqs /\ End(n) \in Seqs /\ 2 * N < SeqSpace /\ 2 * E < SeqSpace
      BY <1>1, RelTypes
    <3> QED BY <1>1, <3>1, <3>2, SubType
  <2>2. SeqCompare(n.seq, q[at].seq) < 0 /\ SeqCompare(n.seq, q[at].seq) <= 0
    <3>1. SeqCompare(n.seq, q[at].seq) < 0
      BY <1>1, <2>1, Compare
    <3> QED BY <3>1 DEF SeqCompare
  <2>3. SeqCompare(End(n), q[at].seq) > 0
    BY <1>1, <2>1, Compare
  <2>4. ~ (SeqCompare(End(n), End(q[at])) >= 0)
    BY <2>2 DEF Covers
  <2>5. SeqCompare(End(n), End(q[at])) < 0
    BY <2>4 DEF SeqCompare
  <2> QED BY <2>2, <2>3, <2>5 DEF OverlapsStart
<1>8. \A i, k \in 1 .. Len(q) : i < k =>
         x(i) <= x(k) \/ (i < at /\ at <= k /\ x(i) = E /\ N < x(k))
  BY DEF Ordered, Rel
<1> HIDE DEF d, x, y, N, E, q, at
<1>9. ASSUME NEW i \in 1 .. Len(q), NEW k \in 1 .. Len(q), i < k
      PROVE  y(i) <= y(k) \/ (i < at + 1 /\ at + 1 <= k /\ y(i) = E /\ N < y(k))
  <2>0. at \in Nat /\ i \in Nat /\ k \in Nat /\ x(i) \in Nat /\ x(k) \in Nat /\ x(at) \in Nat
        /\ (i # at => y(i) = x(i)) /\ (k # at => y(k) = x(k))
    BY <1>1, <1>5
  <2>1. x(i) <= x(k) \/ (i < at /\ at <= k /\ x(i) = E /\ N < x(k))
    BY <1>8, <1>9
  <2>2. CASE i # at /\ k # at
    BY <1>9, <2>0, <2>1, <2>2
  <2>3. CASE k = at
    BY <1>6, <1>7, <1>9, <2>0, <2>1, <2>3
  <2>4. CASE i = at
    BY <1>6, <1>9, <2>0, <2>1, <2>4
  <2> QED BY <2>2, <2>3, <2>4
<1>10. Ordered(c)
  BY <1>4, <1>9 DEF Ordered, Rel, y, N, E, at
<1>11. \A k \in 1 .. Len(q) : Within(i0, M, c.seg_list[k])
  BY <1>2, <1>3 DEF Span, q, d
<1> QED BY <1>4, <1>10, <1>11 DEF q

\* The sorted insertion, once every queued segment has been looked at.
LEMMA InsertOrder ==
  ASSUME NEW M, Short(M), BufferOK(sb), Ordered(sb), Span(sb, M), OverlapDone,
         NEW c, c.isn = sb.isn, c.phase # "overlap", c.seg_list = InsertAt(sb.seg_list, Place, sb.new)
  PROVE  Ordered(c) /\ \A k \in 1 .. Len(c.seg_list) : Within(c.isn, M, c.seg_list[k])
<1> DEFINE q == sb.seg_list
           i0 == sb.isn
           n == sb.new
           N == Sub(n.seq, i0)
           P == Place
           x(k) == Sub(q[k].seq, i0)
           y(k) == Sub(c.seg_list[k].seq, i0)
<1>1. /\ q \in Seq(Segs) /\ Len(q) \in Nat /\ i0 \in Seqs /\ n \in Segs /\ Within(i0, M, n)
      /\ sb.phase = "overlap" /\ sb.at > Len(q) /\ sb.at \in Nat
  BY DEF BufferOK, Buffers, Span, OverlapDone
<1>2. P \in 1 .. Len(q) + 1
  BY PlaceType
<1>3. Len(c.seg_list) = Len(q) + 1
      /\ \A k \in 1 .. Len(q) + 1 :
            c.seg_list[k] = IF k < P THEN q[k] ELSE IF k = P THEN n ELSE q[k - 1]
  <2>1. c.seg_list = InsertAt(q, P, n)
    OBVIOUS
  <2> HIDE DEF P, q, n
  <2> QED BY <1>1, <1>2, <2>1, InsertIndex
<1>4. ASSUME NEW k \in 1 .. Len(q)
      PROVE  /\ x(k) \in Nat /\ q[k].seq \in Seqs /\ 2 * x(k) < SeqSpace /\ Within(i0, M, q[k])
  <2>1. q[k] \in Segs /\ Within(i0, M, q[k])
    BY <1>1 DEF Span
  <2> QED BY <1>1, <2>1, RelTypes
<1>5. N \in Nat /\ n.seq \in Seqs /\ 2 * N < SeqSpace
  BY <1>1, RelTypes
<1>6. ASSUME NEW k \in 1 .. Len(q), k < P PROVE x(k) <= N
  <2>1. SeqCompare(n.seq, q[k].seq) >= 0
    BY <1>2, <1>6, PlaceType
  <2>2. N >= x(k)
    BY <1>1, <1>4, <1>5, <2>1, Compare
  <2> QED BY <1>4, <1>5, <2>2
<1>7. P <= Len(q) => N <= x(P)
  <2> SUFFICES ASSUME P <= Len(q) PROVE N <= x(P)
    OBVIOUS
  <2>1. P \in 1 .. Len(q) /\ SeqCompare(n.seq, q[P].seq) < 0
    BY <1>1, <1>2, PlaceType
  <2>2. N < x(P)
    BY <1>1, <1>4, <1>5, <2>1, Compare
  <2> QED BY <1>4, <1>5, <2>1, <2>2
<1>8. \A i, k \in 1 .. Len(q) : i < k => x(i) <= x(k)
  BY <1>1 DEF Ordered, Rel
<1>9. \A k \in 1 .. Len(q) + 1 : y(k) = IF k < P THEN x(k) ELSE IF k = P THEN N ELSE x(k - 1)
  BY <1>3
<1>10. \A k \in 1 .. Len(q) : x(k) \in Nat
  BY <1>4
<1> HIDE DEF x, y, N, P, q
<1>11. ASSUME NEW i \in 1 .. Len(q) + 1, NEW k \in 1 .. Len(q) + 1, i < k
       PROVE  y(i) <= y(k)
  <2>1. CASE k < P
    BY <1>1, <1>2, <1>8, <1>9, <1>11, <2>1
  <2>2. CASE k = P
    BY <1>1, <1>2, <1>6, <1>9, <1>11, <2>2
  <2>3. CASE k > P /\ i < P
    <3>1. i \in 1 .. Len(q) /\ k - 1 \in 1 .. Len(q) /\ i < k - 1
      BY <1>1, <1>2, <1>11, <2>3
    <3> QED BY <1>2, <1>8, <1>9, <1>11, <2>3, <3>1
  <2>4. CASE k > P /\ i = P
    <3>1. P \in 1 .. Len(q) /\ k - 1 \in 1 .. Len(q) /\ P <= k - 1 /\ N <= x(P)
      BY <1>1, <1>2, <1>7, <1>11, <2>4
    <3>2. x(P) <= x(k - 1)
      BY <1>8, <1>10, <3>1
    <3>3. y(i) = N /\ y(k) = x(k - 1)
      BY <1>2, <1>9, <2>4
    <3> QED BY <1>5, <1>10, <3>1, <3>2, <3>3
  <2>5. CASE k > P /\ i > P
    <3>1. i - 1 \in 1 .. Len(q) /\ k - 1 \in 1 .. Len(q) /\ i - 1 < k - 1
      BY <1>1, <1>2, <1>11, <2>5
    <3> QED BY <1>2, <1>8, <1>9, <1>11, <2>5, <3>1
  <2> QED BY <1>2, <2>1, <2>2, <2>3, <2>4, <2>5
<1>12. Ordered(c)
  BY <1>3, <1>11 DEF Ordered, Rel, y
<1>13. ASSUME NEW k \in 1 .. Len(q) + 1 PROVE Within(i0, M, c.seg_list[k])
  <2>1. k < P => k \in 1 .. Len(q)
    BY <1>1, <1>2
  <2>2. k > P => k - 1 \in 1 .. Len(q)
    BY <1>1, <1>2
  <2> QED BY <1>1, <1>2, <1>3, <1>4, <2>1, <2>2
<1> QED BY <1>3, <1>12, <1>13
\* try_merge_segments joins two segments that touch or overlap: the result
\* ends where the second one did, or before.
LEMMA MergedWithin ==
  ASSUME NEW M, Short(M), BufferOK(sb), Span(sb, M), Merging, Adjacent, ~ NextInside
  PROVE  Within(sb.isn, M, Merged) /\ Merged.seq = curr.seq
<1> DEFINE i0 == sb.isn
           c == curr
           x == next
           k == Sub(End(c), x.seq)
           tail == Drop(x.pay, k)
           all == c.pay \o tail
           m == Len(all) % LenMod
           p == SubSeq(all, 1, m)
<1>1. /\ i0 \in Seqs /\ c \in Segs /\ x \in Segs /\ Within(i0, M, c) /\ Within(i0, M, x)
  <2>1. sb.at \in 1 .. Len(sb.seg_list) /\ sb.at + 1 \in 1 .. Len(sb.seg_list)
        /\ sb.seg_list \in Seq(Segs) /\ i0 \in Seqs
    BY DEF Merging, BufferOK, Buffers
  <2> QED BY <2>1 DEF curr, next, Span
<1>2. /\ c.seq \in Seqs /\ c.pay \in Seq(Seqs) /\ Len(c.pay) \in Nat /\ Sub(c.seq, i0) \in Nat
      /\ End(c) \in Seqs /\ Sub(End(c), i0) = Sub(c.seq, i0) + Len(c.pay)
      /\ 2 * Sub(End(c), i0) < SeqSpace
  BY <1>1, RelTypes
<1>3. /\ x.seq \in Seqs /\ x.pay \in Seq(Seqs) /\ Len(x.pay) \in Nat /\ Sub(x.seq, i0) \in Nat
      /\ End(x) \in Seqs /\ Sub(End(x), i0) = Sub(x.seq, i0) + Len(x.pay)
      /\ 2 * Sub(x.seq, i0) < SeqSpace /\ 2 * Sub(End(x), i0) < SeqSpace /\ M \in Nat
  BY <1>1, RelTypes
<1>4. Sub(End(c), i0) >= Sub(x.seq, i0) /\ k = Sub(End(c), i0) - Sub(x.seq, i0)
  BY <1>1, <1>2, <1>3, Compare DEF Adjacent
<1>5. ~ (Sub(End(x), i0) <= Sub(End(c), i0))
  <2>1. SeqCompare(End(x), End(c)) <= 0 <=> Sub(End(x), i0) <= Sub(End(c), i0)
    BY <1>1, <1>2, <1>3, Compare
  <2> QED BY <2>1 DEF NextInside
<1>6. k \in Nat /\ k <= Len(x.pay)
  <2> DEFINE u == Sub(End(c), i0)
             v == Sub(x.seq, i0)
             w == Sub(End(x), i0)
             n == Len(x.pay)
  <2>1. /\ u \in Int /\ v \in Nat /\ n \in Nat /\ w = v + n
        /\ u >= v /\ k = u - v /\ ~ (w <= u)
    BY <1>2, <1>3, <1>4, <1>5
  <2> HIDE DEF u, v, w, n, k
  <2> QED BY <2>1 DEF n
<1>7. Merged = [seq |-> c.seq, pay |-> p]
  BY DEF Merged
<1> HIDE DEF k, c, x
<1>8. tail \in Seq(Seqs) /\ Len(tail) = Len(x.pay) - k
  BY <1>3, <1>6 DEF Drop
<1> HIDE DEF tail
<1>9. all \in Seq(Seqs) /\ Len(all) = Len(c.pay) + Len(tail)
  BY <1>2, <1>8, ConcatType
<1> HIDE DEF all
<1>10. m \in Nat /\ m <= Len(all)
  <2>1. Len(all) \in Nat /\ LenMod \in Nat \ {0}
    BY <1>9, StreamAssumption
  <2> QED BY <2>1, ModSmaller
<1> HIDE DEF m
<1>11. Len(p) = m
  BY <1>9, <1>10
<1> HIDE DEF p
<1>12. Sub(c.seq, i0) + m <= M
  <2>1. Len(all) = Len(c.pay) + (Len(x.pay) - k) /\ Len(all) \in Nat
    BY <1>8, <1>9
  <2>2. Sub(c.seq, i0) + Len(all) = Sub(x.seq, i0) + Len(x.pay)
    <3> DEFINE u == Sub(c.seq, i0)
               v == Sub(x.seq, i0)
               l == Len(c.pay)
               n == Len(x.pay)
               e == Len(all)
    <3>1. /\ u \in Nat /\ v \in Nat /\ l \in Nat /\ n \in Nat /\ k \in Nat
          /\ k = (u + l) - v /\ e = l + (n - k)
      BY <1>2, <1>3, <1>4, <1>6, <2>1
    <3> HIDE DEF u, v, l, n, e
    <3>2. u + e = v + n
      BY <3>1
    <3> QED BY <3>2 DEF u, v, n, e
  <2>3. Sub(x.seq, i0) + Len(x.pay) <= M
    BY <1>1 DEF Within
  <2> QED BY <1>2, <1>3, <1>10, <2>1, <2>2, <2>3
<1> QED BY <1>7, <1>11, <1>12 DEF Within, c

\* The sequence number the buffer waits for, seen from the start.
LEMMA NextRel ==
  ASSUME NEW M, Short(M), NEW b, BufferOK(b), Span(b, M)
  PROVE  /\ Sub(b.next_seq, b.isn) = Sub(b.base_seq, b.isn) + Len(b.data)
         /\ Sub(b.next_seq, b.isn) <= M /\ b.next_seq \in Seqs /\ b.isn \in Seqs
<1>1. /\ b.base_seq \in Seqs /\ b.isn \in Seqs /\ b.data \in Seq(Seqs) /\ Len(b.data) \in Nat
      /\ b.next_seq = Add(b.base_seq, Len(b.data)) /\ b.next_seq \in Seqs
  BY DEF BufferOK, Buffers
<1>2. Sub(b.base_seq, b.isn) \in Nat /\ M \in Nat /\ 2 * M < SeqSpace /\ SeqSpace \in Nat
  BY <1>1, SubType, StreamAssumption DEF Short
<1>3. Sub(b.base_seq, b.isn) + Len(b.data) < SeqSpace
  BY <1>1, <1>2 DEF Span
<1>4. Sub(b.next_seq, b.isn) = Sub(b.base_seq, b.isn) + Len(b.data)
  BY <1>1, <1>3, AddRel
<1> QED BY <1>1, <1>4 DEF Span

\* A payload appended at next_seq stays within the stream.
LEMMA AppendSpan ==
  ASSUME NEW M, Short(M), NEW b, BufferOK(b), Span(b, M), NEW seg \in Segs,
         Within(b.isn, M, seg), seg.seq = b.next_seq
  PROVE  LET c == AppendData(b, seg)
         IN  /\ Sub(c.base_seq, c.isn) + Len(c.data) <= M
             /\ c.isn = b.isn /\ c.seg_list = b.seg_list /\ c.phase = b.phase /\ c.at = b.at
             /\ c.new = b.new
<1> DEFINE c == AppendData(b, seg)
           d == b.data \o seg.pay
<1>1. b \in Buffers /\ b.data \in Seq(Seqs) /\ seg.pay \in Seq(Seqs) /\ b.base_seq \in Seqs /\ b.isn \in Seqs
  BY DEF BufferOK, Buffers, Segs
<1>2. Len(d) = Len(b.data) + Len(seg.pay) /\ Len(b.data) \in Nat /\ Len(seg.pay) \in Nat
  BY <1>1, ConcatType
<1> HIDE DEF d
<1>3. c.data = d /\ c.base_seq = b.base_seq /\ c.isn = b.isn /\ c.seg_list = b.seg_list
      /\ c.phase = b.phase /\ c.at = b.at /\ c.new = b.new
  BY <1>1 DEF AppendData, Buffers, d
<1>4. Sub(b.next_seq, b.isn) = Sub(b.base_seq, b.isn) + Len(b.data) /\ Sub(b.base_seq, b.isn) \in Nat
  BY <1>1, NextRel, SubType
<1>5. Sub(b.base_seq, b.isn) + Len(d) <= M
  <2>1. Sub(b.next_seq, b.isn) + Len(seg.pay) <= M
    BY DEF Within
  <2>2. Sub(b.base_seq, b.isn) + Len(d) = Sub(b.next_seq, b.isn) + Len(seg.pay)
    <3> DEFINE u == Sub(b.base_seq, b.isn)
               v == Sub(b.next_seq, b.isn)
               l == Len(b.data)
               n == Len(seg.pay)
               e == Len(d)
    <3>1. u \in Nat /\ l \in Nat /\ n \in Nat /\ v = u + l /\ e = l + n
      BY <1>2, <1>4
    <3> HIDE DEF u, v, l, n, e
    <3>2. u + e = v + n
      BY <3>1
    <3> QED BY <3>2 DEF u, v, n, e
  <2> QED BY <2>1, <2>2
<1> HIDE DEF c
<1> QED BY <1>3, <1>5 DEF c

\* What arrives is within the stream, and so is what is left of it.
LEMMA ArrivedWithin ==
  ASSUME NEW M, Short(M), BufferOK(sb), Span(sb, M), NEW g \in Segments
  PROVE  /\ InWindow(g) \in Segs /\ Within(sb.isn, M, InWindow(g))
         /\ Within(sb.isn, M, CutBefore(InWindow(g), sb.next_seq))
<1> DEFINE s == Add(sb.isn, g.off)
           a == Arrived(g)
<1>1. /\ g.off \in Nat /\ g.len \in Nat /\ sb.isn \in Seqs /\ sb.base_seq \in Seqs
      /\ M \in Nat /\ 2 * M < SeqSpace /\ g.off + g.len <= M /\ SeqSpace \in Nat \ {0}
  BY StreamAssumption DEF BufferOK, Buffers, Short
<1>2. Sub(sb.isn, sb.isn) = 0
  <2>1. sb.isn \in Int
    BY <1>1, SeqsInt
  <2> QED BY <1>1, <2>1, SubCases
<1>3. Sub(s, sb.isn) = g.off
  <2>1. Sub(sb.isn, sb.isn) + g.off < SeqSpace
    BY <1>1, <1>2
  <2>2. Sub(s, sb.isn) = Sub(sb.isn, sb.isn) + g.off
    BY <1>1, <2>1, AddRel
  <2> QED BY <1>1, <1>2, <2>2
<1>4. a \in Segs
  BY ArrivedOK DEF SegOK
<1>5. a.seq = s /\ Len(a.pay) = g.len
  BY <1>1 DEF Arrived
<1>6. Within(sb.isn, M, a)
  BY <1>1, <1>3, <1>5 DEF Within
<1>7. Sub(sb.base_seq, sb.isn) <= M
  <2>1. Sub(sb.base_seq, sb.isn) \in Nat /\ Len(sb.data) \in Nat
    BY <1>1, SubType DEF BufferOK, Buffers
  <2> QED BY <1>1, <2>1 DEF Span
<1>8. InWindow(g) \in Segs
  BY InWindowOK DEF SegOK
<1>9. Within(sb.isn, M, InWindow(g))
  BY <1>1, <1>4, <1>6, <1>7, CutWithin DEF InWindow
<1>10. Sub(sb.next_seq, sb.isn) <= M /\ sb.next_seq \in Seqs
  BY NextRel
<1> QED BY <1>1, <1>8, <1>9, <1>10, CutWithin
\* One step of the loops of an insertion keeps the queue in order.
LEMMA LoopOrder ==
  ASSUME NEW M, Short(M), BufferOK(sb), Span(sb, M), Ordered(sb), InsertLoops
  PROVE  Span(sb', M) /\ Ordered(sb')
<1> DEFINE q == sb.seg_list
<1>0. /\ sb \in Buffers /\ q \in Seq(Segs) /\ Len(q) \in Nat /\ sb.at \in Nat \ {0}
      /\ \A k \in 1 .. Len(q) : Within(sb.isn, M, q[k])
  BY DEF BufferOK, Buffers, Span
\* taking the j-th segment out of a buffer that is in order
<1>1. ASSUME NEW b, BufferOK(b), Span(b, M), Ordered(b), NEW j \in 1 .. Len(b.seg_list),
             b.phase = "overlap" => j = b.at, sb' = Unqueue(b, j)
      PROVE  Span(sb', M) /\ Ordered(sb')
  <2>0. b \in Buffers
    BY <1>1 DEF BufferOK
  <2>1. /\ sb'.isn = b.isn /\ sb'.phase = b.phase /\ sb'.at = b.at /\ sb'.new = b.new
        /\ sb'.base_seq = b.base_seq /\ sb'.data = b.data
        /\ sb'.seg_list = RemoveAt(b.seg_list, j)
    BY <1>1, <2>0 DEF Unqueue, Buffers
  <2>2. \A k \in 1 .. Len(b.seg_list) : Within(b.isn, M, b.seg_list[k])
    BY <1>1 DEF Span
  <2>3. Ordered(sb') /\ \A k \in 1 .. Len(sb'.seg_list) : Within(sb'.isn, M, sb'.seg_list[k])
    BY <1>1, <2>0, <2>1, <2>2, RemoveOrder
  <2> QED BY <1>1, <2>1, <2>3 DEF Span
\* leaving the queue alone
<1>2. ASSUME sb'.isn = sb.isn, sb'.base_seq = sb.base_seq, sb'.data = sb.data,
             sb'.seg_list = sb.seg_list, sb.phase # "overlap", sb'.phase # "overlap"
      PROVE  Span(sb', M) /\ Ordered(sb')
  BY <1>2 DEF Span, Ordered, Rel
<1>3. CASE OverlapRemove
  <2>1. sb.at \in 1 .. Len(q) /\ sb' = Unqueue(sb, sb.at)
    BY <1>0, <1>3 DEF OverlapRemove
  <2> QED BY <1>1, <2>1
<1>4. CASE OverlapTrim
  <2> DEFINE r == [q EXCEPT ![sb.at] = Trim(sb.new, @)]
  <2>1. /\ sb.phase = "overlap" /\ sb.at <= Len(q) /\ ~ Covers(sb.new, q[sb.at])
        /\ sb' = [sb EXCEPT !.seg_list = r, !.at = sb.at + 1]
    BY <1>0, <1>4 DEF OverlapTrim
  <2> HIDE DEF r
  <2>2. /\ sb'.isn = sb.isn /\ sb'.phase = "overlap" /\ sb'.new = sb.new /\ sb'.at = sb.at + 1
        /\ sb'.seg_list = r /\ sb'.base_seq = sb.base_seq /\ sb'.data = sb.data
    BY <1>0, <2>1 DEF Buffers
  <2>3. Ordered(sb') /\ \A k \in 1 .. Len(sb'.seg_list) : Within(sb'.isn, M, sb'.seg_list[k])
    BY <1>0, <2>1, <2>2, TrimOrder DEF r
  <2> QED BY <2>1, <2>2, <2>3 DEF Span
<1>5. CASE QueueInsert
  <2> DEFINE r == InsertAt(q, Place, sb.new)
             ph == IF sb.seg_count + 1 > MergeAbove THEN "merge" ELSE "process"
  <2>1. /\ sb' = [sb EXCEPT !.seg_list = r, !.seg_count = sb.seg_count + 1, !.phase = ph,
                            !.new = NoSeg, !.at = 1]
        /\ OverlapDone /\ ph # "overlap"
    BY <1>5 DEF QueueInsert
  <2> HIDE DEF r, ph
  <2>2. /\ sb'.isn = sb.isn /\ sb'.phase = ph /\ sb'.seg_list = r
        /\ sb'.base_seq = sb.base_seq /\ sb'.data = sb.data
    BY <1>0, <2>1 DEF Buffers
  <2>3. Ordered(sb') /\ \A k \in 1 .. Len(sb'.seg_list) : Within(sb'.isn, M, sb'.seg_list[k])
    BY <1>0, <2>1, <2>2, InsertOrder DEF r
  <2> QED BY <2>1, <2>2, <2>3 DEF Span
<1>6. CASE MergeContained
  <2>1. sb.at + 1 \in 1 .. Len(q) /\ sb' = Unqueue(sb, sb.at + 1) /\ sb.phase # "overlap"
    BY <1>0, <1>6 DEF MergeContained, Merging
  <2> QED BY <1>1, <2>1
<1>7. CASE MergeNext
  <2> DEFINE b == [sb EXCEPT !.seg_list[sb.at] = Merged]
             r == [q EXCEPT ![sb.at] = Merged]
  <2>0. /\ Merging /\ Adjacent /\ ~ NextInside /\ sb' = Unqueue(b, sb.at + 1)
        /\ sb.at \in 1 .. Len(q) /\ sb.at + 1 \in 1 .. Len(q) /\ sb.phase = "merge"
    BY <1>0, <1>7 DEF MergeNext, Merging
  <2>1. Within(sb.isn, M, Merged) /\ Merged.seq = q[sb.at].seq /\ SegOK(Merged)
    BY <2>0, MergedWithin, MergedOK DEF curr
  <2>2. BufferOK(b)
    BY <2>0, <2>1, ReplaceSegOK
  <2>3. /\ b.isn = sb.isn /\ b.phase = "merge" /\ b.base_seq = sb.base_seq /\ b.data = sb.data
        /\ b.seg_list = r
    BY <1>0, <2>0 DEF Buffers
  <2>4. Len(r) = Len(q) /\ \A k \in 1 .. Len(q) : r[k] = IF k = sb.at THEN Merged ELSE q[k]
    BY <1>0, <2>0
  <2> HIDE DEF b, r
  <2>5. \A k \in 1 .. Len(q) : r[k].seq = q[k].seq /\ Within(sb.isn, M, r[k])
    BY <1>0, <2>0, <2>1, <2>4
  <2>6. Span(b, M)
    BY <2>3, <2>4, <2>5 DEF Span
  <2>7. Ordered(b)
    BY <2>0, <2>3, <2>4, <2>5 DEF Ordered, Rel
  <2>8. sb.at + 1 \in 1 .. Len(b.seg_list)
    BY <2>0, <2>3, <2>4
  <2> QED BY <1>1, <2>0, <2>2, <2>3, <2>6, <2>7, <2>8
<1>8. CASE MergeSkip \/ MergeDone \/ ProcessEnd
  BY <1>0, <1>2, <1>8 DEF MergeSkip, MergeDone, ProcessEnd, Merging, Buffers
<1>9. CASE ProcessStale
  <2>1. 1 \in 1 .. Len(q) /\ sb' = Unqueue(sb, 1) /\ sb.phase # "overlap"
    BY <1>0, <1>9 DEF ProcessStale, Processing
  <2> QED BY <1>1, <2>1
<1>10. CASE ProcessHead
  <2> DEFINE b == AppendData(sb, head)
  <2>1. /\ 1 \in 1 .. Len(q) /\ sb' = Unqueue(b, 1) /\ sb.phase = "process"
        /\ head = q[1] /\ head.seq = sb.next_seq /\ Fits(head)
    BY <1>0, <1>10 DEF ProcessHead, Processing, head
  <2>2. SegOK(head) /\ head \in Segs /\ Within(sb.isn, M, head)
    BY <1>0, <2>1 DEF BufferOK, QueueOK
  <2>3. BufferOK(b)
    BY <2>1, <2>2, AppendOK DEF Fits
  <2>4. /\ Sub(b.base_seq, b.isn) + Len(b.data) <= M
        /\ b.isn = sb.isn /\ b.seg_list = sb.seg_list /\ b.phase = sb.phase
    BY <2>1, <2>2, AppendSpan
  <2> HIDE DEF b
  <2>5. Span(b, M) /\ Ordered(b)
    BY <1>0, <2>1, <2>4 DEF Span, Ordered, Rel
  <2> QED BY <1>1, <2>1, <2>3, <2>4, <2>5
<1> QED BY <1>3, <1>4, <1>5, <1>6, <1>7, <1>8, <1>9, <1>10 DEF InsertLoops

LEMMA CallOrder ==
  ASSUME NEW M, Short(M), BufferOK(sb), Span(sb, M), Ordered(sb),
         \/ \E isn \in Isns : BufferInit(isn)
         \/ BufferFree
         \/ \E g \in Segments : InsertSegment(g)
         \/ \E n \in ConsumeLens : Consume(n)
  PROVE  Span(sb', M) /\ Ordered(sb')
<1>0. sb \in Buffers /\ M \in Nat
  BY DEF BufferOK, Short
<1>1. ASSUME NEW i \in Seqs, sb'.base_seq = i, sb'.isn = i, sb'.data = <<>>, sb'.seg_list = <<>>,
             sb'.phase = "idle"
      PROVE  Span(sb', M) /\ Ordered(sb')
  <2>1. Sub(i, i) = 0
    BY SubCases, SeqsInt
  <2> QED BY <1>0, <1>1, <2>1 DEF Span, Ordered
<1>2. ASSUME NEW isn \in Isns, BufferInit(isn) PROVE Span(sb', M) /\ Ordered(sb')
  <2>1. isn \in Seqs
    BY StreamAssumption DEF Seqs
  <2> QED BY <1>1, <1>2, <2>1 DEF BufferInit, NoBuffer
<1>3. CASE BufferFree
  <2>1. 0 \in Seqs
    BY StreamAssumption DEF Seqs
  <2> QED BY <1>1, <1>3, <2>1 DEF BufferFree, NoBuffer
<1>4. ASSUME NEW g \in Segments, InsertSegment(g) PROVE Span(sb', M) /\ Ordered(sb')
  <2>0. /\ InWindow(g) \in Segs /\ Within(sb.isn, M, InWindow(g))
        /\ Within(sb.isn, M, CutBefore(InWindow(g), sb.next_seq))
    BY ArrivedWithin
  <2>1. CASE InsertInOrder(g)
    <3> DEFINE b == AppendData(sb, InWindow(g))
    <3>1. sb' = [b EXCEPT !.phase = "process"] /\ InWindow(g).seq = sb.next_seq /\ sb.phase = "idle"
      BY <2>1 DEF InsertInOrder, InOrder, Ready
    <3>2. /\ Sub(b.base_seq, b.isn) + Len(b.data) <= M
          /\ b.isn = sb.isn /\ b.seg_list = sb.seg_list
      BY <2>0, <3>1, AppendSpan
    <3>5. BufferOK(b)
      BY <2>1, InWindowOK, AppendOK DEF InsertInOrder, InOrder, Fits
    <3> HIDE DEF b
    <3>3. /\ sb'.base_seq = b.base_seq /\ sb'.isn = b.isn /\ sb'.data = b.data
          /\ sb'.seg_list = b.seg_list /\ sb'.phase = "process"
      BY <3>1, <3>5 DEF BufferOK, Buffers
    <3> QED BY <3>1, <3>2, <3>3 DEF Span, Ordered, Rel
  <2>2. CASE InsertQueued(g)
    <3> DEFINE n == CutBefore(InWindow(g), sb.next_seq)
    <3>1. sb' = [sb EXCEPT !.new = n, !.phase = "overlap", !.at = 1] /\ sb.phase = "idle"
      BY <2>2 DEF InsertQueued, Ready
    <3> HIDE DEF n
    <3>2. /\ sb'.base_seq = sb.base_seq /\ sb'.isn = sb.isn /\ sb'.data = sb.data
          /\ sb'.seg_list = sb.seg_list /\ sb'.new = n
      BY <1>0, <3>1 DEF Buffers
    <3>3. \A i, j \in 1 .. Len(sb.seg_list) : i < j => Rel(sb, i) <= Rel(sb, j)
      BY <3>1 DEF Ordered
    <3> QED BY <2>0, <3>2, <3>3 DEF Span, Ordered, Rel, n
  <2>3. CASE sb' = sb
    BY <2>3
  <2> QED BY <1>4, <2>1, <2>2, <2>3 DEF InsertSegment, InsertOld, InsertRefused, Refuse, vars
<1>5. ASSUME NEW want \in ConsumeLens, Consume(want) PROVE Span(sb', M) /\ Ordered(sb')
  <2> DEFINE n == IF want > Len(sb.data) THEN Len(sb.data) ELSE want
             d == Drop(sb.data, n)
             t == Add(sb.base_seq, n)
             ph == AfterConsume
  <2>1. /\ sb.data \in Seq(Seqs) /\ Len(sb.data) \in Nat /\ sb.base_seq \in Seqs /\ sb.isn \in Seqs
        /\ want \in Nat /\ SeqSpace \in Nat /\ 2 * M < SeqSpace
    BY <1>0, StreamAssumption DEF Buffers, Short
  <2>2. n \in Nat /\ n <= Len(sb.data)
    BY <2>1
  <2>3. /\ sb' = [sb EXCEPT !.data = d, !.base_seq = t, !.phase = ph] /\ sb.phase = "idle"
        /\ ph # "overlap"
    BY <1>5 DEF Consume, Ready, AfterConsume
  <2> HIDE DEF n, ph
  <2>4. Len(d) = Len(sb.data) - n
    BY <2>1, <2>2 DEF Drop
  <2> DEFINE u == Sub(sb.base_seq, sb.isn)
             l == Len(sb.data)
  <2>5. u \in Nat /\ u + l <= M /\ l \in Nat /\ n <= l
    BY <2>1, <2>2, SubType DEF Span
  <2> HIDE DEF u, l
  <2>6. u + n < SeqSpace /\ u + n + (l - n) <= M
    BY <1>0, <2>1, <2>2, <2>5
  <2>7. Sub(t, sb.isn) = u + n
    BY <2>1, <2>2, <2>6, AddRel DEF u
  <2> HIDE DEF d, t
  <2>8. /\ sb'.base_seq = t /\ sb'.isn = sb.isn /\ sb'.data = d
        /\ sb'.seg_list = sb.seg_list /\ sb'.phase = ph
    BY <1>0, <2>3 DEF Buffers
  <2>9. Sub(sb'.base_seq, sb'.isn) + Len(sb'.data) <= M
    BY <2>4, <2>6, <2>7, <2>8 DEF l
  <2> QED BY <2>3, <2>8, <2>9 DEF Span, Ordered, Rel
<1> QED BY <1>2, <1>3, <1>4, <1>5
-----------------------------------------------------------------------------
(* Duplicates, in a sequence space of any size *)

\* what insert_segment_queue takes for an exact duplicate
Copy(a, b) == a.seq = b.seq /\ Len(a.pay) = Len(b.pay)

\* No segment that handle_queue_overlaps has passed is a copy of the new one.
NoCopy(b) ==
    b.phase = "overlap" =>
        \A j \in 1 .. Len(b.seg_list) : j < b.at => ~ Copy(b.seg_list[j], b.new)

LEMMA TrimNoCopy ==
  ASSUME NEW n, NEW c, SegOK(n), SegOK(c), ~ Covers(n, c)
  PROVE  ~ Copy(Trim(n, c), n)
<1>0. SeqSpace \in Nat \ {0} /\ n.seq \in Seqs /\ c.seq \in Seqs
  BY StreamAssumption DEF SegOK, Segs
<1>1. CASE OverlapsStart(n, c)
  <2>1. Trim(n, c).seq = End(n)
    BY <1>1 DEF Trim
  <2>2. End(n) # n.seq
    <3>1. SeqCompare(n.seq, c.seq) < 0 /\ SeqCompare(End(n), c.seq) > 0
      BY <1>1 DEF OverlapsStart
    <3> QED BY <3>1 DEF SeqCompare
  <2> QED BY <2>1, <2>2 DEF Copy
<1>2. CASE ~ OverlapsStart(n, c) /\ OverlapsEnd(n, c)
  <2>1. Trim(n, c).seq = c.seq
    BY <1>2 DEF Trim, SegOK, Segs
  <2>2. SeqCompare(n.seq, c.seq) > 0
    BY <1>2 DEF OverlapsEnd
  <2> QED BY <2>1, <2>2 DEF Copy, SeqCompare
<1>3. CASE ~ OverlapsStart(n, c) /\ ~ OverlapsEnd(n, c)
  <2>1. Trim(n, c) = c
    BY <1>3, Zenon DEF Trim
  <2>2. Copy(c, n) => End(n) = End(c) /\ n.seq = c.seq
    BY DEF Copy, End
  <2>3. Copy(c, n) => Covers(n, c)
    BY <2>2 DEF Covers, SeqCompare
  <2> QED BY <2>1, <2>3
<1> QED BY <1>1, <1>2, <1>3

LEMMA NoCopyStep ==
  ASSUME BufferOK(sb), NoCopy(sb), [Next]_vars
  PROVE  NoCopy(sb')
<1>0. sb \in Buffers /\ sb.seg_list \in Seq(Segs) /\ Len(sb.seg_list) \in Nat /\ sb.at \in Nat \ {0}
  BY DEF BufferOK, Buffers
<1> DEFINE q == sb.seg_list
<1>1. CASE sb'.phase # "overlap"
  BY <1>1 DEF NoCopy
<1>2. CASE sb' = sb
  BY <1>2
<1>3. CASE OverlapRemove
  <2>1. sb' = Unqueue(sb, sb.at) /\ sb.at \in 1 .. Len(q)
    BY <1>0, <1>3 DEF OverlapRemove
  <2>2. sb'.seg_list = RemoveAt(q, sb.at) /\ sb'.at = sb.at /\ sb'.new = sb.new /\ sb'.phase = sb.phase
    BY <1>0, <2>1, Fields
  <2>3. /\ Len(sb'.seg_list) = Len(q) - 1
        /\ \A k \in 1 .. Len(sb'.seg_list) :
               sb'.seg_list[k] = IF k < sb.at THEN q[k] ELSE q[k + 1]
    <3> DEFINE r == RemoveAt(q, sb.at)
    <3>1. /\ Len(r) = Len(q) - 1
          /\ \A k \in 1 .. Len(r) : r[k] = IF k < sb.at THEN q[k] ELSE q[k + 1]
      BY <1>0, <2>1, RemoveIndex
    <3> HIDE DEF r
    <3> QED BY <2>2, <3>1 DEF r
  <2> QED BY <1>0, <2>2, <2>3 DEF NoCopy
<1>4. CASE OverlapTrim
  <2> DEFINE d == Trim(sb.new, q[sb.at])
             r == [q EXCEPT ![sb.at] = d]
  <2>1. /\ sb' = [sb EXCEPT !.seg_list = r, !.at = sb.at + 1] /\ sb.at \in 1 .. Len(q)
        /\ sb.phase = "overlap" /\ ~ Covers(sb.new, q[sb.at])
    BY <1>0, <1>4 DEF OverlapTrim
  <2>2. ~ Copy(d, sb.new)
    BY <2>1, TrimNoCopy DEF BufferOK, QueueOK
  <2>3. Len(r) = Len(q) /\ \A k \in 1 .. Len(q) : r[k] = IF k = sb.at THEN d ELSE q[k]
    BY <1>0, <2>1
  <2> HIDE DEF d, r
  <2>4. sb'.seg_list = r /\ sb'.at = sb.at + 1 /\ sb'.new = sb.new
    BY <1>0, <2>1 DEF Buffers
  <2>5. ASSUME NEW j \in 1 .. Len(q), j < sb.at + 1 PROVE ~ Copy(r[j], sb.new)
    <3>1. CASE j = sb.at
      BY <2>2, <2>3, <3>1
    <3>2. CASE j # sb.at
      <4>1. j < sb.at
        BY <1>0, <2>5, <3>2
      <4> QED BY <2>1, <2>3, <3>2, <4>1 DEF NoCopy
    <3> QED BY <3>1, <3>2
  <2> QED BY <2>3, <2>4, <2>5 DEF NoCopy
<1>5. ASSUME NEW g \in Segments, InsertQueued(g) PROVE NoCopy(sb')
  <2>1. sb'.at = 1 /\ sb'.seg_list = sb.seg_list
    BY <1>0, <1>5 DEF InsertQueued, Buffers
  <2> QED BY <1>0, <2>1 DEF NoCopy
<1>6. ASSUME NEW g \in Segments, InsertSegment(g) PROVE NoCopy(sb')
  <2>1. CASE InsertInOrder(g)
    <3> DEFINE b == AppendData(sb, InWindow(g))
    <3>1. sb' = [b EXCEPT !.phase = "process"] /\ BufferOK(b)
      BY <2>1, InWindowOK, AppendOK DEF InsertInOrder, InOrder, Fits
    <3> HIDE DEF b
    <3>2. sb'.phase = "process"
      BY <3>1 DEF BufferOK, Buffers
    <3> QED BY <1>1, <3>2
  <2> QED BY <1>2, <1>5, <1>6, <2>1 DEF InsertSegment, InsertOld, InsertRefused, Refuse, vars
<1>7. CASE InsertLoops
  <2>1. CASE QueueInsert \/ MergeSkip \/ MergeDone \/ ProcessEnd
    BY <1>0, <1>1, <2>1 DEF QueueInsert, MergeSkip, Merging, MergeDone, ProcessEnd, Buffers
  <2>2. CASE MergeContained \/ ProcessStale
    BY <1>0, <1>1, <2>2, Fields DEF MergeContained, ProcessStale, Merging, Processing
  <2>3. CASE MergeNext
    <3> DEFINE b == [sb EXCEPT !.seg_list[sb.at] = Merged]
    <3>1. sb' = Unqueue(b, sb.at + 1) /\ sb.phase = "merge"
      BY <2>3 DEF MergeNext, Merging
    <3>2. b.phase = "merge"
      BY <1>0, <3>1 DEF Buffers
    <3> HIDE DEF b
    <3>3. sb'.phase = "merge"
      BY <3>1, <3>2 DEF Unqueue
    <3> QED BY <1>1, <3>3
  <2>4. CASE ProcessHead
    <3> DEFINE b == AppendData(sb, head)
    <3>1. sb' = Unqueue(b, 1) /\ b.phase = "process"
      BY <1>0, <2>4, Fields DEF ProcessHead, Processing
    <3> HIDE DEF b
    <3>2. sb'.phase = "process"
      BY <3>1 DEF Unqueue
    <3> QED BY <1>1, <3>2
  <2> QED BY <1>3, <1>4, <1>7, <2>1, <2>2, <2>3, <2>4 DEF InsertLoops
<1>8. ASSUME NEW isn \in Isns, BufferInit(isn) PROVE NoCopy(sb')
  BY <1>1, <1>8 DEF BufferInit, NoBuffer
<1>9. CASE BufferFree
  BY <1>1, <1>9 DEF BufferFree, NoBuffer
<1>10. ASSUME NEW n \in ConsumeLens, Consume(n) PROVE NoCopy(sb')
  BY <1>0, <1>1, <1>10 DEF Consume, AfterConsume, Buffers
<1> QED BY <1>2, <1>6, <1>7, <1>8, <1>9, <1>10 DEF Next, vars

\* insert_segment_queue never meets an exact duplicate: handle_queue_overlaps
\* has removed it, so that the newer payload stays.  For every stream.
THEOREM StreamDuplicateGone == Spec => []DuplicateGone
<1>1. Init => NoCopy(sb)
  BY DEF Init, NoBuffer, NoCopy
<1>2. IInv /\ NoCopy(sb) /\ [Next]_vars => NoCopy(sb)'
  BY InvBufferOK, NoCopyStep
<1>3. IInv /\ NoCopy(sb) => DuplicateGone
  <2> SUFFICES ASSUME IInv, NoCopy(sb), OverlapDone, Duplicate PROVE FALSE
    BY DEF DuplicateGone
  <2>1. BufferOK(sb) /\ sb.at \in Nat /\ Len(sb.seg_list) \in Nat
    BY InvBufferOK DEF BufferOK, Buffers
  <2>2. PICK j \in 1 .. Place - 1 : Copy(sb.seg_list[j], sb.new)
    BY DEF Duplicate, Copy
  <2>3. j \in 1 .. Len(sb.seg_list) /\ j < sb.at
    BY <2>1, PlaceType DEF OverlapDone
  <2> QED BY <2>2, <2>3 DEF NoCopy, OverlapDone
<1> QED BY <1>1, <1>2, <1>3, StreamInvariant, PTL DEF Spec

\* insert_segment_queue, handle_queue_overlaps, try_merge_segments: in a
\* stream of fewer bytes than half of the sequence space, the queue is sorted
\* whenever its head, or a segment and its successor, are looked at.
THEOREM StreamQueueOrdered ==
  ASSUME NEW M, Short(M)
  PROVE  Spec => []QueueOrdered
<1>1. Init => Span(sb, M) /\ Ordered(sb)
  <2>1. Sub(0, 0) = 0 /\ M \in Nat
    BY SubCases, StreamAssumption DEF Seqs, Short
  <2> QED BY <2>1 DEF Init, NoBuffer, Span, Ordered
<1>2. IInv /\ (Span(sb, M) /\ Ordered(sb)) /\ [Next]_vars => (Span(sb, M) /\ Ordered(sb))'
  <2> SUFFICES ASSUME BufferOK(sb), Span(sb, M), Ordered(sb), [Next]_vars
               PROVE  Span(sb', M) /\ Ordered(sb')
    BY InvBufferOK
  <2>1. CASE UNCHANGED vars
    BY <2>1 DEF vars
  <2> QED BY <2>1, LoopOrder, CallOrder DEF Next
<1>3. IInv /\ Span(sb, M) /\ Ordered(sb) => QueueSorted
  <2> SUFFICES ASSUME BufferOK(sb), Span(sb, M), Ordered(sb), sb.phase # "overlap",
                      NEW i \in 1 .. Len(sb.seg_list), NEW j \in 1 .. Len(sb.seg_list), i < j
               PROVE  SeqCompare(sb.seg_list[i].seq, sb.seg_list[j].seq) <= 0
    BY InvBufferOK DEF QueueSorted
  <2>1. Rel(sb, i) <= Rel(sb, j)
    BY DEF Ordered
  <2>2. /\ sb.isn \in Seqs /\ sb.seg_list[i] \in Segs /\ sb.seg_list[j] \in Segs
        /\ Within(sb.isn, M, sb.seg_list[i]) /\ Within(sb.isn, M, sb.seg_list[j])
    BY DEF BufferOK, Buffers, Span
  <2>3. /\ sb.seg_list[i].seq \in Seqs /\ sb.seg_list[j].seq \in Seqs
        /\ 2 * Rel(sb, i) < SeqSpace /\ 2 * Rel(sb, j) < SeqSpace
    BY <2>2, RelTypes DEF Rel
  <2> QED BY <2>1, <2>2, <2>3, Compare DEF Rel
<1>4. Spec => [](Span(sb, M) /\ Ordered(sb))
  BY <1>1, <1>2, StreamInvariant, PTL DEF Spec
<1> QED BY <1>3, <1>4, StreamInvariant, StreamDuplicateGone, PTL DEF QueueOrdered
-----------------------------------------------------------------------------
(***************************************************************************)
(* No byte is lost.  With a sender that cuts its stream always at the same *)
(* places two segments are equal or disjoint; what is in the queue then    *)
(* begins and ends between segments, and no loop throws a byte away that   *)
(* is not also elsewhere.                                                  *)
(***************************************************************************)
Apart ==
    \A g, h \in Segments : g = h \/ g.off + g.len <= h.off \/ h.off + h.len <= g.off

\* No segment has bytes on both sides of offset c.
CutAt(c) == \A g \in Segments : c <= g.off \/ g.off + g.len <= c

\* The offsets from the start of the stream: the first byte of the j-th
\* queued segment and the one behind its last, the byte the buffer waits for,
\* and the segment in hand.
Upto(b, j) == Rel(b, j) + Len(b.seg_list[j].pay)
Reached(b) == Sub(b.next_seq, b.isn)
NewFrom(b) == Sub(b.new.seq, b.isn)
NewUpto(b) == NewFrom(b) + Len(b.new.pay)

\* The end of the j-th segment once handle_queue_overlaps has passed it.
After(b, j) ==
    IF b.phase = "overlap" /\ b.at <= j /\ Rel(b, j) < NewFrom(b) /\ Upto(b, j) = NewUpto(b)
    THEN NewFrom(b) ELSE Upto(b, j)

\* Everything begins and ends between segments.
Cuts(b) ==
    /\ CutAt(Reached(b))
    /\ \A j \in 1 .. Len(b.seg_list) : CutAt(Rel(b, j)) /\ CutAt(Upto(b, j))

\* The segment in hand is one the sender sent, behind a gap.
NewSent(b) ==
    b.phase = "overlap" =>
        /\ NewFrom(b) > Reached(b)
        /\ \E g \in Segments : NewFrom(b) = g.off /\ NewUpto(b) = g.off + g.len

\* The queue is ahead of next_seq; while process_segment_queue empties it, a
\* segment may lie behind, all of it.
Ahead(b) ==
    \A j \in 1 .. Len(b.seg_list) :
        /\ b.phase # "process" => Rel(b, j) > Reached(b)
        /\ Rel(b, j) < Reached(b) => Upto(b, j) <= Reached(b)

\* A segment that begins inside an earlier one also ends inside it.
Nested(b) ==
    \A i, j \in 1 .. Len(b.seg_list) :
        i < j /\ Rel(b, j) < After(b, i) => After(b, j) <= After(b, i)

\* try_merge_segments leaves nothing to merge behind it.
MergedBefore(b) ==
    b.phase = "merge" =>
        \A i, j \in 1 .. Len(b.seg_list) : i < b.at /\ i < j => Upto(b, i) <= Rel(b, j)

Tidy(b) == Cuts(b) /\ NewSent(b) /\ Ahead(b) /\ Nested(b) /\ MergedBefore(b)

\* The byte at offset x is delivered, queued, or in hand.
Held(b, x) ==
    \/ x < Reached(b)
    \/ \E j \in 1 .. Len(b.seg_list) : Rel(b, j) <= x /\ x < Upto(b, j)
    \/ b.phase = "overlap" /\ NewFrom(b) <= x /\ x < NewUpto(b)

AllHeld(b, A) == \A p \in A : Held(b, Sub(p, b.isn))

LEMMA Offsets ==
  ASSUME NEW M, Short(M), NEW b, BufferOK(b), Span(b, M)
  PROVE  /\ Len(b.seg_list) \in Nat /\ b.at \in Nat \ {0} /\ M \in Nat
         /\ Reached(b) \in Nat /\ Reached(b) <= M
         /\ NewFrom(b) \in Nat /\ NewUpto(b) \in Nat /\ NewFrom(b) <= NewUpto(b)
         /\ \A j \in 1 .. Len(b.seg_list) :
               /\ Rel(b, j) \in Nat /\ Upto(b, j) \in Nat
               /\ Rel(b, j) <= Upto(b, j) /\ Upto(b, j) <= M
<1>1. /\ b.seg_list \in Seq(Segs) /\ Len(b.seg_list) \in Nat /\ b.at \in Nat \ {0}
      /\ b.isn \in Seqs /\ b.new \in Segs
  BY DEF BufferOK, Buffers
<1>2. Reached(b) \in Nat /\ Reached(b) <= M
  BY NextRel, SubType DEF Reached
<1>3. NewFrom(b) \in Nat /\ NewUpto(b) \in Nat /\ NewFrom(b) <= NewUpto(b)
  <2>1. b.new.seq \in Seqs /\ Len(b.new.pay) \in Nat
    BY <1>1 DEF Segs
  <2>2. NewFrom(b) \in Nat
    BY <1>1, <2>1, SubType DEF NewFrom
  <2> QED BY <2>1, <2>2 DEF NewUpto
<1>4. ASSUME NEW j \in 1 .. Len(b.seg_list)
      PROVE  /\ Rel(b, j) \in Nat /\ Upto(b, j) \in Nat
             /\ Rel(b, j) <= Upto(b, j) /\ Upto(b, j) <= M
  <2>1. b.seg_list[j] \in Segs /\ Within(b.isn, M, b.seg_list[j])
    BY <1>1 DEF Span
  <2>2. Rel(b, j) \in Nat /\ Len(b.seg_list[j].pay) \in Nat
    BY <1>1, <2>1, RelTypes DEF Rel
  <2>3. Upto(b, j) <= M
    BY <2>1 DEF Within, Upto, Rel
  <2> QED BY <2>2, <2>3 DEF Upto
<1> QED BY <1>1, <1>2, <1>3, <1>4 DEF Short

\* What two buffers have in common besides the queue.
Alike(b, c) ==
    /\ c.isn = b.isn /\ c.phase = b.phase /\ c.at = b.at
    /\ Reached(c) = Reached(b) /\ NewFrom(c) = NewFrom(b) /\ NewUpto(c) = NewUpto(b)

\* The index a segment had before the j-th was taken out.
Before(j, k) == IF k < j THEN k ELSE k + 1

LEMMA RemoveOffsets ==
  ASSUME NEW b, BufferOK(b), NEW j \in 1 .. Len(b.seg_list), NEW c, c = Unqueue(b, j)
  PROVE  /\ Alike(b, c) /\ Len(c.seg_list) = Len(b.seg_list) - 1
         /\ \A k \in 1 .. Len(c.seg_list) :
               /\ Before(j, k) \in 1 .. Len(b.seg_list)
               /\ Rel(c, k) = Rel(b, Before(j, k)) /\ Upto(c, k) = Upto(b, Before(j, k))
         /\ \A k \in 1 .. Len(b.seg_list) :
               k # j => \E i \in 1 .. Len(c.seg_list) : Before(j, i) = k
<1> DEFINE q == b.seg_list
           r == RemoveAt(q, j)
<1>1. b \in Buffers /\ q \in Seq(Segs) /\ Len(q) \in Nat
  BY DEF BufferOK, Buffers
<1>2. Len(r) = Len(q) - 1 /\ \A k \in 1 .. Len(r) : r[k] = IF k < j THEN q[k] ELSE q[k + 1]
  BY <1>1, RemoveIndex
<1> HIDE DEF r
<1>3. /\ c.seg_list = r /\ c.isn = b.isn /\ c.phase = b.phase /\ c.at = b.at
      /\ c.new = b.new /\ c.next_seq = b.next_seq
  BY <1>1 DEF Unqueue, Buffers, r
<1>4. Alike(b, c)
  BY <1>3 DEF Alike, Reached, NewFrom, NewUpto
<1>5. ASSUME NEW k \in 1 .. Len(r)
      PROVE  Before(j, k) \in 1 .. Len(q) /\ r[k] = q[Before(j, k)]
  BY <1>1, <1>2 DEF Before
<1>6. ASSUME NEW k \in 1 .. Len(q), k # j
      PROVE  \E i \in 1 .. Len(r) : Before(j, i) = k
  <2>1. CASE k < j
    <3>1. k \in 1 .. Len(r) /\ Before(j, k) = k
      BY <1>1, <1>2, <2>1 DEF Before
    <3> QED BY <3>1
  <2>2. CASE ~ (k < j)
    <3>1. k - 1 \in 1 .. Len(r) /\ Before(j, k - 1) = k
      BY <1>1, <1>2, <1>6, <2>2 DEF Before
    <3> QED BY <3>1
  <2> QED BY <2>1, <2>2
<1> HIDE DEF q
<1>7. \A k \in 1 .. Len(r) : Rel(c, k) = Rel(b, Before(j, k)) /\ Upto(c, k) = Upto(b, Before(j, k))
  BY <1>3, <1>5 DEF Rel, Upto, q
<1> QED BY <1>2, <1>3, <1>4, <1>5, <1>6, <1>7 DEF q

\* A segment is taken out: in handle_queue_overlaps the one it looks at, in
\* try_merge_segments one behind.
LEMMA RemoveTidy ==
  ASSUME NEW M, Short(M), NEW b, BufferOK(b), Span(b, M), Tidy(b),
         NEW j \in 1 .. Len(b.seg_list), NEW c, c = Unqueue(b, j),
         b.phase = "overlap" => j = b.at, b.phase = "merge" => b.at < j
  PROVE  Tidy(c)
<1> DEFINE n == Len(b.seg_list)
           m == Len(c.seg_list)
<1>1. /\ Alike(b, c) /\ m = n - 1
      /\ \A k \in 1 .. m :
            /\ Before(j, k) \in 1 .. n
            /\ Rel(c, k) = Rel(b, Before(j, k)) /\ Upto(c, k) = Upto(b, Before(j, k))
  BY RemoveOffsets
<1>2. n \in Nat /\ b.at \in Nat \ {0} /\ j \in 1 .. n
  BY Offsets
<1>3. ASSUME NEW i \in 1 .. m, NEW k \in 1 .. m, i < k
      PROVE  Before(j, i) < Before(j, k)
  BY <1>1, <1>2, <1>3 DEF Before
<1>4. ASSUME NEW k \in 1 .. m
      PROVE  /\ b.phase = "overlap" => (b.at <= k <=> b.at <= Before(j, k))
             /\ b.phase = "merge" /\ k < b.at => Before(j, k) < b.at
  BY <1>1, <1>2 DEF Before
<1> HIDE DEF n, m
<1>5. \A k \in 1 .. m : After(c, k) = After(b, Before(j, k))
  BY <1>1, <1>4 DEF After, Alike
<1>6. Cuts(c)
  BY <1>1 DEF Cuts, Tidy, Alike, n, m
<1>7. NewSent(c)
  BY <1>1 DEF NewSent, Tidy, Alike
<1>8. Ahead(c)
  BY <1>1 DEF Ahead, Tidy, Alike, n, m
<1>9. Nested(c)
  <2> SUFFICES ASSUME NEW i \in 1 .. m, NEW k \in 1 .. m, i < k, Rel(c, k) < After(c, i)
               PROVE  After(c, k) <= After(c, i)
    BY DEF Nested, m
  <2>1. /\ Before(j, i) \in 1 .. n /\ Before(j, k) \in 1 .. n /\ Before(j, i) < Before(j, k)
        /\ Rel(b, Before(j, k)) < After(b, Before(j, i))
    BY <1>1, <1>3, <1>5
  <2>2. After(b, Before(j, k)) <= After(b, Before(j, i))
    BY <2>1 DEF Tidy, Nested, n
  <2> QED BY <1>5, <2>2
<1>10. MergedBefore(c)
  <2> SUFFICES ASSUME c.phase = "merge", NEW i \in 1 .. m, NEW k \in 1 .. m, i < c.at, i < k
               PROVE  Upto(c, i) <= Rel(c, k)
    BY DEF MergedBefore, m
  <2>1. /\ Before(j, i) \in 1 .. n /\ Before(j, k) \in 1 .. n /\ Before(j, i) < Before(j, k)
        /\ Before(j, i) < b.at /\ b.phase = "merge"
    BY <1>1, <1>3, <1>4 DEF Alike
  <2>2. Upto(b, Before(j, i)) <= Rel(b, Before(j, k))
    BY <2>1 DEF Tidy, MergedBefore, n
  <2> QED BY <1>1, <2>2
<1> QED BY <1>6, <1>7, <1>8, <1>9, <1>10 DEF Tidy

\* What the j-th segment holds is also elsewhere.
Redundant(b, j) ==
    \/ Upto(b, j) <= Reached(b)
    \/ \E k \in 1 .. Len(b.seg_list) : k # j /\ Rel(b, k) <= Rel(b, j) /\ Upto(b, j) <= Upto(b, k)
    \/ b.phase = "overlap" /\ NewFrom(b) <= Rel(b, j) /\ Upto(b, j) <= NewUpto(b)

LEMMA RemoveHeld ==
  ASSUME NEW M, Short(M), NEW b, BufferOK(b), Span(b, M),
         NEW j \in 1 .. Len(b.seg_list), NEW c, c = Unqueue(b, j), Redundant(b, j),
         NEW x \in Nat, Held(b, x)
  PROVE  Held(c, x)
<1> DEFINE n == Len(b.seg_list)
           m == Len(c.seg_list)
<1>1. /\ Alike(b, c)
      /\ \A k \in 1 .. m : Rel(c, k) = Rel(b, Before(j, k)) /\ Upto(c, k) = Upto(b, Before(j, k))
      /\ \A k \in 1 .. n : k # j => \E i \in 1 .. m : Before(j, i) = k
  BY RemoveOffsets
<1>2. /\ Reached(b) \in Nat /\ NewFrom(b) \in Nat /\ NewUpto(b) \in Nat
      /\ \A k \in 1 .. n : Rel(b, k) \in Nat /\ Upto(b, k) \in Nat
  BY Offsets
\* in another segment of the queue
<1>3. ASSUME NEW k \in 1 .. n, k # j, Rel(b, k) <= x, x < Upto(b, k)
      PROVE  Held(c, x)
  <2>1. PICK i \in 1 .. m : Before(j, i) = k
    BY <1>1, <1>3
  <2>2. Rel(c, i) <= x /\ x < Upto(c, i)
    BY <1>1, <1>3, <2>1
  <2> QED BY <2>2 DEF Held
<1>4. CASE Rel(b, j) <= x /\ x < Upto(b, j)
  <2>1. CASE Upto(b, j) <= Reached(b)
    BY <1>1, <1>2, <1>4, <2>1 DEF Held, Alike
  <2>2. CASE b.phase = "overlap" /\ NewFrom(b) <= Rel(b, j) /\ Upto(b, j) <= NewUpto(b)
    <3>1. NewFrom(b) <= x /\ x < NewUpto(b)
      BY <1>2, <1>4, <2>2
    <3> QED BY <1>1, <2>2, <3>1 DEF Held, Alike
  <2>3. ASSUME NEW k \in 1 .. n, k # j, Rel(b, k) <= Rel(b, j), Upto(b, j) <= Upto(b, k)
        PROVE  Held(c, x)
    <3>1. Rel(b, k) <= x /\ x < Upto(b, k)
      BY <1>2, <1>4, <2>3
    <3> QED BY <1>3, <2>3, <3>1
  <2> QED BY <2>1, <2>2, <2>3 DEF Redundant
<1>5. CASE x < Reached(b) \/ (b.phase = "overlap" /\ NewFrom(b) <= x /\ x < NewUpto(b))
  BY <1>1, <1>5 DEF Held, Alike
<1> QED BY <1>3, <1>4, <1>5 DEF Held

LEMMA RemoveKeeps ==
  ASSUME NEW M, Short(M), NEW b, BufferOK(b), Span(b, M), Tidy(b),
         NEW j \in 1 .. Len(b.seg_list), Redundant(b, j),
         b.phase = "overlap" => j = b.at, b.phase = "merge" => b.at < j,
         NEW A \in SUBSET Seqs, AllHeld(b, A)
  PROVE  Tidy(Unqueue(b, j)) /\ AllHeld(Unqueue(b, j), A)
<1> DEFINE c == Unqueue(b, j)
<1>1. Tidy(c)
  BY RemoveTidy
<1>2. c.isn = b.isn /\ b.isn \in Seqs
  BY RemoveOffsets DEF Alike, BufferOK, Buffers
<1>3. ASSUME NEW p \in A PROVE Held(c, Sub(p, b.isn))
  <2>1. Sub(p, b.isn) \in Nat /\ Held(b, Sub(p, b.isn))
    BY <1>2, SubType DEF AllHeld
  <2> QED BY <2>1, RemoveHeld
<1> HIDE DEF c
<1> QED BY <1>1, <1>2, <1>3 DEF AllHeld, c

\* The comparisons of two segments, in offsets.
LEMMA Comparisons ==
  ASSUME NEW i \in Seqs, NEW M, Short(M), NEW c \in Segs, Within(i, M, c),
         NEW d \in Segs, Within(i, M, d),
         NEW cf, NEW cu, NEW df, NEW du, cf = Sub(c.seq, i), cu = cf + Len(c.pay),
         df = Sub(d.seq, i), du = df + Len(d.pay)
  PROVE  /\ Covers(c, d) <=> cf <= df /\ cu >= du
         /\ OverlapsStart(c, d) <=> cf < df /\ cu > df /\ cu < du
         /\ OverlapsEnd(c, d) <=> cf > df /\ cf < du /\ cu >= du
         /\ SeqCompare(End(c), d.seq) >= 0 <=> cu >= df
         /\ SeqCompare(End(d), End(c)) <= 0 <=> du <= cu
         /\ cf >= df => Sub(c.seq, d.seq) = cf - df
         /\ cu >= df => Sub(End(c), d.seq) = cu - df
<1>1. /\ c.seq \in Seqs /\ End(c) \in Seqs /\ Sub(End(c), i) = cu
      /\ 2 * Sub(c.seq, i) < SeqSpace /\ 2 * Sub(End(c), i) < SeqSpace
  BY RelTypes
<1>2. /\ d.seq \in Seqs /\ End(d) \in Seqs /\ Sub(End(d), i) = du
      /\ 2 * Sub(d.seq, i) < SeqSpace /\ 2 * Sub(End(d), i) < SeqSpace
  BY RelTypes
<1>3. /\ SeqCompare(c.seq, d.seq) < 0 <=> cf < df
      /\ SeqCompare(c.seq, d.seq) <= 0 <=> cf <= df
      /\ SeqCompare(c.seq, d.seq) > 0 <=> cf > df
      /\ cf >= df => Sub(c.seq, d.seq) = cf - df
  BY <1>1, <1>2, Compare
<1>4. /\ SeqCompare(End(c), d.seq) > 0 <=> cu > df
      /\ SeqCompare(End(c), d.seq) >= 0 <=> cu >= df
      /\ cu >= df => Sub(End(c), d.seq) = cu - df
  BY <1>1, <1>2, Compare
<1>5. /\ SeqCompare(End(c), End(d)) < 0 <=> cu < du
      /\ SeqCompare(End(c), End(d)) >= 0 <=> cu >= du
  BY <1>1, <1>2, Compare
<1>6. SeqCompare(End(d), End(c)) <= 0 <=> du <= cu
  BY <1>1, <1>2, Compare
<1>7. SeqCompare(c.seq, End(d)) < 0 <=> cf < du
  BY <1>1, <1>2, Compare
<1>8. Covers(c, d) <=> cf <= df /\ cu >= du
  BY <1>3, <1>5 DEF Covers
<1>9. OverlapsStart(c, d) <=> cf < df /\ cu > df /\ cu < du
  BY <1>3, <1>4, <1>5 DEF OverlapsStart
<1>10. OverlapsEnd(c, d) <=> cf > df /\ cf < du /\ cu >= du
  BY <1>3, <1>5, <1>7 DEF OverlapsEnd
<1> QED BY <1>3, <1>4, <1>6, <1>8, <1>9, <1>10

\* handle_queue_overlaps cuts only a segment that ends with the new one.
LEMMA TrimOffsets ==
  ASSUME NEW i \in Seqs, NEW M, Short(M), NEW n \in Segs, Within(i, M, n),
         NEW c \in Segs, Within(i, M, c),
         NEW nf, NEW nu, NEW cf, NEW cu, nf = Sub(n.seq, i), nu = nf + Len(n.pay),
         cf = Sub(c.seq, i), cu = cf + Len(c.pay),
         ~ Covers(n, c), nf < nu, cf <= nf \/ nu <= cf, cu <= nf \/ nu <= cu
  PROVE  /\ Trim(n, c).seq = c.seq
         /\ cf + Len(Trim(n, c).pay) = IF cf < nf /\ cu = nu THEN nf ELSE cu
<1>1. /\ nf \in Nat /\ nu \in Nat /\ cf \in Nat /\ cu \in Nat /\ c.pay \in Seq(Seqs)
      /\ Len(c.pay) \in Nat /\ Len(n.pay) \in Nat
  <2>1. Sub(n.seq, i) \in Nat /\ Len(n.pay) \in Nat
    BY RelTypes
  <2>2. Sub(c.seq, i) \in Nat /\ Len(c.pay) \in Nat /\ c.pay \in Seq(Seqs)
    BY RelTypes
  <2> QED BY <2>1, <2>2
<1>2. /\ Covers(n, c) <=> nf <= cf /\ nu >= cu
      /\ OverlapsStart(n, c) <=> nf < cf /\ nu > cf /\ nu < cu
      /\ OverlapsEnd(n, c) <=> nf > cf /\ nf < cu /\ nu >= cu
      /\ nf >= cf => Sub(n.seq, c.seq) = nf - cf
  BY Comparisons
<1>3. ~ OverlapsStart(n, c)
  BY <1>1, <1>2
<1>4. CASE OverlapsEnd(n, c)
  <2> DEFINE k == Sub(n.seq, c.seq)
             p == SubSeq(c.pay, 1, k)
  <2>1. cf < nf /\ cu = nu /\ k = nf - cf /\ k \in Nat /\ k <= Len(c.pay)
    BY <1>1, <1>2, <1>4
  <2>2. Trim(n, c) = [c EXCEPT !.pay = p]
    BY <1>3, <1>4 DEF Trim
  <2> HIDE DEF k
  <2>3. Len(p) = k
    BY <1>1, <2>1
  <2> HIDE DEF p
  <2>4. Trim(n, c).seq = c.seq /\ Trim(n, c).pay = p
    BY <2>2 DEF Segs
  <2> QED BY <1>1, <2>1, <2>3, <2>4
<1>5. CASE ~ OverlapsEnd(n, c)
  <2>1. Trim(n, c) = c
    BY <1>3, <1>5, Zenon DEF Trim
  <2>2. ~ (cf < nf /\ cu = nu)
    BY <1>1, <1>2, <1>5
  <2> QED BY <2>1, <2>2
<1> QED BY <1>4, <1>5

\* One turn of handle_queue_overlaps on a segment it keeps.
LEMMA TrimTidy ==
  ASSUME NEW M, Short(M), Apart, BufferOK(sb), Span(sb, M), Tidy(sb), OverlapTrim
  PROVE  /\ Tidy(sb')
         /\ \A x \in Nat : Held(sb, x) => Held(sb', x)
         /\ sb'.isn = sb.isn
<1> DEFINE q == sb.seg_list
           i0 == sb.isn
           at == sb.at
           new == sb.new
           d == Trim(new, q[at])
           r == [q EXCEPT ![at] = d]
           nf == NewFrom(sb)
           nu == NewUpto(sb)
           F(k) == Rel(sb, k)
           U(k) == Upto(sb, k)
<1>1. /\ sb \in Buffers /\ q \in Seq(Segs) /\ at \in 1 .. Len(q) /\ sb.phase = "overlap"
      /\ i0 \in Seqs /\ new \in Segs /\ ~ Covers(new, q[at])
      /\ sb' = [sb EXCEPT !.seg_list = r, !.at = at + 1]
  BY DEF OverlapTrim, BufferOK, Buffers
<1>2. Len(r) = Len(q) /\ \A k \in 1 .. Len(q) : r[k] = IF k = at THEN d ELSE q[k]
  BY <1>1
<1>3. /\ Within(i0, M, new) /\ q[at] \in Segs /\ Within(i0, M, q[at])
  BY <1>1 DEF Span
<1> HIDE DEF d, r
<1>4. /\ sb'.seg_list = r /\ sb'.isn = i0 /\ sb'.phase = "overlap" /\ sb'.at = at + 1
      /\ sb'.new = new /\ sb'.next_seq = sb.next_seq
  BY <1>1 DEF Buffers
<1>5. PICK g \in Segments : nf = g.off /\ nu = g.off + g.len
  BY <1>1 DEF Tidy, NewSent
<1>6. nf < nu /\ CutAt(nf)
  <2>0. \A h \in Segments : h.off \in Nat /\ h.len \in Nat \ {0}
    BY StreamAssumption
  <2>1. nf < nu
    BY <1>5, <2>0
  <2>2. ASSUME NEW h \in Segments PROVE g.off <= h.off \/ h.off + h.len <= g.off
    BY <1>5, <2>0 DEF Apart
  <2> QED BY <1>5, <2>1, <2>2 DEF CutAt
<1>7. /\ Len(q) \in Nat /\ nf \in Nat /\ nu \in Nat /\ at \in Nat
      /\ \A k \in 1 .. Len(q) : F(k) \in Nat /\ U(k) \in Nat
  BY Offsets
<1>8. \A k \in 1 .. Len(q) : (F(k) <= nf \/ nu <= F(k)) /\ (U(k) <= nf \/ nu <= U(k))
  BY <1>5 DEF Tidy, Cuts, CutAt
<1> DEFINE V == IF F(at) < nf /\ U(at) = nu THEN nf ELSE U(at)
<1>9. d.seq = q[at].seq /\ F(at) + Len(d.pay) = V
  <2>1. /\ nf = Sub(new.seq, i0) /\ nu = nf + Len(new.pay)
        /\ F(at) = Sub(q[at].seq, i0) /\ U(at) = F(at) + Len(q[at].pay)
    BY DEF NewFrom, NewUpto, Rel, Upto
  <2>2. (F(at) <= nf \/ nu <= F(at)) /\ (U(at) <= nf \/ nu <= U(at))
    BY <1>1, <1>8
  <2> HIDE DEF q, new, i0, F, U, nf, nu, at
  <2> QED BY <1>1, <1>3, <1>6, <2>1, <2>2, TrimOffsets DEF d
<1> HIDE DEF V
<1>10. /\ Reached(sb') = Reached(sb) /\ NewFrom(sb') = nf /\ NewUpto(sb') = nu
       /\ Len(sb'.seg_list) = Len(q)
       /\ \A k \in 1 .. Len(q) : Rel(sb', k) = F(k) /\ Upto(sb', k) = IF k = at THEN V ELSE U(k)
  <2>1. Reached(sb') = Reached(sb) /\ NewFrom(sb') = nf /\ NewUpto(sb') = nu
    BY <1>4 DEF Reached, NewFrom, NewUpto
  <2>2. ASSUME NEW k \in 1 .. Len(q)
        PROVE  Rel(sb', k) = F(k) /\ Upto(sb', k) = IF k = at THEN V ELSE U(k)
    BY <1>2, <1>4, <1>9 DEF Rel, Upto
  <2> QED BY <1>2, <1>4, <2>1, <2>2
<1>11. V = IF F(at) < nf /\ U(at) = nu THEN nf ELSE U(at)
  BY DEF V
<1>12. \A k \in 1 .. Len(q) : After(sb', k) = After(sb, k)
  <2> SUFFICES ASSUME NEW k \in 1 .. Len(q) PROVE After(sb', k) = After(sb, k)
    OBVIOUS
  <2>1. CASE k = at
    <3>1. After(sb', k) = V
      BY <1>4, <1>7, <1>10, <2>1 DEF After
    <3>2. After(sb, k) = V
      BY <1>1, <1>7, <1>11, <2>1 DEF After
    <3> QED BY <3>1, <3>2
  <2>2. CASE k # at
    <3>1. at + 1 <= k <=> at <= k
      BY <1>7, <2>2
    <3> QED BY <1>1, <1>4, <1>10, <2>2, <3>1 DEF After
  <2> QED BY <2>1, <2>2
<1> HIDE DEF q, new, i0, F, U, nf, nu, at
<1>13. Cuts(sb')
  <2>1. CutAt(V)
    BY <1>1, <1>6, <1>11 DEF Tidy, Cuts, U, q
  <2> QED BY <1>10, <2>1 DEF Tidy, Cuts, F, U, q
<1>14. NewSent(sb')
  BY <1>1, <1>10 DEF Tidy, NewSent, nf, nu
<1>15. Ahead(sb')
  <2>1. \A k \in 1 .. Len(q) : F(k) > Reached(sb)
    BY <1>1 DEF Tidy, Ahead, F, q
  <2>2. Reached(sb) \in Nat
    BY Offsets
  <2> QED BY <1>7, <1>10, <2>1, <2>2 DEF Ahead
<1>16. Nested(sb')
  BY <1>10, <1>12 DEF Tidy, Nested, F, q
<1>17. MergedBefore(sb')
  BY <1>4 DEF MergedBefore
<1>18. ASSUME NEW x \in Nat, Held(sb, x) PROVE Held(sb', x)
  <2>1. CASE x < Reached(sb) \/ (nf <= x /\ x < nu)
    BY <1>4, <1>10, <2>1 DEF Held
  <2>2. ASSUME NEW k \in 1 .. Len(q), F(k) <= x, x < U(k), ~ (nf <= x /\ x < nu)
        PROVE  Held(sb', x)
    <3>1. Rel(sb', k) <= x /\ x < Upto(sb', k)
      <4>1. CASE k = at
        <5>1. x < V
          BY <1>7, <1>11, <2>2, <4>1
        <5> QED BY <1>10, <2>2, <4>1, <5>1
      <4>2. CASE k # at
        BY <1>10, <2>2, <4>2
      <4> QED BY <4>1, <4>2
    <3> QED BY <1>10, <3>1 DEF Held
  <2> QED BY <1>18, <2>1, <2>2 DEF Held, F, U, nf, nu, q
<1> QED BY <1>4, <1>13, <1>14, <1>15, <1>16, <1>17, <1>18 DEF Tidy, i0

\* A segment the sender sent begins and ends between segments.
LEMMA SentCuts ==
  ASSUME Apart, NEW g \in Segments
  PROVE  CutAt(g.off) /\ CutAt(g.off + g.len) /\ g.off < g.off + g.len
<1>1. \A h \in Segments : h.off \in Nat /\ h.len \in Nat \ {0}
  BY StreamAssumption
<1>2. ASSUME NEW h \in Segments
      PROVE  /\ g.off <= h.off \/ h.off + h.len <= g.off
             /\ g.off + g.len <= h.off \/ h.off + h.len <= g.off + g.len
  BY <1>1 DEF Apart
<1> QED BY <1>1, <1>2 DEF CutAt

\* The sorted insertion: the new segment lies inside each earlier one that it
\* meets, and no later one begins inside it.
LEMMA InsertTidy ==
  ASSUME NEW M, Short(M), Apart, BufferOK(sb), Span(sb, M), Ordered(sb), Tidy(sb), QueueInsert
  PROVE  /\ Tidy(sb')
         /\ \A x \in Nat : Held(sb, x) => Held(sb', x)
         /\ sb'.isn = sb.isn
<1> DEFINE q == sb.seg_list
           i0 == sb.isn
           new == sb.new
           P == Place
           r == InsertAt(q, P, new)
           ph == IF sb.seg_count + 1 > MergeAbove THEN "merge" ELSE "process"
           nf == NewFrom(sb)
           nu == NewUpto(sb)
           F(k) == Rel(sb, k)
           U(k) == Upto(sb, k)
<1>1. /\ sb \in Buffers /\ q \in Seq(Segs) /\ sb.phase = "overlap" /\ sb.at > Len(q) /\ OverlapDone
      /\ i0 \in Seqs /\ new \in Segs /\ Within(i0, M, new)
      /\ sb' = [sb EXCEPT !.seg_list = r, !.seg_count = sb.seg_count + 1, !.phase = ph,
                          !.new = NoSeg, !.at = 1]
      /\ ph # "overlap"
  BY DEF QueueInsert, OverlapDone, BufferOK, Buffers, Span
<1>2. /\ P \in 1 .. Len(q) + 1
      /\ P <= Len(q) => SeqCompare(new.seq, q[P].seq) < 0
      /\ \A j \in 1 .. P - 1 : SeqCompare(new.seq, q[j].seq) >= 0
  BY PlaceType
<1> HIDE DEF P, ph
<1>3. /\ Len(r) = Len(q) + 1
      /\ \A k \in 1 .. Len(q) + 1 :
            r[k] = IF k < P THEN q[k] ELSE IF k = P THEN new ELSE q[k - 1]
  <2> HIDE DEF q, new
  <2> QED BY <1>1, <1>2, InsertIndex
<1> HIDE DEF r
<1>4. /\ sb'.seg_list = r /\ sb'.isn = i0 /\ sb'.phase = ph /\ sb'.at = 1
      /\ sb'.next_seq = sb.next_seq
  BY <1>1 DEF Buffers
<1>5. /\ Len(q) \in Nat /\ nf \in Nat /\ nu \in Nat /\ sb.at \in Nat /\ Reached(sb) \in Nat
      /\ \A k \in 1 .. Len(q) : F(k) \in Nat /\ U(k) \in Nat
  BY Offsets
<1>6. PICK g \in Segments : nf = g.off /\ nu = g.off + g.len
  BY <1>1 DEF Tidy, NewSent
<1>7. nf < nu /\ nf > Reached(sb)
  <2>1. g.off \in Nat /\ g.len \in Nat \ {0}
    BY StreamAssumption
  <2>2. nf > Reached(sb)
    BY <1>1 DEF Tidy, NewSent
  <2> QED BY <1>6, <2>1, <2>2
<1>8. \A k \in 1 .. Len(q) : (F(k) <= nf \/ nu <= F(k)) /\ (U(k) <= nf \/ nu <= U(k))
  BY <1>6 DEF Tidy, Cuts, CutAt
<1>9. ASSUME NEW k \in 1 .. Len(q)
      PROVE  /\ SeqCompare(new.seq, q[k].seq) >= 0 => F(k) <= nf
             /\ SeqCompare(new.seq, q[k].seq) < 0 => nf < F(k)
  <2>1. q[k] \in Segs /\ Within(i0, M, q[k])
    BY <1>1 DEF Span
  <2>2. q[k].seq \in Seqs /\ 2 * Sub(q[k].seq, i0) < SeqSpace
    BY <1>1, <2>1, RelTypes
  <2>3. new.seq \in Seqs /\ 2 * Sub(new.seq, i0) < SeqSpace
    BY <1>1, RelTypes
  <2>4. /\ SeqCompare(new.seq, q[k].seq) >= 0 <=> nf >= F(k)
        /\ SeqCompare(new.seq, q[k].seq) < 0 <=> nf < F(k)
    BY <1>1, <2>2, <2>3, Compare DEF NewFrom, Rel
  <2> HIDE DEF nf, F
  <2> QED BY <1>5, <2>4
<1>10. \A i, k \in 1 .. Len(q) : i < k => F(i) <= F(k)
  BY <1>1, <1>5 DEF Ordered
<1> HIDE DEF nf, nu, F, U
<1>11. ASSUME NEW k \in 1 .. Len(q), k < P PROVE F(k) <= nf
  BY <1>2, <1>9, <1>11
<1>12. ASSUME NEW k \in 1 .. Len(q), ~ (k < P) PROVE nf < F(k)
  <2>1. P \in 1 .. Len(q) /\ P <= k /\ P <= Len(q)
    BY <1>2, <1>5, <1>12
  <2>2. nf < F(P)
    BY <1>2, <1>9, <2>1
  <2>3. F(P) <= F(k)
    <3>1. CASE P = k
      BY <1>5, <3>1
    <3>2. CASE P # k
      BY <1>10, <2>1, <3>2
    <3> QED BY <3>1, <3>2
  <2> QED BY <1>5, <2>1, <2>2, <2>3
<1> DEFINE FF(k) == IF k < P THEN F(k) ELSE IF k = P THEN nf ELSE F(k - 1)
           UU(k) == IF k < P THEN U(k) ELSE IF k = P THEN nu ELSE U(k - 1)
           m == Len(q) + 1
<1>13. /\ Reached(sb') = Reached(sb) /\ Len(sb'.seg_list) = m
       /\ \A k \in 1 .. m : Rel(sb', k) = FF(k) /\ Upto(sb', k) = UU(k)
  <2>1. Reached(sb') = Reached(sb)
    BY <1>4 DEF Reached
  <2>2. ASSUME NEW k \in 1 .. m PROVE Rel(sb', k) = FF(k) /\ Upto(sb', k) = UU(k)
    BY <1>3, <1>4 DEF Rel, Upto, F, U, nf, nu, NewFrom, NewUpto
  <2> QED BY <1>3, <1>4, <2>1, <2>2
<1>14. \A k \in 1 .. m : After(sb', k) = Upto(sb', k)
  BY <1>1, <1>4 DEF After
<1>15. \A k \in 1 .. Len(q) : After(sb, k) = U(k)
  BY <1>1, <1>5 DEF After, U
<1>16. \A i, k \in 1 .. Len(q) : i < k /\ F(k) < U(i) => U(k) <= U(i)
  BY <1>15 DEF Tidy, Nested, F, q
<1>17. \A k \in 1 .. m : /\ k < P => k \in 1 .. Len(q)
                         /\ ~ (k < P) /\ k # P => k - 1 \in 1 .. Len(q) /\ ~ (k - 1 < P)
  BY <1>2, <1>5
<1> HIDE DEF q, i0, new
<1>18. Cuts(sb')
  <2>1. CutAt(nf) /\ CutAt(nu)
    BY <1>6, SentCuts
  <2>2. \A k \in 1 .. Len(q) : CutAt(F(k)) /\ CutAt(U(k))
    BY DEF Tidy, Cuts, F, U, q
  <2>3. \A k \in 1 .. m : CutAt(FF(k)) /\ CutAt(UU(k))
    BY <1>17, <2>1, <2>2
  <2>4. CutAt(Reached(sb))
    BY DEF Tidy, Cuts
  <2> QED BY <1>13, <2>3, <2>4 DEF Cuts
<1>19. NewSent(sb')
  BY <1>1, <1>4 DEF NewSent
<1>20. Ahead(sb')
  <2>1. \A k \in 1 .. Len(q) : F(k) > Reached(sb)
    BY <1>1 DEF Tidy, Ahead, F, q
  <2>2. \A k \in 1 .. m : FF(k) > Reached(sb)
    BY <1>7, <1>17, <2>1
  <2>3. \A k \in 1 .. m : FF(k) \in Nat
    BY <1>5, <1>17
  <2> HIDE DEF FF, UU
  <2> QED BY <1>5, <1>13, <2>2, <2>3 DEF Ahead
<1>21. Nested(sb')
  <2> SUFFICES ASSUME NEW i \in 1 .. m, NEW k \in 1 .. m, i < k, FF(k) < UU(i)
               PROVE  UU(k) <= UU(i)
    <3> HIDE DEF FF, UU
    <3> QED BY <1>13, <1>14 DEF Nested
  <2>0. i \in Nat /\ k \in Nat /\ P \in Nat
    BY <1>2, <1>5
  <2>1. CASE i < P /\ k < P
    <3>1. i \in 1 .. Len(q) /\ k \in 1 .. Len(q)
      BY <1>17, <2>1
    <3> QED BY <1>16, <2>1, <3>1
  <2>2. CASE i < P /\ k = P
    <3>1. i \in 1 .. Len(q) /\ FF(k) = nf /\ UU(k) = nu /\ UU(i) = U(i)
      BY <1>17, <2>2
    <3> QED BY <1>5, <1>8, <2>2, <3>1
  <2>3. CASE i < P /\ k > P
    <3>1. i \in 1 .. Len(q) /\ k - 1 \in 1 .. Len(q) /\ i < k - 1
      BY <1>17, <2>0, <2>3
    <3>2. FF(k) = F(k - 1) /\ UU(k) = U(k - 1) /\ UU(i) = U(i)
      BY <2>0, <2>3
    <3> QED BY <1>16, <3>1, <3>2
  <2>4. CASE i = P
    <3>1. k - 1 \in 1 .. Len(q) /\ ~ (k - 1 < P) /\ FF(k) = F(k - 1) /\ UU(i) = nu
      BY <1>17, <2>0, <2>4
    <3>2. nf < F(k - 1)
      BY <1>12, <3>1
    <3>3. F(k - 1) < nu
      BY <3>1
    <3>4. F(k - 1) <= nf \/ nu <= F(k - 1)
      BY <1>8, <3>1
    <3>5. F(k - 1) \in Nat
      BY <1>5, <3>1
    <3> QED BY <1>5, <3>2, <3>3, <3>4, <3>5
  <2>5. CASE i > P
    <3>1. i - 1 \in 1 .. Len(q) /\ k - 1 \in 1 .. Len(q) /\ i - 1 < k - 1
      BY <1>17, <2>0, <2>5
    <3>2. FF(k) = F(k - 1) /\ UU(k) = U(k - 1) /\ UU(i) = U(i - 1)
      BY <2>0, <2>5
    <3> QED BY <1>16, <3>1, <3>2
  <2> QED BY <2>0, <2>1, <2>2, <2>3, <2>4, <2>5
<1>22. MergedBefore(sb')
  BY <1>4 DEF MergedBefore
<1>23. ASSUME NEW x \in Nat, Held(sb, x) PROVE Held(sb', x)
  <2>1. CASE x < Reached(sb)
    BY <1>13, <2>1 DEF Held
  <2>2. CASE nf <= x /\ x < nu
    <3>1. P \in 1 .. m /\ FF(P) = nf /\ UU(P) = nu
      BY <1>2, <1>5
    <3> HIDE DEF FF, UU
    <3> QED BY <1>13, <2>2, <3>1 DEF Held
  <2>3. ASSUME NEW k \in 1 .. Len(q), F(k) <= x, x < U(k)
        PROVE  Held(sb', x)
    <3>1. CASE k < P
      <4>1. k \in 1 .. m /\ FF(k) = F(k) /\ UU(k) = U(k)
        BY <1>5, <3>1
      <4> HIDE DEF FF, UU
      <4> QED BY <1>13, <2>3, <4>1 DEF Held
    <3>2. CASE ~ (k < P)
      <4>1. k + 1 \in 1 .. m /\ FF(k + 1) = F(k) /\ UU(k + 1) = U(k)
        BY <1>2, <1>5, <3>2
      <4> HIDE DEF FF, UU
      <4> QED BY <1>13, <2>3, <4>1 DEF Held
    <3> QED BY <3>1, <3>2
  <2> QED BY <1>23, <2>1, <2>2, <2>3 DEF Held, F, U, nf, nu, q
<1> QED BY <1>4, <1>18, <1>19, <1>20, <1>21, <1>22, <1>23 DEF Tidy, i0

\* A segment that meets its successor without holding it ends where the
\* successor begins.
LEMMA MergeOffsets ==
  ASSUME NEW M, Short(M), BufferOK(sb), Span(sb, M), Ordered(sb), Tidy(sb), Merging
  PROVE  /\ sb.at \in 1 .. Len(sb.seg_list) /\ sb.at + 1 \in 1 .. Len(sb.seg_list)
         /\ Adjacent <=> Rel(sb, sb.at + 1) <= Upto(sb, sb.at)
         /\ NextInside <=> Upto(sb, sb.at + 1) <= Upto(sb, sb.at)
         /\ Adjacent /\ ~ NextInside => Rel(sb, sb.at + 1) = Upto(sb, sb.at)
         /\ (Adjacent => ~ NextInside) => Upto(sb, sb.at) <= Rel(sb, sb.at + 1)
         /\ Adjacent => Sub(End(curr), next.seq) = Upto(sb, sb.at) - Rel(sb, sb.at + 1)
<1> DEFINE q == sb.seg_list
           at == sb.at
           cu == Upto(sb, at)
           xf == Rel(sb, at + 1)
           xu == Upto(sb, at + 1)
<1>1. /\ at \in 1 .. Len(q) /\ at + 1 \in 1 .. Len(q) /\ at < at + 1 /\ q \in Seq(Segs)
      /\ sb.isn \in Seqs /\ sb.phase = "merge"
  BY DEF Merging, BufferOK, Buffers
<1>2. /\ curr \in Segs /\ Within(sb.isn, M, curr) /\ curr = q[at]
      /\ next \in Segs /\ Within(sb.isn, M, next) /\ next = q[at + 1]
  BY <1>1 DEF curr, next, Span
<1>3. /\ SeqCompare(End(curr), next.seq) >= 0 <=> cu >= xf
      /\ SeqCompare(End(next), End(curr)) <= 0 <=> xu <= cu
      /\ cu >= xf => Sub(End(curr), next.seq) = cu - xf
  <2> DEFINE cf == Rel(sb, at)
             c == curr
             x == next
  <2>1. /\ cu = cf + Len(c.pay) /\ cf = Sub(c.seq, sb.isn)
        /\ xu = xf + Len(x.pay) /\ xf = Sub(x.seq, sb.isn)
    BY <1>2 DEF Upto, Rel
  <2>2. /\ c \in Segs /\ Within(sb.isn, M, c) /\ x \in Segs /\ Within(sb.isn, M, x)
        /\ sb.isn \in Seqs
    BY <1>1, <1>2
  <2> HIDE DEF cf, cu, xf, xu, c, x
  <2>3. /\ SeqCompare(End(c), x.seq) >= 0 <=> cu >= xf
        /\ SeqCompare(End(x), End(c)) <= 0 <=> xu <= cu
        /\ cu >= xf => Sub(End(c), x.seq) = cu - xf
    BY <2>1, <2>2, Comparisons
  <2> QED BY <2>3 DEF c, x
<1>4. cu \in Nat /\ xf \in Nat /\ xu \in Nat
  BY <1>1, Offsets
<1>5. xf < cu => xu <= cu
  <2>1. After(sb, at) = cu /\ After(sb, at + 1) = xu
    BY <1>1 DEF After
  <2> QED BY <1>1, <2>1 DEF Tidy, Nested
<1> HIDE DEF cu, xf, xu
<1>6. /\ Adjacent <=> xf <= cu
      /\ NextInside <=> xu <= cu
  BY <1>3, <1>4 DEF Adjacent, NextInside
<1> QED BY <1>1, <1>3, <1>4, <1>5, <1>6 DEF cu, xf, xu

\* The merged segment ends where the second one did: its length fits a
\* uint16_t.
LEMMA MergedOffsets ==
  ASSUME NEW M, Short(M), M < LenMod, BufferOK(sb), Span(sb, M), Ordered(sb), Tidy(sb),
         Merging, Adjacent, ~ NextInside
  PROVE  /\ Merged.seq = curr.seq
         /\ Rel(sb, sb.at) + Len(Merged.pay) = Upto(sb, sb.at + 1)
<1> DEFINE c == curr
           x == next
           k == Sub(End(c), x.seq)
           tail == Drop(x.pay, k)
           all == c.pay \o tail
           p == SubSeq(all, 1, Len(all) % LenMod)
<1>1. /\ sb.at \in 1 .. Len(sb.seg_list) /\ sb.at + 1 \in 1 .. Len(sb.seg_list)
      /\ Rel(sb, sb.at + 1) = Upto(sb, sb.at) /\ k = Upto(sb, sb.at) - Rel(sb, sb.at + 1)
  BY MergeOffsets
<1>2. Rel(sb, sb.at) \in Nat /\ Upto(sb, sb.at) \in Nat /\ Upto(sb, sb.at + 1) <= M /\ M \in Nat
      /\ Rel(sb, sb.at + 1) \in Nat
  BY <1>1, Offsets
<1>3. c.pay \in Seq(Seqs) /\ x.pay \in Seq(Seqs) /\ Len(c.pay) \in Nat /\ Len(x.pay) \in Nat
  <2>1. c \in Segs /\ x \in Segs
    BY <1>1 DEF BufferOK, Buffers, curr, next
  <2> QED BY <2>1 DEF Segs
<1>4. /\ Upto(sb, sb.at) = Rel(sb, sb.at) + Len(c.pay)
      /\ Upto(sb, sb.at + 1) = Rel(sb, sb.at + 1) + Len(x.pay)
  BY DEF Upto, curr, next
<1>5. k = 0
  BY <1>1, <1>2
<1>6. Merged = [seq |-> c.seq, pay |-> p]
  BY DEF Merged
<1> HIDE DEF k, c, x
<1>7. tail \in Seq(Seqs) /\ Len(tail) = Len(x.pay)
  BY <1>3, <1>5 DEF Drop
<1> HIDE DEF tail
<1>8. all \in Seq(Seqs) /\ Len(all) = Len(c.pay) + Len(tail)
  BY <1>3, <1>7, ConcatType
<1> HIDE DEF all
<1>9. Rel(sb, sb.at) + Len(all) = Upto(sb, sb.at + 1) /\ Len(all) \in Nat /\ Len(all) < LenMod
  <2> DEFINE cf == Rel(sb, sb.at)
             cu == Upto(sb, sb.at)
             xf == Rel(sb, sb.at + 1)
             xu == Upto(sb, sb.at + 1)
             e == Len(all)
             l == Len(c.pay)
             n == Len(x.pay)
  <2>1. /\ cf \in Nat /\ l \in Nat /\ n \in Nat /\ M \in Nat /\ LenMod \in Nat
        /\ cu = cf + l /\ xf = cu /\ xu = xf + n /\ e = l + n /\ xu <= M /\ M < LenMod
    BY <1>1, <1>2, <1>3, <1>4, <1>7, <1>8, StreamAssumption
  <2> HIDE DEF cf, cu, xf, xu, e, l, n
  <2>2. cf + e = xu /\ e \in Nat /\ e < LenMod
    BY <2>1
  <2> QED BY <2>2 DEF cf, xu, e
<1>10. Len(all) % LenMod = Len(all)
  BY <1>9, StreamAssumption
<1>11. Len(p) = Len(all)
  BY <1>8, <1>9, <1>10
<1> HIDE DEF p
<1> QED BY <1>6, <1>9, <1>11 DEF c

\* try_merge_segments joins two segments: first the longer one takes the
\* place of the earlier, then the later is taken out.
LEMMA MergeNextTidy ==
  ASSUME NEW M, Short(M), M < LenMod, BufferOK(sb), Span(sb, M), Ordered(sb), Tidy(sb),
         MergeNext, NEW A \in SUBSET Seqs, AllHeld(sb, A)
  PROVE  Tidy(sb') /\ AllHeld(sb', A)
<1> DEFINE q == sb.seg_list
           at == sb.at
           b == [sb EXCEPT !.seg_list[sb.at] = Merged]
           r == [q EXCEPT ![at] = Merged]
           F(j) == Rel(sb, j)
           U(j) == Upto(sb, j)
<1>0. /\ Merging /\ Adjacent /\ ~ NextInside /\ sb' = Unqueue(b, at + 1) /\ sb.phase = "merge"
      /\ sb \in Buffers /\ q \in Seq(Segs)
  BY DEF MergeNext, Merging, BufferOK, Buffers
<1>1. /\ at \in 1 .. Len(q) /\ at + 1 \in 1 .. Len(q) /\ F(at + 1) = U(at)
      /\ ~ (U(at + 1) <= U(at))
  BY <1>0, MergeOffsets
<1>2. Merged.seq = q[at].seq /\ F(at) + Len(Merged.pay) = U(at + 1)
  BY <1>0, MergedOffsets DEF curr
<1>3. Within(sb.isn, M, Merged) /\ SegOK(Merged)
  BY <1>0, MergedWithin, MergedOK
<1>4. BufferOK(b)
  BY <1>1, <1>3, ReplaceSegOK
<1>5. /\ b.seg_list = r /\ b.isn = sb.isn /\ b.phase = "merge" /\ b.at = at
      /\ b.new = sb.new /\ b.next_seq = sb.next_seq /\ b.base_seq = sb.base_seq /\ b.data = sb.data
  BY <1>0 DEF Buffers
<1>6. Len(r) = Len(q) /\ \A k \in 1 .. Len(q) : r[k] = IF k = at THEN Merged ELSE q[k]
  BY <1>0, <1>1
<1> HIDE DEF b, r
<1>7. Span(b, M)
  <2>1. \A k \in 1 .. Len(q) : Within(sb.isn, M, r[k])
    BY <1>3, <1>6 DEF Span
  <2> QED BY <1>5, <1>6, <2>1 DEF Span
<1>8. /\ Reached(b) = Reached(sb) /\ Len(b.seg_list) = Len(q)
      /\ \A k \in 1 .. Len(q) : Rel(b, k) = F(k) /\ Upto(b, k) = IF k = at THEN U(at + 1) ELSE U(k)
  <2>1. Reached(b) = Reached(sb)
    BY <1>5 DEF Reached
  <2>2. ASSUME NEW k \in 1 .. Len(q)
        PROVE  Rel(b, k) = F(k) /\ Upto(b, k) = IF k = at THEN U(at + 1) ELSE U(k)
    BY <1>2, <1>5, <1>6 DEF Rel, Upto
  <2> QED BY <1>5, <1>6, <2>1, <2>2
<1>9. /\ Len(q) \in Nat /\ at \in Nat /\ Reached(sb) \in Nat
      /\ \A k \in 1 .. Len(q) : F(k) \in Nat /\ U(k) \in Nat /\ F(k) <= U(k)
  BY Offsets
<1>10. \A i, k \in 1 .. Len(q) : i < k => F(i) <= F(k)
  BY <1>0 DEF Ordered
<1>11. \A i, k \in 1 .. Len(q) : i < k /\ F(k) < U(i) => U(k) <= U(i)
  <2>1. \A k \in 1 .. Len(q) : After(sb, k) = U(k)
    BY <1>0 DEF After
  <2> QED BY <2>1 DEF Tidy, Nested
<1>12. \A i, k \in 1 .. Len(q) : i < at /\ i < k => U(i) <= F(k)
  BY <1>0 DEF Tidy, MergedBefore
<1>13. \A k \in 1 .. Len(q) : F(k) > Reached(sb)
  BY <1>0 DEF Tidy, Ahead
<1>14. \A k \in 1 .. Len(q) : CutAt(F(k)) /\ CutAt(U(k))
  BY DEF Tidy, Cuts
<1> HIDE DEF F, U, q, at
<1>15. Cuts(b)
  BY <1>1, <1>8, <1>14 DEF Tidy, Cuts
<1>16. Ahead(b)
  BY <1>1, <1>8, <1>9, <1>13 DEF Ahead
<1>17. Nested(b)
  <2>1. \A k \in 1 .. Len(q) : After(b, k) = Upto(b, k)
    BY <1>5 DEF After
  <2> SUFFICES ASSUME NEW i \in 1 .. Len(q), NEW k \in 1 .. Len(q), i < k, Rel(b, k) < Upto(b, i)
               PROVE  Upto(b, k) <= Upto(b, i)
    BY <1>8, <2>1 DEF Nested
  <2>2. CASE i # at /\ k # at
    BY <1>8, <1>11, <2>2
  <2>3. CASE k = at
    <3>1. U(i) <= F(k) /\ Upto(b, i) = U(i) /\ Rel(b, k) = F(k)
      BY <1>8, <1>9, <1>12, <2>3
    <3> QED BY <1>9, <3>1
  <2>4. CASE i = at
    <3>1. Upto(b, i) = U(at + 1) /\ Upto(b, k) = U(k) /\ Rel(b, k) = F(k)
      BY <1>8, <1>9, <2>4
    <3>2. CASE k = at + 1
      BY <1>1, <1>9, <3>1, <3>2
    <3>3. CASE k # at + 1
      <4>1. at + 1 < k
        BY <1>9, <2>4, <3>3
      <4> QED BY <1>1, <1>11, <3>1, <4>1
    <3> QED BY <3>2, <3>3
  <2> QED BY <2>2, <2>3, <2>4
<1>18. MergedBefore(b)
  <2> SUFFICES ASSUME NEW i \in 1 .. Len(q), NEW k \in 1 .. Len(q), i < at, i < k
               PROVE  Upto(b, i) <= Rel(b, k)
    BY <1>5, <1>8 DEF MergedBefore
  <2>1. i # at
    BY <1>9
  <2> QED BY <1>8, <1>12, <2>1
<1>19. Tidy(b)
  <2>1. NewSent(b)
    BY <1>5 DEF NewSent
  <2> QED BY <1>15, <1>16, <1>17, <1>18, <2>1 DEF Tidy
<1>20. AllHeld(b, A)
  <2> SUFFICES ASSUME NEW y \in Nat, Held(sb, y) PROVE Held(b, y)
    <3>1. ASSUME NEW p \in A PROVE Sub(p, sb.isn) \in Nat /\ Held(sb, Sub(p, sb.isn))
      BY SubType DEF AllHeld, BufferOK, Buffers
    <3> QED BY <1>5, <3>1 DEF AllHeld
  <2>1. CASE y < Reached(sb)
    BY <1>8, <2>1 DEF Held
  <2>2. ASSUME NEW k \in 1 .. Len(q), F(k) <= y, y < U(k) PROVE Held(b, y)
    <3>1. Rel(b, k) <= y /\ y < Upto(b, k)
      BY <1>1, <1>8, <1>9, <2>2
    <3> QED BY <1>8, <3>1 DEF Held
  <2> QED BY <1>0, <2>1, <2>2 DEF Held, F, U, q
<1>21. at + 1 \in 1 .. Len(b.seg_list) /\ Redundant(b, at + 1) /\ b.at < at + 1
  <2>1. F(at) <= F(at + 1) /\ at # at + 1
    BY <1>1, <1>9, <1>10
  <2>2. /\ Rel(b, at) <= Rel(b, at + 1) /\ Upto(b, at + 1) <= Upto(b, at)
    BY <1>1, <1>8, <1>9, <2>1
  <2> QED BY <1>1, <1>5, <1>8, <1>9, <2>1, <2>2 DEF Redundant
<1> QED BY <1>0, <1>4, <1>5, <1>7, <1>19, <1>20, <1>21, RemoveKeeps

\* Steps of the loops that leave the queue alone, and those that take a
\* segment out.
LEMMA LoopTidy ==
  ASSUME NEW M, Short(M), Apart, M < LenMod, M <= MaxBuffer,
         BufferOK(sb), Span(sb, M), Ordered(sb), Tidy(sb), InsertLoops,
         NEW A \in SUBSET Seqs, AllHeld(sb, A)
  PROVE  Tidy(sb') /\ AllHeld(sb', A)
<1> DEFINE q == sb.seg_list
           n == Len(q)
<1>0. /\ sb \in Buffers /\ q \in Seq(Segs) /\ sb.isn \in Seqs
      /\ \A p \in A : Sub(p, sb.isn) \in Nat
  BY SubType DEF BufferOK, Buffers
<1>1. /\ n \in Nat /\ sb.at \in Nat \ {0} /\ Reached(sb) \in Nat
      /\ \A j \in 1 .. n : /\ Rel(sb, j) \in Nat /\ Upto(sb, j) \in Nat
                           /\ Rel(sb, j) <= Upto(sb, j) /\ Upto(sb, j) <= M
  BY Offsets
<1>2. sb.phase # "overlap" => \A i, j \in 1 .. n : i < j => Rel(sb, i) <= Rel(sb, j)
  BY DEF Ordered
\* only phase and at change, and the new phase asks for no more
<1>3. ASSUME sb.phase # "overlap", sb'.phase # "overlap", sb'.seg_list = q, sb'.isn = sb.isn,
             sb'.next_seq = sb.next_seq,
             sb'.phase \in {sb.phase, "process"} \/ \A j \in 1 .. n : Rel(sb, j) > Reached(sb),
             sb'.phase = "merge" =>
                \A i, j \in 1 .. n : i < sb'.at /\ i < j => Upto(sb, i) <= Rel(sb, j)
      PROVE  Tidy(sb') /\ AllHeld(sb', A)
  <2>1. /\ Reached(sb') = Reached(sb) /\ Len(sb'.seg_list) = n
        /\ \A j \in 1 .. n : Rel(sb', j) = Rel(sb, j) /\ Upto(sb', j) = Upto(sb, j)
    BY <1>3 DEF Reached, Rel, Upto
  <2>2. \A j \in 1 .. n : After(sb', j) = Upto(sb, j) /\ After(sb, j) = Upto(sb, j)
    BY <1>3, <2>1 DEF After
  <2>3. Cuts(sb')
    BY <2>1 DEF Tidy, Cuts
  <2>4. NewSent(sb') /\ MergedBefore(sb')
    BY <1>3, <2>1 DEF NewSent, MergedBefore
  <2>5. Ahead(sb')
    <3>1. \A j \in 1 .. n : /\ sb.phase # "process" => Rel(sb, j) > Reached(sb)
                            /\ Rel(sb, j) < Reached(sb) => Upto(sb, j) <= Reached(sb)
      BY DEF Tidy, Ahead
    <3> QED BY <1>3, <2>1, <3>1 DEF Ahead
  <2>6. Nested(sb')
    BY <2>1, <2>2 DEF Tidy, Nested
  <2>7. \A x : Held(sb, x) => Held(sb', x)
    BY <1>3, <2>1 DEF Held
  <2> QED BY <1>3, <2>3, <2>4, <2>5, <2>6, <2>7 DEF Tidy, AllHeld
<1>4. CASE OverlapRemove
  <2>1. /\ sb.at \in 1 .. n /\ sb' = Unqueue(sb, sb.at) /\ sb.phase = "overlap"
        /\ Covers(sb.new, q[sb.at])
    BY <1>1, <1>4 DEF OverlapRemove
  <2>2. NewFrom(sb) <= Rel(sb, sb.at) /\ NewUpto(sb) >= Upto(sb, sb.at)
    <3>1. /\ sb.new \in Segs /\ Within(sb.isn, M, sb.new)
          /\ q[sb.at] \in Segs /\ Within(sb.isn, M, q[sb.at])
      BY <1>0, <2>1 DEF Span, Buffers
    <3> QED BY <1>0, <2>1, <3>1, Comparisons DEF NewFrom, NewUpto, Rel, Upto
  <2>3. NewUpto(sb) \in Nat
    BY Offsets
  <2>4. Redundant(sb, sb.at)
    BY <1>1, <2>1, <2>2, <2>3 DEF Redundant
  <2> QED BY <2>1, <2>4, RemoveKeeps
<1>5. CASE OverlapTrim
  <2>1. Tidy(sb') /\ (\A x \in Nat : Held(sb, x) => Held(sb', x)) /\ sb'.isn = sb.isn
    BY <1>5, TrimTidy
  <2> QED BY <1>0, <2>1 DEF AllHeld
<1>6. CASE QueueInsert
  <2>1. Tidy(sb') /\ (\A x \in Nat : Held(sb, x) => Held(sb', x)) /\ sb'.isn = sb.isn
    BY <1>6, InsertTidy
  <2> QED BY <1>0, <2>1 DEF AllHeld
<1>7. CASE MergeContained
  <2>1. /\ sb' = Unqueue(sb, sb.at + 1) /\ sb.phase = "merge" /\ Merging /\ Adjacent /\ NextInside
    BY <1>7 DEF MergeContained, Merging
  <2>2. /\ sb.at \in 1 .. n /\ sb.at + 1 \in 1 .. n /\ sb.at < sb.at + 1 /\ sb.at # sb.at + 1
        /\ Upto(sb, sb.at + 1) <= Upto(sb, sb.at)
    BY <1>1, <2>1, MergeOffsets
  <2>3. Rel(sb, sb.at) <= Rel(sb, sb.at + 1)
    BY <1>2, <2>1, <2>2
  <2>4. Redundant(sb, sb.at + 1)
    BY <2>2, <2>3 DEF Redundant
  <2> QED BY <2>1, <2>2, <2>4, RemoveKeeps
<1>8. CASE MergeNext
  BY <1>8, MergeNextTidy
<1>9. CASE MergeSkip
  <2>1. /\ sb' = [sb EXCEPT !.at = sb.at + 1] /\ sb.phase = "merge" /\ Merging
        /\ Adjacent => ~ NextInside
    BY <1>9 DEF MergeSkip, Merging
  <2>2. /\ sb'.phase = "merge" /\ sb'.seg_list = q /\ sb'.isn = sb.isn /\ sb'.next_seq = sb.next_seq
        /\ sb'.at = sb.at + 1
    BY <1>0, <2>1 DEF Buffers
  <2>3. sb.at \in 1 .. n /\ sb.at + 1 \in 1 .. n /\ Upto(sb, sb.at) <= Rel(sb, sb.at + 1)
    BY <2>1, MergeOffsets
  <2>4. ASSUME NEW i \in 1 .. n, NEW j \in 1 .. n, i < sb.at + 1, i < j
        PROVE  Upto(sb, i) <= Rel(sb, j)
    <3>1. CASE i < sb.at
      BY <2>1, <2>4, <3>1 DEF Tidy, MergedBefore
    <3>2. CASE i = sb.at /\ j = sb.at + 1
      BY <2>3, <3>2
    <3>3. CASE i = sb.at /\ j # sb.at + 1
      <4>1. sb.at + 1 < j
        BY <1>1, <2>4, <3>3
      <4>2. Rel(sb, sb.at + 1) <= Rel(sb, j)
        BY <1>2, <2>1, <2>3, <4>1
      <4> QED BY <1>1, <2>3, <3>3, <4>2
    <3> QED BY <1>1, <2>4, <3>1, <3>2, <3>3
  <2> QED BY <1>3, <2>1, <2>2, <2>4
<1>10. CASE MergeDone
  <2>1. /\ sb.phase = "merge" /\ sb' = [sb EXCEPT !.phase = "process", !.at = 1]
    BY <1>10 DEF MergeDone
  <2>2. /\ sb'.phase = "process" /\ sb'.seg_list = q /\ sb'.isn = sb.isn /\ sb'.next_seq = sb.next_seq
    BY <1>0, <2>1 DEF Buffers
  <2> QED BY <1>3, <2>1, <2>2
\* the head of the queue against next_seq
<1>11. ASSUME Processing
       PROVE  /\ 1 \in 1 .. n /\ head = q[1] /\ sb.phase = "process"
              /\ Gap <=> Rel(sb, 1) > Reached(sb)
              /\ head.seq = sb.next_seq <=> Rel(sb, 1) = Reached(sb)
  <2>1. 1 \in 1 .. n /\ head = q[1] /\ sb.phase = "process"
    BY <1>0, <1>1, <1>11 DEF Processing, head
  <2>2. q[1] \in Segs /\ Within(sb.isn, M, q[1])
    BY <1>0, <2>1 DEF Span
  <2>3. q[1].seq \in Seqs /\ 2 * Sub(q[1].seq, sb.isn) < SeqSpace
    BY <1>0, <2>2, RelTypes
  <2>4. sb.next_seq \in Seqs /\ 2 * Sub(sb.next_seq, sb.isn) < SeqSpace
    <3>1. sb.next_seq \in Seqs /\ Reached(sb) <= M
      BY NextRel DEF Reached
    <3>2. M \in Nat /\ 2 * M < SeqSpace /\ SeqSpace \in Nat
      BY StreamAssumption DEF Short
    <3> QED BY <1>1, <3>1, <3>2 DEF Reached
  <2>5. /\ SeqCompare(q[1].seq, sb.next_seq) > 0 <=> Rel(sb, 1) > Reached(sb)
        /\ q[1].seq = sb.next_seq <=> Rel(sb, 1) = Reached(sb)
    BY <1>0, <2>3, <2>4, Compare DEF Rel, Reached
  <2> QED BY <2>1, <2>5 DEF Gap
<1>12. CASE ProcessStale
  <2>1. Processing /\ head.seq # sb.next_seq /\ ~ Gap /\ sb' = Unqueue(sb, 1)
    BY <1>12 DEF ProcessStale
  <2>2. 1 \in 1 .. n /\ sb.phase = "process" /\ Rel(sb, 1) < Reached(sb)
    BY <1>1, <1>11, <2>1
  <2>3. Redundant(sb, 1)
    BY <2>2 DEF Redundant, Tidy, Ahead
  <2> QED BY <2>1, <2>2, <2>3, RemoveKeeps
<1>13. CASE ProcessHead
  <2> DEFINE b == AppendData(sb, head)
  <2>1. Processing /\ head.seq = sb.next_seq /\ Fits(head) /\ sb' = Unqueue(b, 1)
    BY <1>13 DEF ProcessHead
  <2>2. 1 \in 1 .. n /\ head = q[1] /\ sb.phase = "process" /\ Rel(sb, 1) = Reached(sb)
    BY <1>11, <2>1
  <2>3. SegOK(head) /\ head \in Segs /\ Within(sb.isn, M, head)
    BY <1>0, <2>2 DEF BufferOK, QueueOK, Span
  <2>4. BufferOK(b)
    BY <2>1, <2>3, AppendOK DEF Fits
  <2>5. /\ Sub(b.base_seq, b.isn) + Len(b.data) <= M
        /\ b.isn = sb.isn /\ b.seg_list = q /\ b.phase = "process"
    BY <2>1, <2>2, <2>3, AppendSpan
  <2>6. b.next_seq = End(head)
    BY <1>0, <2>1 DEF AppendData, Buffers, End
  <2> HIDE DEF b
  <2>7. Span(b, M)
    BY <2>5 DEF Span
  <2>8. Reached(b) = Upto(sb, 1)
    <3>1. Sub(End(head), sb.isn) = Sub(head.seq, sb.isn) + Len(head.pay)
      BY <1>0, <2>3, RelTypes
    <3> QED BY <2>2, <2>5, <2>6, <3>1 DEF Reached, Upto, Rel
  <2>9. \A j \in 1 .. n : Rel(b, j) = Rel(sb, j) /\ Upto(b, j) = Upto(sb, j)
    BY <2>5 DEF Rel, Upto
  <2>10. \A j \in 1 .. n : After(b, j) = Upto(sb, j) /\ After(sb, j) = Upto(sb, j)
    BY <2>2, <2>5, <2>9 DEF After
  <2>11. Cuts(b)
    BY <2>2, <2>5, <2>8, <2>9 DEF Tidy, Cuts
  <2>12. NewSent(b) /\ MergedBefore(b)
    BY <2>5 DEF NewSent, MergedBefore
  <2>13. Ahead(b)
    <3> SUFFICES ASSUME NEW j \in 1 .. n, Rel(sb, j) < Upto(sb, 1) PROVE Upto(sb, j) <= Upto(sb, 1)
      BY <2>5, <2>8, <2>9 DEF Ahead
    <3>1. CASE j = 1
      BY <1>1, <3>1
    <3>2. CASE j # 1
      <4>1. 1 < j
        BY <1>1, <3>2
      <4> QED BY <2>2, <2>10, <4>1 DEF Tidy, Nested
    <3> QED BY <3>1, <3>2
  <2>14. Nested(b)
    BY <2>5, <2>9, <2>10 DEF Tidy, Nested
  <2>15. ASSUME NEW x \in Nat, Held(sb, x) PROVE Held(b, x)
    <3>1. CASE x < Reached(sb)
      <4>1. x < Reached(b)
        BY <1>1, <2>2, <2>8, <3>1
      <4> QED BY <4>1 DEF Held
    <3>2. ASSUME NEW j \in 1 .. n, Rel(sb, j) <= x, x < Upto(sb, j) PROVE Held(b, x)
      BY <2>5, <2>9, <3>2 DEF Held
    <3> QED BY <2>2, <2>15, <3>1, <3>2 DEF Held
  <2>16. Tidy(b) /\ AllHeld(b, A)
    BY <1>0, <2>5, <2>11, <2>12, <2>13, <2>14, <2>15 DEF Tidy, AllHeld
  <2>17. 1 \in 1 .. Len(b.seg_list) /\ Redundant(b, 1)
    BY <1>1, <2>2, <2>5, <2>8, <2>9 DEF Redundant
  <2> QED BY <2>1, <2>4, <2>5, <2>7, <2>16, <2>17, RemoveKeeps
<1>14. CASE ProcessEnd
  <2>1. /\ sb.phase = "process" /\ sb' = [sb EXCEPT !.phase = "idle"]
        /\ q # <<>> => Gap \/ (head.seq = sb.next_seq /\ ~ Fits(head))
    BY <1>14 DEF ProcessEnd
  <2>2. /\ sb'.phase = "idle" /\ sb'.seg_list = q /\ sb'.isn = sb.isn /\ sb'.next_seq = sb.next_seq
    BY <1>0, <2>1 DEF Buffers
  <2>3. ASSUME NEW j \in 1 .. n PROVE Rel(sb, j) > Reached(sb)
    <3>1. Processing
      BY <1>0, <1>1, <2>1, <2>3 DEF Processing
    <3>2. 1 \in 1 .. n /\ head = q[1]
      BY <1>11, <3>1
    \* a stream that fits the buffer leaves room for the head of the queue
    <3>3. head.seq = sb.next_seq => Fits(head)
      <4> SUFFICES ASSUME head.seq = sb.next_seq PROVE Fits(head)
        OBVIOUS
      <4>1. Rel(sb, 1) = Reached(sb) /\ Upto(sb, 1) = Rel(sb, 1) + Len(head.pay) /\ Upto(sb, 1) <= M
        BY <1>1, <1>11, <3>1, <3>2 DEF Upto
      <4>2. Reached(sb) = Sub(sb.base_seq, sb.isn) + Len(sb.data)
        BY NextRel DEF Reached
      <4>3. Sub(sb.base_seq, sb.isn) \in Nat /\ Len(sb.data) \in Nat /\ Len(head.pay) \in Nat
        <5>1. head \in Segs /\ sb.base_seq \in Seqs
          BY <1>0, <3>2 DEF Buffers
        <5>2. Sub(sb.base_seq, sb.isn) \in Nat
          BY <1>0, <5>1, SubType
        <5>3. sb.data \in Seq(Seqs) /\ head.pay \in Seq(Seqs)
          BY <1>0, <5>1 DEF Segs, Buffers
        <5> QED BY <5>2, <5>3
      <4>4. M \in Nat /\ MaxBuffer \in Nat
        BY StreamAssumption DEF Short
      <4> DEFINE u == Sub(sb.base_seq, sb.isn)
                 l == Len(sb.data)
                 h == Len(head.pay)
      <4>5. u \in Nat /\ l \in Nat /\ h \in Nat /\ (u + l) + h <= M
        BY <4>1, <4>2, <4>3
      <4> HIDE DEF u, l, h
      <4>6. l + h <= MaxBuffer
        BY <4>4, <4>5
      <4> QED BY <4>6 DEF Fits, l, h
    <3>4. Rel(sb, 1) > Reached(sb)
      BY <1>11, <2>1, <3>1, <3>3 DEF Processing
    <3>5. Rel(sb, 1) <= Rel(sb, j)
      <4>1. j = 1 \/ 1 < j
        BY <1>1
      <4> QED BY <1>1, <1>2, <2>1, <3>2, <4>1
    <3> QED BY <1>1, <3>2, <3>4, <3>5
  <2> QED BY <1>3, <2>1, <2>2, <2>3
<1> QED BY <1>4, <1>5, <1>6, <1>7, <1>8, <1>9, <1>10, <1>12, <1>13, <1>14 DEF InsertLoops

\* What arrives, in offsets.
LEMMA ArrivedOffsets ==
  ASSUME NEW M, Short(M), BufferOK(sb), NEW g \in Segments
  PROVE  /\ g.off \in Nat /\ g.len \in Nat \ {0}
         /\ Arrived(g) \in Segs /\ Within(sb.isn, M, Arrived(g))
         /\ Sub(Arrived(g).seq, sb.isn) = g.off /\ Len(Arrived(g).pay) = g.len
         /\ \A p \in Positions(Arrived(g)) : g.off <= Sub(p, sb.isn) /\ Sub(p, sb.isn) < g.off + g.len
<1> DEFINE s == Add(sb.isn, g.off)
           a == Arrived(g)
           i0 == sb.isn
<1>1. /\ g.off \in Nat /\ g.len \in Nat \ {0} /\ i0 \in Seqs
      /\ M \in Nat /\ 2 * M < SeqSpace /\ g.off + g.len <= M /\ SeqSpace \in Nat \ {0}
  BY StreamAssumption DEF BufferOK, Buffers, Short
<1>2. Sub(i0, i0) = 0
  <2>1. i0 \in Int
    BY <1>1, SeqsInt
  <2> QED BY <1>1, <2>1, SubCases
<1>3. s \in Seqs /\ Sub(s, i0) = g.off
  <2>1. Sub(i0, i0) + g.off < SeqSpace
    BY <1>1, <1>2
  <2>2. s \in Seqs /\ Sub(s, i0) = Sub(i0, i0) + g.off
    BY <1>1, <2>1, AddRel
  <2> QED BY <1>1, <1>2, <2>2
<1>4. a \in Segs
  BY ArrivedOK DEF SegOK
<1>5. /\ a.seq = s /\ Len(a.pay) = g.len /\ DOMAIN a.pay = 1 .. g.len
      /\ \A k \in 1 .. g.len : a.pay[k] = Add(s, k - 1)
  BY <1>1 DEF Arrived
<1> HIDE DEF s, a
<1>6. ASSUME NEW k \in 1 .. g.len
      PROVE  g.off <= Sub(a.pay[k], i0) /\ Sub(a.pay[k], i0) < g.off + g.len
  <2>1. k - 1 \in Nat /\ Sub(s, i0) + (k - 1) < SeqSpace
    BY <1>1, <1>3
  <2>2. Sub(Add(s, k - 1), i0) = Sub(s, i0) + (k - 1)
    BY <1>1, <1>3, <2>1, AddRel
  <2>3. Sub(a.pay[k], i0) = g.off + (k - 1)
    BY <1>3, <1>5, <2>2
  <2> QED BY <1>1, <2>1, <2>3
<1>7. \A p \in Positions(a) : g.off <= Sub(p, i0) /\ Sub(p, i0) < g.off + g.len
  BY <1>5, <1>6 DEF Positions
<1> QED BY <1>1, <1>3, <1>4, <1>5, <1>7 DEF Within, a

\* What CutBefore leaves, in offsets.
LEMMA CutOffsets ==
  ASSUME NEW i \in Seqs, NEW M, Short(M), NEW seg \in Segs, Within(i, M, seg),
         NEW t \in Seqs, Sub(t, i) <= M,
         NEW f, NEW u, NEW c, f = Sub(seg.seq, i), u = f + Len(seg.pay), c = Sub(t, i)
  PROVE  /\ c <= f => CutBefore(seg, t) = seg
         /\ f < c /\ c <= u => /\ Sub(CutBefore(seg, t).seq, i) = c
                               /\ c + Len(CutBefore(seg, t).pay) = u
<1>1. /\ seg.seq \in Seqs /\ seg.pay \in Seq(Seqs) /\ Len(seg.pay) \in Nat /\ f \in Nat
      /\ M \in Nat /\ 2 * M < SeqSpace /\ SeqSpace \in Nat /\ 2 * f < SeqSpace
  BY RelTypes
<1>2. c \in Nat /\ 2 * c < SeqSpace
  BY <1>1, SubType
<1>3. /\ SeqCompare(seg.seq, t) < 0 <=> f < c
      /\ c >= f => Sub(t, seg.seq) = c - f
  BY <1>1, <1>2, Compare
<1>4. c <= f => CutBefore(seg, t) = seg
  BY <1>1, <1>2, <1>3 DEF CutBefore
<1>5. ASSUME f < c, c <= u
      PROVE  Sub(CutBefore(seg, t).seq, i) = c /\ c + Len(CutBefore(seg, t).pay) = u
  <2> DEFINE n == Sub(t, seg.seq)
  <2>1. n = c - f /\ n \in Nat /\ n <= Len(seg.pay)
    BY <1>1, <1>2, <1>3, <1>5
  <2>2. CutBefore(seg, t) = [seq |-> t, pay |-> Drop(seg.pay, n)]
    BY <1>3, <1>5 DEF CutBefore
  <2> HIDE DEF n
  <2>3. Len(Drop(seg.pay, n)) = IF n <= Len(seg.pay) THEN Len(seg.pay) - n ELSE 0
    <3>1. seg.pay \in Seq(Seqs) /\ Len(seg.pay) \in Nat /\ n \in Nat
      BY <1>1, <2>1
    <3> QED BY <3>1 DEF Drop
  <2>4. CutBefore(seg, t).seq = t /\ CutBefore(seg, t).pay = Drop(seg.pay, n)
    BY <2>2
  <2> DEFINE e == Len(seg.pay)
             d == Len(Drop(seg.pay, n))
  <2>5. /\ e \in Nat /\ n \in Nat /\ f \in Nat /\ c \in Nat /\ n = c - f /\ n <= e
        /\ d = e - n /\ u = f + e
    BY <1>1, <1>2, <2>1, <2>3
  <2> HIDE DEF e, d
  <2>6. c + d = u
    BY <2>5
  <2> QED BY <2>4, <2>6 DEF d
<1> QED BY <1>4, <1>5

\* A segment is all old or all new.  insert_segment drops it in the one case,
\* and has nothing to cut from it in the other.
LEMMA OldOrNew ==
  ASSUME NEW M, Short(M), BufferOK(sb), Span(sb, M), Cuts(sb), NEW g \in Segments
  PROVE  /\ g.off + g.len <= Reached(sb) => Consumed(g) \/ Reassembled(g)
         /\ ~ (g.off + g.len <= Reached(sb)) =>
               /\ g.off >= Reached(sb) /\ ~ Consumed(g) /\ ~ Reassembled(g)
               /\ InWindow(g) = Arrived(g) /\ CutBefore(InWindow(g), sb.next_seq) = Arrived(g)
               /\ InOrder(g) <=> g.off = Reached(sb)
<1> DEFINE i0 == sb.isn
           a == Arrived(g)
           w == InWindow(g)
           f == g.off
           u == g.off + g.len
           B == Sub(sb.base_seq, i0)
           R == Reached(sb)
<1>1. /\ f \in Nat /\ g.len \in Nat \ {0} /\ a \in Segs /\ Within(i0, M, a)
      /\ Sub(a.seq, i0) = f /\ Len(a.pay) = g.len
  BY ArrivedOffsets
<1>2. /\ i0 \in Seqs /\ sb.base_seq \in Seqs /\ sb.next_seq \in Seqs
      /\ B \in Nat /\ R \in Nat /\ B <= R /\ R <= M /\ M \in Nat /\ 2 * M < SeqSpace /\ SeqSpace \in Nat
  <2>1. /\ i0 \in Seqs /\ sb.base_seq \in Seqs /\ sb.next_seq \in Seqs /\ Len(sb.data) \in Nat
    BY DEF BufferOK, Buffers
  <2>2. B \in Nat /\ R \in Nat
    BY <2>1, SubType DEF Reached
  <2>3. R = B + Len(sb.data) /\ R <= M
    BY NextRel DEF Reached
  <2>4. M \in Nat /\ 2 * M < SeqSpace /\ SeqSpace \in Nat
    BY StreamAssumption DEF Short
  <2> HIDE DEF B, R
  <2> QED BY <2>1, <2>2, <2>3, <2>4
<1>3. R = Sub(sb.next_seq, i0)
  BY DEF Reached
<1>4. w \in Segs /\ Within(i0, M, w)
  BY ArrivedWithin
<1>5. R <= f \/ u <= R
  BY DEF Cuts, CutAt
<1>6. u \in Nat /\ f < u /\ u <= M
  <2>1. u <= M
    BY DEF Short
  <2> QED BY <1>1, <2>1
\* the comparisons of the code
<1>7. SeqCompare(End(a), sb.base_seq) <= 0 <=> u <= B
  <2>1. End(a) \in Seqs /\ Sub(End(a), i0) = u
    BY <1>1, <1>2, RelTypes
  <2>2. 2 * u < SeqSpace /\ 2 * B < SeqSpace
    BY <1>2, <1>6
  <2> HIDE DEF a, i0, u, B
  <2> QED BY <1>2, <2>1, <2>2, Compare DEF B
<1>8. /\ B <= f => w = a
      /\ f < B /\ B <= u => Sub(w.seq, i0) = B /\ B + Len(w.pay) = u
  <2>1. B <= M /\ u = f + Len(a.pay)
    BY <1>1, <1>2
  <2> HIDE DEF i0, u, B, f
  <2> QED BY <1>1, <1>2, <2>1, CutOffsets DEF InWindow, B
<1>9. /\ SeqCompare(w.seq, sb.next_seq) < 0 <=> Sub(w.seq, i0) < R
      /\ w.seq = sb.next_seq <=> Sub(w.seq, i0) = R
      /\ SeqCompare(End(w), sb.next_seq) <= 0 <=> Sub(w.seq, i0) + Len(w.pay) <= R
  <2>1. /\ w.seq \in Seqs /\ End(w) \in Seqs /\ Sub(End(w), i0) = Sub(w.seq, i0) + Len(w.pay)
        /\ 2 * Sub(w.seq, i0) < SeqSpace /\ 2 * Sub(End(w), i0) < SeqSpace
    BY <1>2, <1>4, RelTypes
  <2>2. 2 * R < SeqSpace
    BY <1>2
  <2> HIDE DEF w, i0, R
  <2>3. /\ SeqCompare(w.seq, sb.next_seq) < 0 <=> Sub(w.seq, i0) < R
        /\ w.seq = sb.next_seq <=> Sub(w.seq, i0) = R
    BY <1>2, <1>3, <2>1, <2>2, Compare
  <2>4. SeqCompare(End(w), sb.next_seq) <= 0 <=> Sub(End(w), i0) <= R
    BY <1>2, <1>3, <2>1, <2>2, Compare
  <2> QED BY <2>1, <2>3, <2>4
<1>10. w.pay \in Seq(Seqs) /\ (w.pay = <<>> <=> Len(w.pay) = 0)
  BY <1>4 DEF Segs
<1> HIDE DEF w, i0, R, B, u, f, a
<1>11. Consumed(g) <=> u <= B \/ Len(w.pay) = 0
  BY <1>7, <1>10 DEF Consumed, a, w
<1>12. InOrder(g) <=> ~ Consumed(g) /\ Sub(w.seq, i0) = R
  BY <1>9 DEF InOrder, w
<1>13. Reassembled(g) <=> /\ ~ Consumed(g) /\ ~ InOrder(g)
                          /\ Sub(w.seq, i0) < R /\ Sub(w.seq, i0) + Len(w.pay) <= R
  BY <1>9 DEF Reassembled, w
<1>14. ASSUME u <= R PROVE Consumed(g) \/ Reassembled(g)
  <2> SUFFICES ASSUME ~ (u <= B), ~ Consumed(g) PROVE Reassembled(g)
    BY <1>11
  <2>1. CASE B <= f
    <3>1. Sub(w.seq, i0) = f /\ Sub(w.seq, i0) + Len(w.pay) = u
      BY <1>1, <1>8, <2>1 DEF u, f
    <3>2. f < R
      BY <1>1, <1>2, <1>6, <1>14
    <3> QED BY <1>1, <1>2, <1>12, <1>13, <1>14, <3>1, <3>2
  <2>2. CASE f < B
    <3>1. Sub(w.seq, i0) = B /\ Sub(w.seq, i0) + Len(w.pay) = u
      BY <1>2, <1>6, <1>8, <2>2
    <3>2. B < R
      BY <1>2, <1>6, <1>14
    <3> QED BY <1>2, <1>12, <1>13, <1>14, <3>1, <3>2
  <2> QED BY <1>1, <1>2, <2>1, <2>2
<1>15. ASSUME ~ (u <= R)
       PROVE  /\ f >= R /\ ~ Consumed(g) /\ ~ Reassembled(g)
              /\ w = a /\ CutBefore(w, sb.next_seq) = a
              /\ InOrder(g) <=> f = R
  <2>1. f >= R /\ B <= f /\ ~ (u <= B)
    BY <1>1, <1>2, <1>5, <1>6, <1>15
  <2>2. w = a
    BY <1>8, <2>1
  <2>3. Sub(w.seq, i0) = f /\ Len(w.pay) = g.len
    BY <1>1, <2>2
  <2>4. ~ Consumed(g)
    BY <1>1, <1>11, <2>1, <2>3
  <2>5. ~ Reassembled(g)
    BY <1>1, <1>2, <1>13, <2>1, <2>3
  <2>6. CutBefore(a, sb.next_seq) = a
    <3>1. R <= f
      BY <1>1, <1>2, <2>1
    <3> QED BY <1>1, <1>2, <1>3, <3>1, CutOffsets
  <2> QED BY <1>12, <2>1, <2>2, <2>3, <2>4, <2>5, <2>6
<1> QED BY <1>14, <1>15 DEF w, a, f, u, R

LEMMA CallTidy ==
  ASSUME NEW M, Short(M), Apart, BufferOK(sb), Span(sb, M), Tidy(sb),
         accepted \subseteq Seqs, AllHeld(sb, accepted),
         \/ \E isn \in Isns : BufferInit(isn)
         \/ BufferFree
         \/ \E g \in Segments : InsertSegment(g)
         \/ \E n \in ConsumeLens : Consume(n)
  PROVE  Tidy(sb') /\ AllHeld(sb', accepted')
<1> DEFINE q == sb.seg_list
           n == Len(q)
           R == Reached(sb)
<1>0. /\ sb \in Buffers /\ sb.isn \in Seqs
      /\ \A p \in accepted : Sub(p, sb.isn) \in Nat /\ Held(sb, Sub(p, sb.isn))
  BY SubType DEF BufferOK, Buffers, AllHeld
<1>1. /\ n \in Nat /\ R \in Nat
      /\ \A j \in 1 .. n : Rel(sb, j) \in Nat /\ Upto(sb, j) \in Nat
  BY Offsets
\* stream_buffer_init and stream_buffer_free
<1>2. ASSUME NEW i \in Seqs, sb'.next_seq = i, sb'.isn = i, sb'.seg_list = <<>>,
             sb'.phase = "idle", accepted' = {}
      PROVE  Tidy(sb') /\ AllHeld(sb', accepted')
  <2>1. Reached(sb') = 0
    <3>1. Sub(i, i) = 0
      BY SubCases, SeqsInt
    <3> QED BY <1>2, <3>1 DEF Reached
  <2>2. CutAt(0)
    BY StreamAssumption DEF CutAt
  <2>3. Len(sb'.seg_list) = 0
    BY <1>2
  <2>4. Cuts(sb') /\ Ahead(sb') /\ Nested(sb')
    BY <2>1, <2>2, <2>3 DEF Cuts, Ahead, Nested
  <2> QED BY <1>2, <2>4 DEF Tidy, NewSent, MergedBefore, AllHeld
<1>3. ASSUME NEW isn \in Isns, BufferInit(isn) PROVE Tidy(sb') /\ AllHeld(sb', accepted')
  <2>1. isn \in Seqs
    BY StreamAssumption DEF Seqs
  <2> QED BY <1>2, <1>3, <2>1 DEF BufferInit, NoBuffer
<1>4. CASE BufferFree
  <2>1. 0 \in Seqs
    BY StreamAssumption DEF Seqs
  <2> QED BY <1>2, <1>4, <2>1 DEF BufferFree, NoBuffer
<1>5. ASSUME NEW g \in Segments, InsertOld(g) PROVE Tidy(sb') /\ AllHeld(sb', accepted')
  <2>1. /\ sb' = sb /\ accepted' = accepted \cup Positions(Arrived(g))
        /\ Consumed(g) \/ Reassembled(g)
    BY <1>5 DEF InsertOld, Accept
  <2>2. g.off + g.len <= R
    BY <2>1, OldOrNew DEF Tidy
  <2>3. g.off \in Nat /\ g.len \in Nat
        /\ \A p \in Positions(Arrived(g)) : Sub(p, sb.isn) < g.off + g.len
    BY ArrivedOffsets
  <2>4. ASSUME NEW p \in Positions(Arrived(g)) PROVE Held(sb, Sub(p, sb.isn))
    <3>1. Sub(p, sb.isn) \in Nat
      BY <1>0, ArrivedOK, SubType
    <3>2. Sub(p, sb.isn) < R
      BY <1>1, <2>2, <2>3, <3>1
    <3> QED BY <3>2 DEF Held
  <2> QED BY <1>0, <2>1, <2>4 DEF AllHeld
\* a segment that is new, all of it
<1>6. ASSUME NEW g \in Segments, ~ Consumed(g) /\ ~ Reassembled(g)
      PROVE  /\ R <= g.off /\ InWindow(g) = Arrived(g)
             /\ CutBefore(InWindow(g), sb.next_seq) = Arrived(g)
             /\ InOrder(g) <=> g.off = R
  <2>1. ~ (g.off + g.len <= R)
    BY <1>6, OldOrNew DEF Tidy
  <2>2. g.off \in Nat
    BY ArrivedOffsets
  <2> QED BY <1>1, <2>1, <2>2, OldOrNew DEF Tidy
<1>7. ASSUME NEW g \in Segments, InsertInOrder(g) PROVE Tidy(sb') /\ AllHeld(sb', accepted')
  <2> DEFINE a == Arrived(g)
             b == AppendData(sb, a)
             u == g.off + g.len
  <2>1. ~ Consumed(g) /\ ~ Reassembled(g) /\ InOrder(g) /\ Fits(InWindow(g)) /\ sb.phase = "idle"
    BY <1>7 DEF InsertInOrder, InOrder, Reassembled, Ready
  <2>2. InWindow(g) = a /\ g.off = R
    BY <1>6, <2>1
  <2>3. /\ sb' = [b EXCEPT !.phase = "process"] /\ accepted' = accepted \cup Positions(a)
        /\ a.seq = sb.next_seq
    BY <1>7, <2>2 DEF InsertInOrder, InOrder, Accept
  <2>4. /\ g.off \in Nat /\ g.len \in Nat \ {0} /\ a \in Segs /\ Within(sb.isn, M, a)
        /\ Sub(a.seq, sb.isn) = g.off /\ Len(a.pay) = g.len
        /\ \A p \in Positions(a) : Sub(p, sb.isn) < u
    BY ArrivedOffsets
  <2>5. BufferOK(b)
    BY <2>1, <2>2, <2>3, ArrivedOK, AppendOK DEF Fits
  <2>6. b.seg_list = q /\ b.isn = sb.isn /\ b.next_seq = End(a)
    BY <1>0, <2>3 DEF AppendData, Buffers, End
  <2> HIDE DEF b
  <2>7. /\ sb'.seg_list = q /\ sb'.isn = sb.isn /\ sb'.next_seq = End(a) /\ sb'.phase = "process"
    BY <2>3, <2>5, <2>6 DEF BufferOK, Buffers
  <2>8. Reached(sb') = u
    <3>1. Sub(End(a), sb.isn) = Sub(a.seq, sb.isn) + Len(a.pay)
      BY <1>0, <2>4, RelTypes
    <3> QED BY <2>4, <2>7, <3>1 DEF Reached
  <2>9. /\ Len(sb'.seg_list) = n
        /\ \A j \in 1 .. n : Rel(sb', j) = Rel(sb, j) /\ Upto(sb', j) = Upto(sb, j)
    BY <2>7 DEF Rel, Upto
  <2>10. \A j \in 1 .. n : After(sb', j) = Upto(sb, j) /\ After(sb, j) = Upto(sb, j)
    BY <2>1, <2>7, <2>9 DEF After
  <2>11. Cuts(sb')
    <3>1. CutAt(u)
      BY SentCuts
    <3> HIDE DEF u
    <3> QED BY <2>8, <2>9, <3>1 DEF Tidy, Cuts
  <2>12. Ahead(sb')
    <3> SUFFICES ASSUME NEW j \in 1 .. n PROVE u <= Rel(sb, j)
      BY <1>1, <2>4, <2>7, <2>8, <2>9 DEF Ahead
    <3>1. Rel(sb, j) > R
      BY <2>1 DEF Tidy, Ahead
    <3>2. Rel(sb, j) <= g.off \/ u <= Rel(sb, j)
      BY DEF Tidy, Cuts, CutAt
    <3> QED BY <1>1, <2>2, <2>4, <3>1, <3>2
  <2>13. Nested(sb')
    BY <2>9, <2>10 DEF Tidy, Nested
  <2>14. ASSUME NEW x \in Nat, Held(sb, x) PROVE Held(sb', x)
    <3>1. CASE x < R
      <4>1. x < u
        BY <1>1, <2>2, <2>4, <3>1
      <4> QED BY <2>8, <4>1 DEF Held
    <3>2. ASSUME NEW j \in 1 .. n, Rel(sb, j) <= x, x < Upto(sb, j) PROVE Held(sb', x)
      BY <2>9, <3>2 DEF Held
    <3> QED BY <2>1, <2>14, <3>1, <3>2 DEF Held
  <2>15. \A p \in Positions(a) : Held(sb', Sub(p, sb.isn))
    BY <2>4, <2>8 DEF Held
  <2>16. AllHeld(sb', accepted')
    BY <1>0, <2>3, <2>7, <2>14, <2>15 DEF AllHeld
  <2> QED BY <2>7, <2>11, <2>12, <2>13, <2>16 DEF Tidy, NewSent, MergedBefore
<1>8. ASSUME NEW g \in Segments, InsertQueued(g) PROVE Tidy(sb') /\ AllHeld(sb', accepted')
  <2> DEFINE a == Arrived(g)
             u == g.off + g.len
  <2>1. ~ Consumed(g) /\ ~ Reassembled(g) /\ ~ InOrder(g) /\ sb.phase = "idle"
    BY <1>8 DEF InsertQueued, ToQueue, Ready
  <2>2. CutBefore(InWindow(g), sb.next_seq) = a /\ R <= g.off /\ g.off # R
    BY <1>6, <2>1
  <2>3. /\ sb' = [sb EXCEPT !.new = a, !.phase = "overlap", !.at = 1]
        /\ accepted' = accepted \cup Positions(a)
    BY <1>8, <2>2 DEF InsertQueued, Accept
  <2>4. /\ g.off \in Nat /\ g.len \in Nat \ {0}
        /\ Sub(a.seq, sb.isn) = g.off /\ Len(a.pay) = g.len
        /\ \A p \in Positions(a) : g.off <= Sub(p, sb.isn) /\ Sub(p, sb.isn) < u
    BY ArrivedOffsets
  <2> HIDE DEF a
  <2>5. /\ sb'.seg_list = q /\ sb'.isn = sb.isn /\ sb'.next_seq = sb.next_seq
        /\ sb'.phase = "overlap" /\ sb'.new = a /\ sb'.at = 1
    BY <1>0, <2>3 DEF Buffers
  <2>6. Reached(sb') = R /\ NewFrom(sb') = g.off /\ NewUpto(sb') = u
    BY <2>4, <2>5 DEF Reached, NewFrom, NewUpto
  <2>7. /\ Len(sb'.seg_list) = n
        /\ \A j \in 1 .. n : Rel(sb', j) = Rel(sb, j) /\ Upto(sb', j) = Upto(sb, j)
    BY <2>5 DEF Rel, Upto
  <2>8. Cuts(sb')
    BY <2>6, <2>7 DEF Tidy, Cuts
  <2>9. NewSent(sb')
    <3>1. g.off > R
      BY <1>1, <2>2, <2>4
    <3> QED BY <2>6, <3>1 DEF NewSent
  <2>10. Ahead(sb')
    BY <2>1, <2>6, <2>7 DEF Tidy, Ahead
  <2>11. Nested(sb')
    <3> DEFINE F(j) == Rel(sb, j)
               U(j) == Upto(sb, j)
               V(j) == IF F(j) < g.off /\ U(j) = u THEN g.off ELSE U(j)
    <3>1. \A j \in 1 .. n : After(sb', j) = V(j)
      BY <2>5, <2>6, <2>7 DEF After
    <3>2. \A i, j \in 1 .. n : i < j /\ F(j) < U(i) => U(j) <= U(i)
      <4>1. \A j \in 1 .. n : After(sb, j) = U(j)
        BY <2>1 DEF After
      <4> QED BY <4>1 DEF Tidy, Nested
    <3>3. \A j \in 1 .. n : (F(j) <= g.off \/ u <= F(j)) /\ (U(j) <= g.off \/ u <= U(j))
      BY DEF Tidy, Cuts, CutAt
    <3>4. \A j \in 1 .. n : F(j) \in Nat /\ U(j) \in Nat
      BY <1>1
    <3>5. u \in Nat /\ g.off < u
      BY <2>4
    <3> HIDE DEF F, U, u
    <3>6. ASSUME NEW i \in 1 .. n, NEW j \in 1 .. n, i < j, F(j) < V(i)
          PROVE  V(j) <= V(i)
      <4>1. F(j) < U(i)
        BY <2>4, <3>4, <3>5, <3>6
      <4>2. U(j) <= U(i)
        BY <3>2, <3>6, <4>1
      <4> QED BY <2>4, <3>3, <3>4, <3>5, <3>6, <4>2
    <3> HIDE DEF V
    <3> QED BY <2>7, <3>1, <3>6 DEF Nested, F
  <2>12. \A x : Held(sb, x) => Held(sb', x)
    BY <2>1, <2>6, <2>7 DEF Held
  <2>13. \A p \in Positions(a) : Held(sb', Sub(p, sb.isn))
    BY <2>4, <2>5, <2>6 DEF Held
  <2>14. AllHeld(sb', accepted')
    BY <1>0, <2>3, <2>5, <2>12, <2>13 DEF AllHeld
  <2> QED BY <2>5, <2>8, <2>9, <2>10, <2>11, <2>14 DEF Tidy, MergedBefore
<1>9. ASSUME NEW g \in Segments, InsertSegment(g) PROVE Tidy(sb') /\ AllHeld(sb', accepted')
  <2>1. CASE InsertRefused(g)
    BY <2>1 DEF InsertRefused, Refuse, vars
  <2> QED BY <1>5, <1>7, <1>8, <1>9, <2>1 DEF InsertSegment
<1>10. ASSUME NEW want \in ConsumeLens, Consume(want) PROVE Tidy(sb') /\ AllHeld(sb', accepted')
  <2> DEFINE k == IF want > Len(sb.data) THEN Len(sb.data) ELSE want
             d == Drop(sb.data, k)
             t == Add(sb.base_seq, k)
             ph == AfterConsume
  <2>1. /\ sb' = [sb EXCEPT !.data = d, !.base_seq = t, !.phase = ph] /\ sb.phase = "idle"
        /\ ph \in {"idle", "process"} /\ accepted' = accepted
    BY <1>10 DEF Consume, Ready, AfterConsume
  <2> HIDE DEF k, d, t, ph
  <2>2. /\ sb'.seg_list = q /\ sb'.isn = sb.isn /\ sb'.next_seq = sb.next_seq
        /\ sb'.phase \in {"idle", "process"}
    BY <1>0, <2>1 DEF Buffers
  <2>3. /\ Reached(sb') = R /\ Len(sb'.seg_list) = n
        /\ \A j \in 1 .. n : Rel(sb', j) = Rel(sb, j) /\ Upto(sb', j) = Upto(sb, j)
    BY <2>2 DEF Reached, Rel, Upto
  <2>4. \A j \in 1 .. n : After(sb', j) = Upto(sb, j) /\ After(sb, j) = Upto(sb, j)
    BY <2>1, <2>2, <2>3 DEF After
  <2>5. Cuts(sb') /\ Ahead(sb')
    BY <2>1, <2>3 DEF Tidy, Cuts, Ahead
  <2>6. Nested(sb')
    BY <2>3, <2>4 DEF Tidy, Nested
  <2>7. \A x : Held(sb, x) => Held(sb', x)
    BY <2>1, <2>3 DEF Held
  <2>8. NewSent(sb') /\ MergedBefore(sb')
    BY <2>2 DEF NewSent, MergedBefore
  <2> QED BY <2>1, <2>2, <2>5, <2>6, <2>7, <2>8 DEF Tidy, AllHeld
<1> QED BY <1>3, <1>4, <1>9, <1>10

\* An offset in a queued segment is a byte in it.
LEMMA HeldByte ==
  ASSUME NEW M, Short(M), BufferOK(sb), Span(sb, M), NEW p \in Seqs,
         NEW j \in 1 .. Len(sb.seg_list),
         Rel(sb, j) <= Sub(p, sb.isn), Sub(p, sb.isn) < Upto(sb, j)
  PROVE  p \in Positions(sb.seg_list[j])
<1> DEFINE i0 == sb.isn
           seg == sb.seg_list[j]
           x == Sub(p, i0)
           f == Rel(sb, j)
           k == x - f + 1
           z == Add(seg.seq, k - 1)
<1>1. i0 \in Seqs /\ seg \in Segs /\ WellPlaced(seg)
  BY DEF BufferOK, Buffers, QueueOK, SegOK
<1>2. seg.seq \in Seqs /\ seg.pay \in Seq(Seqs) /\ Len(seg.pay) \in Nat
  BY <1>1 DEF Segs
<1>3. /\ x \in Nat /\ f \in Nat /\ f <= x /\ Upto(sb, j) <= M /\ Upto(sb, j) = f + Len(seg.pay)
      /\ x < Upto(sb, j) /\ M \in Nat /\ 2 * M < SeqSpace /\ SeqSpace \in Nat /\ Upto(sb, j) \in Nat
  <2>1. x \in Nat
    BY <1>1, SubType
  <2>2. f \in Nat /\ Upto(sb, j) \in Nat /\ Upto(sb, j) <= M
    BY Offsets
  <2>3. Upto(sb, j) = f + Len(seg.pay)
    BY DEF Upto
  <2> QED BY <2>1, <2>2, <2>3, StreamAssumption DEF Short
<1>4. f = Sub(seg.seq, i0)
  BY DEF Rel
<1> HIDE DEF i0, seg, x, f
<1>5. k \in 1 .. Len(seg.pay) /\ k - 1 \in Nat /\ f + (k - 1) = x /\ x < SeqSpace /\ 2 * x < SeqSpace
  BY <1>2, <1>3
<1>6. seg.pay[k] = z
  BY <1>1, <1>5 DEF WellPlaced
<1> HIDE DEF k
<1>7. z \in Seqs /\ Sub(z, i0) = x
  BY <1>1, <1>2, <1>4, <1>5, AddRel
<1> HIDE DEF z
<1>8. p = z
  <2>1. 2 * Sub(p, i0) < SeqSpace /\ 2 * Sub(z, i0) < SeqSpace /\ Sub(p, i0) = Sub(z, i0)
    BY <1>5, <1>7 DEF x
  <2> QED BY <1>1, <1>7, <2>1, Compare
<1>9. DOMAIN seg.pay = 1 .. Len(seg.pay)
  BY <1>2
<1> QED BY <1>5, <1>6, <1>8, <1>9 DEF Positions, seg

\* The inductive invariant of such a stream.
Complete(M) == Span(sb, M) /\ Ordered(sb) /\ Tidy(sb) /\ AllHeld(sb, accepted)

LEMMA StreamComplete ==
  ASSUME NEW M, Short(M), Apart, M < LenMod, M <= MaxBuffer
  PROVE  Spec => [](IInv /\ Complete(M))
<1>1. Init => Complete(M)
  <2> SUFFICES ASSUME Init PROVE Complete(M)
    OBVIOUS
  <2>1. Sub(0, 0) = 0 /\ M \in Nat
    BY SubCases, StreamAssumption DEF Seqs, Short
  <2>2. Span(sb, M) /\ Ordered(sb)
    BY <2>1 DEF Init, NoBuffer, Span, Ordered
  <2>3. Reached(sb) = 0 /\ CutAt(0) /\ Len(sb.seg_list) = 0 /\ sb.phase = "idle" /\ accepted = {}
    BY <2>1, StreamAssumption DEF Init, NoBuffer, Reached, CutAt
  <2>4. Cuts(sb) /\ Ahead(sb) /\ Nested(sb)
    BY <2>3 DEF Cuts, Ahead, Nested
  <2> QED BY <2>2, <2>3, <2>4 DEF Tidy, NewSent, MergedBefore, AllHeld, Complete
<1>2. IInv /\ Complete(M) /\ [Next]_vars => Complete(M)'
  <2> SUFFICES ASSUME BufferOK(sb), accepted \subseteq Seqs, Span(sb, M), Ordered(sb), Tidy(sb),
                      AllHeld(sb, accepted), [Next]_vars
               PROVE  Span(sb', M) /\ Ordered(sb') /\ Tidy(sb') /\ AllHeld(sb', accepted')
    BY InvBufferOK DEF Complete
  <2>1. CASE UNCHANGED vars
    BY <2>1 DEF vars
  <2>2. CASE InsertLoops
    <3>1. accepted' = accepted
      BY <2>2, LoopKeeps DEF BufferOK, TypeOK
    <3>2. Tidy(sb') /\ AllHeld(sb', accepted)
      BY <2>2, LoopTidy
    <3> QED BY <2>2, <3>1, <3>2, LoopOrder
  <2>3. CASE \/ \E isn \in Isns : BufferInit(isn)
             \/ BufferFree
             \/ \E g \in Segments : InsertSegment(g)
             \/ \E n \in ConsumeLens : Consume(n)
    <3>1. Tidy(sb') /\ AllHeld(sb', accepted')
      BY <2>3, CallTidy
    <3> QED BY <2>3, <3>1, CallOrder
  <2> QED BY <2>1, <2>2, <2>3 DEF Next
<1> QED BY <1>1, <1>2, StreamInvariant, PTL DEF Spec

\* stream_buffer_insert_segment and its loops: of a stream that fits the
\* buffer, that a uint16_t can count and that the sender always cuts at the
\* same places, every byte that was accepted is delivered or in the queue.
THEOREM StreamNoDataLoss ==
  ASSUME NEW M, Short(M), Apart, M < LenMod, M <= MaxBuffer
  PROVE  Spec => []NoDataLoss
<1>1. IInv /\ Complete(M) => NoDataLoss
  <2> SUFFICES ASSUME BufferOK(sb), accepted \subseteq Seqs, Span(sb, M), AllHeld(sb, accepted),
                      sb.phase = "idle", NEW p \in accepted
               PROVE  \/ Sub(p, sb.isn) < Sub(sb.next_seq, sb.isn)
                      \/ \E i \in 1 .. Len(sb.seg_list) : p \in Positions(sb.seg_list[i])
    BY InvBufferOK DEF NoDataLoss, Complete
  <2>1. p \in Seqs /\ Held(sb, Sub(p, sb.isn))
    BY DEF AllHeld
  <2>2. ASSUME NEW j \in 1 .. Len(sb.seg_list),
               Rel(sb, j) <= Sub(p, sb.isn), Sub(p, sb.isn) < Upto(sb, j)
        PROVE  p \in Positions(sb.seg_list[j])
    BY <2>1, <2>2, HeldByte
  <2> QED BY <2>1, <2>2 DEF Held, Reached
<1> QED BY <1>1, StreamComplete, PTL

\* Moreover every call leaves next_seq at a byte that has not come: what can be
\* delivered has been.
THEOREM StreamPrefixDelivered ==
  ASSUME NEW M, Short(M), Apart, M < LenMod, M <= MaxBuffer
  PROVE  Spec => []PrefixDelivered
<1>1. IInv /\ Complete(M) => PrefixDelivered
  <2> SUFFICES ASSUME BufferOK(sb), Span(sb, M), Tidy(sb), AllHeld(sb, accepted),
                      sb.phase = "idle", sb.next_seq \in accepted
               PROVE  FALSE
    BY InvBufferOK DEF PrefixDelivered, Complete
  <2>1. Held(sb, Reached(sb))
    BY DEF AllHeld, Reached
  <2>2. \A j \in 1 .. Len(sb.seg_list) : Rel(sb, j) > Reached(sb)
    BY DEF Tidy, Ahead
  <2>3. Reached(sb) \in Nat /\ \A j \in 1 .. Len(sb.seg_list) : Rel(sb, j) \in Nat
    BY Offsets
  <2> QED BY <2>1, <2>2, <2>3 DEF Held
<1> QED BY <1>1, StreamComplete, PTL
=============================================================================
