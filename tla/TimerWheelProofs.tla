--------------------------- MODULE TimerWheelProofs ---------------------------
(***************************************************************************)
(* Theorems about TimerWheel, for any number of timers, any size of the    *)
(* levels and any delays: the wheel is sound, and it implements TimerAbs.  *)
(***************************************************************************)
EXTENDS TimerWheel, TLAPS

(***************************************************************************)
(* The inductive invariant.  A level-0 timer waits in a slot other than    *)
(* the one under the cursor, unless a tick is working on that slot, and a  *)
(* level-1 timer likewise; the cursor of level 0 is at 0 from its wrap to  *)
(* the end of the tick; the periodic timer whose handler runs is out of    *)
(* the wheel.                                                              *)
(***************************************************************************)
Types ==
    /\ TypeOK
    /\ \A t \in Timers : left[t] <= 2 * LevelSize - 2

InSlots ==
    \A t \in Timers :
        /\ level[t] = 0 => left[t] = 0 /\ (phase # "level0" => hash[t] # cursors[0])
        /\ level[t] = 1 => (phase # "level1" => hash[t] # cursors[1])

Ticking ==
    /\ phase = "idle" => running = NoTimer
    /\ phase = "level1" \/ (phase = "level0" /\ carry) => cursors[0] = 0

DelaysKept ==
    \A t \in Timers :
        /\ Linked(t) => delay[t] \in 1 .. MaxTicks - 1
        /\ running = t /\ is_period[t] => ~ Linked(t) /\ delay[t] \in 1 .. MaxTicks - 1

WheelInv == Types /\ ~ relinked /\ InSlots /\ Ticking /\ DelaysKept

(***************************************************************************)
(* What the refinement needs moreover: a periodic timer of a whole turn or *)
(* more of level 0 does not come due, and is not scheduled again, on the   *)
(* tick in which level 0 wraps before level 1 has moved.                   *)
(***************************************************************************)
ShortAtWrap ==
    \A t \in Timers :
        /\ level[t] = 0 /\ hash[t] = 0 => delay[t] < LevelSize
        /\ running = t /\ is_period[t] /\ phase = "level0" /\ carry => delay[t] < LevelSize

\* the delays that handlers ask for stay below a turn of level 0
HandlersShort == \A us \in HandlerDelays : us \div UsecPerTick < LevelSize

-----------------------------------------------------------------------------
(* Arithmetic modulo m *)

LEMMA ModRange ==
  ASSUME NEW a \in Int, NEW m \in Nat \ {0}
  PROVE  a % m \in 0 .. m - 1
OBVIOUS

LEMMA ModDiv ==
  ASSUME NEW a \in Int, NEW m \in Nat \ {0}
  PROVE  a = m * (a \div m) + (a % m)
OBVIOUS

LEMMA SmallMultiple ==
  ASSUME NEW m \in Nat \ {0}, NEW k \in Int, m * k < m, m * k > 0 - m
  PROVE  m * k = 0
<1>1. k >= 1 => m * k >= m
  OBVIOUS
<1>2. k <= -1 => m * k <= -m
  OBVIOUS
<1> QED BY <1>1, <1>2

\* Numbers that differ by a multiple of m are equal modulo m.
LEMMA ModCong ==
  ASSUME NEW m \in Nat \ {0}, NEW a \in Int, NEW b \in Int, NEW k \in Int, a = b + m * k
  PROVE  a % m = b % m
<1> DEFINE q == a \div m
           r == b \div m
           u == a % m
           v == b % m
<1>1. a = m * q + u /\ b = m * r + v
  BY ModDiv
<1>2. q \in Int /\ r \in Int /\ u \in 0 .. m - 1 /\ v \in 0 .. m - 1
  BY ModRange
<1> HIDE DEF q, r, u, v
<1> DEFINE j == k + r - q
<1>3. m * j = m * k + m * r - m * q
  BY <1>2
<1>4. m * j = u - v
  BY <1>1, <1>2, <1>3
<1>5. j \in Int
  BY <1>2
<1> HIDE DEF j
<1>6. m * j = 0
  BY <1>2, <1>4, <1>5, SmallMultiple
<1> QED BY <1>2, <1>4, <1>6 DEF u, v

LEMMA ModSame == ASSUME NEW m \in Nat \ {0}, NEW a \in 0 .. m - 1 PROVE a % m = a
OBVIOUS

\* Division takes out whole multiples.
LEMMA DivMul ==
  ASSUME NEW m \in Nat \ {0}, NEW d \in Int
  PROVE  (d * m) \div m = d
<1> DEFINE a == d * m
           q == a \div m
           u == a % m
           j == d - q
<1>2. a = m * d /\ a \in Int
  OBVIOUS
<1> HIDE DEF a
<1>a. a \in Int
  BY <1>2
<1>1. q \in Int /\ u \in 0 .. m - 1 /\ a = m * q + u
  BY <1>a, ModDiv, ModRange
<1> HIDE DEF q, u
<1>3. m * j = u /\ j \in Int
  BY <1>1, <1>2
<1> HIDE DEF j
<1>4. m * j = 0
  BY <1>1, <1>3, SmallMultiple
<1>5. j = 0
  <2>1. j >= 1 => m * j >= m
    BY <1>3
  <2>2. j <= -1 => m * j <= -m
    BY <1>3
  <2> QED BY <1>3, <1>4, <2>1, <2>2
<1>6. d = q
  BY <1>1, <1>5 DEF j
<1> QED BY <1>6 DEF q, a

LEMMA DivNat == ASSUME NEW m \in Nat \ {0}, NEW a \in Nat PROVE a \div m \in Nat
<1> DEFINE q == a \div m
           u == a % m
<1>1. q \in Int /\ u \in 0 .. m - 1 /\ a = m * q + u
  BY ModDiv, ModRange
<1> HIDE DEF q, u
<1>2. q <= -1 => m * q <= -m
  BY <1>1
<1>3. q \in Nat
  BY <1>1, <1>2
<1> QED BY <1>3 DEF q

\* The distance from slot b to slot a, and the slot b after a.
LEMMA Turn ==
  ASSUME NEW m \in Nat \ {0}, NEW a \in 0 .. m - 1, NEW b \in 0 .. m - 1
  PROVE  /\ (a - b) % m = IF b <= a THEN a - b ELSE a - b + m
         /\ (a + b) % m = IF a + b < m THEN a + b ELSE a + b - m
<1>1. b <= a => (a - b) % m = a - b
  OBVIOUS
<1>2. b > a => (a - b) % m = a - b + m
  <2> DEFINE x == a - b
             y == a - b + m
             j == -1
  <2>1. x = y + m * j /\ x \in Int /\ y \in Int /\ j \in Int
    OBVIOUS
  <2> HIDE DEF x, y, j
  <2>2. x % m = y % m
    BY <2>1, ModCong
  <2> USE DEF x, y
  <2>3. b > a => (a - b + m) % m = a - b + m
    BY ModSame
  <2> QED BY <2>2, <2>3
<1>3. a + b < m => (a + b) % m = a + b
  OBVIOUS
<1>4. a + b >= m => (a + b) % m = a + b - m
  <2> DEFINE x == a + b
             y == a + b - m
             j == 1
  <2>1. x = y + m * j /\ x \in Int /\ y \in Int /\ j \in Int
    OBVIOUS
  <2> HIDE DEF x, y, j
  <2>2. x % m = y % m
    BY <2>1, ModCong
  <2> USE DEF x, y
  <2>3. a + b >= m => (a + b - m) % m = a + b - m
    BY ModSame
  <2> QED BY <2>2, <2>3
<1> QED BY <1>1, <1>2, <1>3, <1>4

\* The slot d after c is d slots away from c.
LEMMA There ==
  ASSUME NEW m \in Nat \ {0}, NEW c \in 0 .. m - 1, NEW d \in 0 .. m - 1
  PROVE  (c + d) % m \in 0 .. m - 1 /\ (((c + d) % m) - c) % m = d
<1> DEFINE s == (c + d) % m
<1>1. s = IF c + d < m THEN c + d ELSE c + d - m
  BY Turn
<1> HIDE DEF s
<1>2. s \in 0 .. m - 1
  BY <1>1
<1>3. (s - c) % m = IF c <= s THEN s - c ELSE s - c + m
  BY <1>2, Turn
<1>4. (s - c) % m = d
  BY <1>1, <1>3
<1> QED BY <1>2, <1>4 DEF s

\* Whole turns of level 0, and the rest.
LEMMA Turns ==
  ASSUME NEW k \in LevelSize .. LevelSize * LevelSize - 1
  PROVE  /\ k \div LevelSize \in 1 .. LevelSize - 1 /\ k % LevelSize \in 0 .. LevelSize - 1
         /\ (k \div LevelSize) * LevelSize + (k % LevelSize) = k
<1> DEFINE N == LevelSize
           q == k \div N
           u == k % N
<1>0. N \in Nat \ {0} /\ N * N \in Int
  BY TimerAssumption
<1>1. k \in Int /\ q \in Int /\ u \in 0 .. N - 1 /\ k = N * q + u /\ N <= k /\ k < N * N
  BY <1>0, ModDiv, ModRange
<1> HIDE DEF q, u, N
<1>2. q <= 0 => N * q <= 0
  BY <1>0, <1>1
<1>3. q >= N => N * q >= N * N
  BY <1>0, <1>1
<1>4. q \in 1 .. N - 1
  BY <1>0, <1>1, <1>2, <1>3
<1>5. q * N + u = k
  BY <1>0, <1>1
<1> QED BY <1>1, <1>4, <1>5 DEF q, u, N

-----------------------------------------------------------------------------
(* Where __ndf_timer_sched puts a timer *)

LEMMA Constants ==
  /\ LevelSize \in Nat \ {0} /\ LevelSize >= 2 /\ MaxTicks \in Nat /\ MaxTicks >= 2
  /\ MaxTicks <= LevelSize * LevelSize /\ LevelSize * LevelSize \in Nat
  /\ 2 * LevelSize <= LevelSize * LevelSize
  /\ UsecPerTick \in Nat \ {0} /\ NoTimer \notin Timers
BY TimerAssumption

LEMMA Ticks ==
  ASSUME NEW us \in Nat
  PROVE  /\ AtLeastOne(TimevalToTicks(us)) \in 1 .. MaxTicks
         /\ us \div UsecPerTick < LevelSize => AtLeastOne(TimevalToTicks(us)) < LevelSize
BY DivNat, Constants DEF AtLeastOne, TimevalToTicks

LEMMA SameTicks ==
  ASSUME NEW d \in 1 .. MaxTicks
  PROVE  TicksToTimeval(d) \in Nat /\ AtLeastOne(TimevalToTicks(TicksToTimeval(d))) = d
<1>1. d \in Int /\ d * UsecPerTick \in Nat
  BY Constants
<1>2. (d * UsecPerTick) \div UsecPerTick = d
  BY <1>1, DivMul, Constants
<1> QED BY <1>1, <1>2, Constants DEF TicksToTimeval, TimevalToTicks, AtLeastOne

\* The slot that k ticks fall in, seen from the cursors.
LEMMA Placed ==
  ASSUME cursors \in [{0, 1} -> 0 .. LevelSize - 1], NEW k \in 1 .. LevelSize * LevelSize - 1
  PROVE  /\ SlotFor(k) \in 0 .. LevelSize - 1 /\ LeftFor(k) \in 0 .. 2 * LevelSize - 2
         /\ k < LevelSize => /\ LevelFor(k) = 0 /\ LeftFor(k) = 0 /\ SlotFor(k) # cursors[0]
                             /\ (SlotFor(k) - cursors[0]) % LevelSize = k
                             /\ cursors[0] = 0 => SlotFor(k) = k
         /\ k >= LevelSize =>
              /\ LevelFor(k) = 1 /\ SlotFor(k) # cursors[1]
              /\ LeftFor(k) = (k % LevelSize) + cursors[0]
              /\ ((SlotFor(k) - cursors[1]) % LevelSize) * LevelSize + LeftFor(k) - cursors[0] = k
<1>0. cursors[0] \in 0 .. LevelSize - 1 /\ cursors[1] \in 0 .. LevelSize - 1
      /\ LevelSize \in Nat \ {0} /\ k \in Nat \ {0}
  BY Constants
<1>1. CASE k < LevelSize
  <2> DEFINE s == (cursors[0] + k) % LevelSize
  <2>1. k \in 0 .. LevelSize - 1 /\ k # 0 /\ LevelFor(k) = 0 /\ LeftFor(k) = 0
    BY <1>0, <1>1 DEF LevelFor, LeftFor
  <2>2. k \div 1 = k
    BY <1>0, DivMul
  <2>3. SlotFor(k) = s
    BY <1>0, <1>1, <2>1, <2>2 DEF SlotFor
  <2>4. s \in 0 .. LevelSize - 1 /\ (s - cursors[0]) % LevelSize = k
    BY <1>0, <2>1, There
  <2>5. cursors[0] = 0 => s = k
    BY <1>0, <2>1, ModSame
  <2> HIDE DEF s
  <2>6. s # cursors[0]
    <3>1. (cursors[0] - cursors[0]) % LevelSize = 0
      BY <1>0
    <3> QED BY <2>1, <2>4, <3>1
  <2> QED BY <1>0, <1>1, <2>1, <2>3, <2>4, <2>5, <2>6
<1>2. CASE k >= LevelSize
  <2> DEFINE q == k \div LevelSize
             u == k % LevelSize
             s == (cursors[1] + q) % LevelSize
  <2>1. q \in 1 .. LevelSize - 1 /\ u \in 0 .. LevelSize - 1 /\ q * LevelSize + u = k
    <3>1. k \in LevelSize .. LevelSize * LevelSize - 1
      BY <1>0, <1>2
    <3> QED BY <3>1, Turns
  <2>2. LevelFor(k) = 1 /\ LeftFor(k) = u + cursors[0] /\ SlotFor(k) = s
    BY <1>2 DEF LevelFor, LeftFor, SlotFor
  <2> HIDE DEF q, u
  <2>3. s \in 0 .. LevelSize - 1 /\ (s - cursors[1]) % LevelSize = q
    <3>1. q \in 0 .. LevelSize - 1
      BY <2>1
    <3> QED BY <3>1, <1>0, There
  <2> HIDE DEF s
  <2>4. s # cursors[1]
    <3>1. (cursors[1] - cursors[1]) % LevelSize = 0
      BY <1>0
    <3> QED BY <2>1, <2>3, <3>1
  <2>5. ((s - cursors[1]) % LevelSize) * LevelSize + (u + cursors[0]) - cursors[0] = k
    <3> DEFINE w == q * LevelSize
    <3>1. w \in Int /\ w + u = k
      BY <2>1, <1>0
    <3>2. ((s - cursors[1]) % LevelSize) * LevelSize = w
      BY <2>3, Zenon
    <3> HIDE DEF w
    <3>4. u \in Int /\ cursors[0] \in Int
      BY <2>1, <1>0
    <3>3. w + (u + cursors[0]) - cursors[0] = k
      BY <3>1, <3>4
    <3> QED BY <3>2, <3>3, Zenon
  <2>6. u + cursors[0] \in 0 .. 2 * LevelSize - 2
    BY <2>1, <1>0
  <2> QED BY <1>0, <1>2, <2>2, <2>3, <2>4, <2>5, <2>6 DEF u
<1> QED BY <1>0, <1>1, <1>2

-----------------------------------------------------------------------------
(* The wheel is sound *)

LEMMA TypesStep ==
  ASSUME WheelInv
  PROVE  /\ cursors \in [{0, 1} -> 0 .. LevelSize - 1]
         /\ cursors[0] \in 0 .. LevelSize - 1 /\ cursors[1] \in 0 .. LevelSize - 1
         /\ level \in [Timers -> {Unlinked, 0, 1}] /\ hash \in [Timers -> 0 .. LevelSize - 1]
         /\ left \in [Timers -> 0 .. 2 * LevelSize] /\ delay \in [Timers -> 0 .. MaxTicks]
         /\ is_period \in [Timers -> BOOLEAN] /\ phase \in {"idle", "level0", "level1"}
         /\ carry \in BOOLEAN /\ running \in Timers \cup {NoTimer} /\ relinked \in BOOLEAN
         /\ \A t \in Timers : left[t] <= 2 * LevelSize - 2
BY DEF WheelInv, Types, TypeOK

\* Scheduling a timer that is not in the wheel, by anyone at any point of a
\* tick, leaves the wheel sound.
LEMMA SchedSound ==
  ASSUME WheelInv, NEW t \in Timers, NEW us \in Nat, NEW period \in BOOLEAN,
         NEW out, out = level \/ out = Without(t), out[t] = Unlinked,
         TimerSched(t, us, period, out), UNCHANGED <<cursors, phase, carry>>,
         running' = running \/ running' = NoTimer, running' = t => ~ period
  PROVE  WheelInv'
<1> DEFINE k == AtLeastOne(TimevalToTicks(us))
<1>1. k \in 1 .. MaxTicks
  BY Ticks
<1> HIDE DEF k
<1>2. /\ is_period' = [is_period EXCEPT ![t] = period] /\ delay' = [delay EXCEPT ![t] = k]
      /\ k >= MaxTicks => level' = out /\ UNCHANGED <<hash, left, relinked>>
      /\ k < MaxTicks => /\ relinked' = (relinked \/ out[t] # Unlinked)
                         /\ level' = [out EXCEPT ![t] = LevelFor(k)]
                         /\ hash' = [hash EXCEPT ![t] = SlotFor(k)]
                         /\ left' = [left EXCEPT ![t] = LeftFor(k)]
  BY <1>1, Constants DEF TimerSched, k
<1>3. out \in [Timers -> {Unlinked, 0, 1}] /\ \A u \in Timers : u # t => out[u] = level[u]
  BY TypesStep DEF Without, Unlinked
<1>4. k < MaxTicks =>
        /\ SlotFor(k) \in 0 .. LevelSize - 1 /\ LeftFor(k) \in 0 .. 2 * LevelSize - 2
        /\ LevelFor(k) \in {0, 1}
        /\ LevelFor(k) = 0 => LeftFor(k) = 0 /\ SlotFor(k) # cursors[0]
        /\ LevelFor(k) = 1 => SlotFor(k) # cursors[1]
  <2>1. k < MaxTicks => k \in 1 .. LevelSize * LevelSize - 1
    BY <1>1, Constants
  <2> QED BY <1>1, <2>1, Placed, TypesStep, Constants DEF LevelFor
<1>5. level' \in [Timers -> {Unlinked, 0, 1}] /\ ~ relinked'
      /\ hash' \in [Timers -> 0 .. LevelSize - 1] /\ left' \in [Timers -> 0 .. 2 * LevelSize]
      /\ \A u \in Timers : left'[u] <= 2 * LevelSize - 2
  <2>1. CASE k >= MaxTicks
    BY <2>1, <1>2, <1>3, TypesStep DEF WheelInv
  <2>2. CASE k < MaxTicks
    BY <2>2, <1>2, <1>3, <1>4, TypesStep, Constants DEF WheelInv
  <2> QED BY <2>1, <2>2, <1>1, Constants
<1>6. Types'
  <2>2. relinked' \in BOOLEAN
    <3>1. CASE k >= MaxTicks
      BY <3>1, <1>2, TypesStep
    <3>2. CASE k < MaxTicks
      BY <3>2, <1>2
    <3> QED BY <3>1, <3>2, <1>1, Constants
  <2>3. carry' \in BOOLEAN /\ running' \in Timers \cup {NoTimer}
    BY TypesStep
  <2>1. delay' \in [Timers -> 0 .. MaxTicks] /\ is_period' \in [Timers -> BOOLEAN]
    BY <1>1, <1>2, TypesStep
  <2> QED BY <1>5, <2>1, <2>2, <2>3, TypesStep DEF Types, TypeOK
<1>7. InSlots'
  <2> SUFFICES ASSUME NEW u \in Timers
               PROVE  /\ level'[u] = 0 => left'[u] = 0 /\ (phase # "level0" => hash'[u] # cursors[0])
                      /\ level'[u] = 1 => (phase # "level1" => hash'[u] # cursors[1])
    BY DEF InSlots
  <2>0. InSlots
    BY DEF WheelInv
  <2>1. CASE u # t
    <3>1. level'[u] = level[u] /\ hash'[u] = hash[u] /\ left'[u] = left[u]
      BY <2>1, <1>1, <1>2, <1>3, TypesStep, Constants
    <3> QED BY <3>1, <2>0 DEF InSlots
  <2>2. CASE u = t /\ k < MaxTicks
    <3>1. level'[t] = LevelFor(k) /\ hash'[t] = SlotFor(k) /\ left'[t] = LeftFor(k)
      BY <2>2, <1>2, <1>3, TypesStep
    <3> QED BY <3>1, <2>2, <1>4
  <2>3. CASE u = t /\ k >= MaxTicks
    BY <2>3, <1>2 DEF Unlinked
  <2> QED BY <2>1, <2>2, <2>3, <1>1, Constants
<1>8. Ticking'
  BY DEF WheelInv, Ticking
<1>9. DelaysKept'
  <2> SUFFICES ASSUME NEW u \in Timers
               PROVE  /\ level'[u] # Unlinked => delay'[u] \in 1 .. MaxTicks - 1
                      /\ running' = u /\ is_period'[u] =>
                            level'[u] = Unlinked /\ delay'[u] \in 1 .. MaxTicks - 1
    BY DEF DelaysKept, Linked
  <2>1. CASE u # t
    <3>1. level'[u] = level[u] /\ delay'[u] = delay[u] /\ is_period'[u] = is_period[u]
      BY <2>1, <1>1, <1>2, <1>3, TypesStep, Constants
    <3> QED BY <3>1, Constants DEF WheelInv, DelaysKept, Linked
  <2>2. CASE u = t
    <3>1. delay'[t] = k /\ is_period'[t] = period
      BY <1>2, TypesStep
    <3>2. k >= MaxTicks => level'[t] = Unlinked
      BY <1>2
    <3> QED BY <2>2, <3>1, <3>2, <1>1, Constants
  <2> QED BY <2>1, <2>2
<1> QED BY <1>5, <1>6, <1>7, <1>8, <1>9 DEF WheelInv

LEMMA AdvanceOK ==
  ASSUME cursors \in [{0, 1} -> 0 .. LevelSize - 1], NEW l \in {0, 1}
  PROVE  /\ Advance(l) \in [{0, 1} -> 0 .. LevelSize - 1]
         /\ \A m \in {0, 1} : m # l => Advance(l)[m] = cursors[m]
         /\ Advance(l)[l] = IF cursors[l] + 1 < LevelSize THEN cursors[l] + 1 ELSE 0
         /\ Carries(l) <=> Advance(l)[l] = 0
<1>1. cursors[l] \in 0 .. LevelSize - 1
  OBVIOUS
<1> QED BY <1>1, Constants DEF Advance, Carries

\* A timer leaves its list; the rest of it stays as it was.
LEMMA UnlinkSound ==
  ASSUME WheelInv, NEW t \in Timers, level' = Without(t),
         UNCHANGED <<cursors, hash, left, delay, is_period, phase, carry, relinked>>,
         running' = running \/ (running' = t /\ Linked(t) /\ phase # "idle")
  PROVE  WheelInv'
<1>1. level' \in [Timers -> {Unlinked, 0, 1}] /\ level'[t] = Unlinked
      /\ \A u \in Timers : u # t => level'[u] = level[u]
  BY TypesStep DEF Without, Unlinked
<1>2. Types'
  BY <1>1, TypesStep DEF Types, TypeOK
<1>3. InSlots' /\ Ticking'
  BY <1>1 DEF WheelInv, InSlots, Ticking, Unlinked
<1>4. DelaysKept'
  BY <1>1 DEF WheelInv, DelaysKept, Linked
<1> QED BY <1>2, <1>3, <1>4 DEF WheelInv

\* A timer that drops does so in level 1, with the cursor of level 0 at 0, and
\* to the place where a timer scheduled with the ticks it has left would go.
LEMMA DropAs ==
  ASSUME WheelInv, NEW t \in Timers, Drop(t)
  PROVE  /\ phase = "level1" /\ cursors[0] = 0 /\ level[t] = 1 /\ hash[t] = cursors[1]
         /\ left[t] \in 1 .. LevelSize * LevelSize - 1 /\ left[t] <= 2 * LevelSize - 2
         /\ level' = [level EXCEPT ![t] = LevelFor(left[t])]
         /\ hash' = [hash EXCEPT ![t] = SlotFor(left[t])]
         /\ left' = [left EXCEPT ![t] = LeftFor(left[t])]
         /\ UNCHANGED <<cursors, phase, carry, running, delay, is_period, relinked>>
<1> DEFINE k == left[t]
<1>1. /\ phase # "idle" /\ level[t] = Current /\ k # 0
      /\ level' = [level EXCEPT ![t] = LevelFor(k)]
      /\ hash' = [hash EXCEPT ![t] = SlotFor(k)]
      /\ left' = [left EXCEPT ![t] = IF k >= LevelSize THEN k % LevelSize ELSE 0]
      /\ UNCHANGED <<cursors, phase, carry, running, delay, is_period, relinked>>
  BY DEF Drop, Working, InCurrentSlot, wheel
<1>2. phase = "level1" /\ cursors[0] = 0 /\ k \in 1 .. LevelSize * LevelSize - 1
  <2>1. phase = "level1"
    BY <1>1, TypesStep DEF WheelInv, InSlots, Current
  <2>2. k \in 0 .. 2 * LevelSize /\ k <= 2 * LevelSize - 2
    BY TypesStep
  <2> QED BY <2>1, <2>2, <1>1, Constants DEF WheelInv, Ticking
<1>3. left' = [left EXCEPT ![t] = LeftFor(k)]
  <2> DEFINE u == k % LevelSize
  <2>0. k \in Int /\ LevelSize \in Nat \ {0}
    BY <1>2, Constants
  <2>a. u \in 0 .. LevelSize - 1
    <3> HIDE DEF k
    <3> QED BY <2>0, ModRange, Zenon
  <2> HIDE DEF u
  <2>1. u \in Int
    BY <2>a, <2>0
  <2>2. u + 0 = u
    BY <2>1
  <2>3. u + cursors[0] = u
    BY <2>2, <1>2
  <2>4. LeftFor(k) = IF k >= LevelSize THEN u ELSE 0
    BY <2>3 DEF LeftFor, u
  <2> QED BY <1>1, <2>4 DEF u
<1>4. level[t] = 1 /\ hash[t] = cursors[1] /\ left[t] <= 2 * LevelSize - 2
  BY <1>2, TypesStep DEF Drop, InCurrentSlot, Current
<1> QED BY <1>1, <1>2, <1>3, <1>4

LEMMA WheelNext == WheelInv /\ [Next]_vars => WheelInv'
<1> SUFFICES ASSUME WheelInv, [Next]_vars PROVE WheelInv'
  OBVIOUS
<1>0. Delays \cup HandlerDelays \subseteq Nat
  BY TimerAssumption
<1>1. ASSUME NEW t \in Timers, NEW us \in Delays \cup HandlerDelays, NEW period \in BOOLEAN,
             Sched(t, us, period)
      PROVE  WheelInv'
  <2>1. TimerSched(t, us, period, level) /\ UNCHANGED <<cursors, phase, carry, running>>
        /\ level[t] = Unlinked /\ (running = t => ~ period)
    BY <1>1 DEF Sched, wheel, Linked, Calls
  <2> QED BY <2>1, <1>0, SchedSound
<1>2. ASSUME NEW t \in Timers, NEW us \in Delays \cup HandlerDelays, Update(t, us)
      PROVE  WheelInv'
  <2>1. TimerSched(t, us, is_period[t], Without(t)) /\ UNCHANGED <<cursors, phase, carry, running>>
        /\ (running = t => ~ is_period[t])
    BY <1>2 DEF Update, wheel, Calls
  <2>2. Without(t)[t] = Unlinked /\ is_period[t] \in BOOLEAN
    BY TypesStep DEF Without
  <2> QED BY <2>1, <2>2, <1>0, SchedSound
<1>3. ASSUME NEW t \in Timers, Reset(t) PROVE WheelInv'
  <2> DEFINE us == TicksToTimeval(delay[t])
  <2>1. TimerSched(t, us, is_period[t], Without(t)) /\ UNCHANGED <<cursors, phase, carry, running>>
        /\ (running = t => ~ is_period[t]) /\ delay[t] # 0
    BY <1>3 DEF Reset, wheel, Calls
  <2>2. Without(t)[t] = Unlinked /\ is_period[t] \in BOOLEAN /\ delay[t] \in 1 .. MaxTicks
    BY <2>1, TypesStep, Constants DEF Without
  <2>3. us \in Nat
    BY <2>2, SameTicks
  <2> HIDE DEF us
  <2> QED BY <2>1, <2>2, <2>3, SchedSound
<1>4. ASSUME NEW t \in Timers, Cancel(t) PROVE WheelInv'
  BY <1>4, UnlinkSound DEF Cancel, wheel
<1>5. ASSUME NEW t \in Timers, Expire(t) PROVE WheelInv'
  <2>1. Linked(t) /\ phase # "idle"
    BY <1>5 DEF Expire, Working, InCurrentSlot, Current, Linked, Unlinked
  <2> QED BY <1>5, <2>1, UnlinkSound DEF Expire
<1>6. ASSUME NEW t \in Timers, HandlerAgain(t) PROVE WheelInv'
  <2> DEFINE us == TicksToTimeval(delay[t])
  <2>1. TimerSched(t, us, TRUE, level) /\ UNCHANGED <<cursors, phase, carry>>
        /\ running' = NoTimer /\ running = t /\ is_period[t]
    BY <1>6 DEF HandlerAgain
  <2>2. level[t] = Unlinked /\ delay[t] \in 1 .. MaxTicks
    BY <2>1, Constants DEF WheelInv, DelaysKept, Linked
  <2>3. us \in Nat
    BY <2>2, SameTicks
  <2>4. running' # t
    BY <2>1, Constants
  <2> HIDE DEF us
  <2> QED BY <2>1, <2>2, <2>3, <2>4, SchedSound
<1>7. ASSUME NEW t \in Timers, HandlerStop(t) PROVE WheelInv'
  <2>1. running' = NoTimer
        /\ UNCHANGED <<cursors, level, hash, left, delay, is_period, phase, carry, relinked>>
    BY <1>7 DEF HandlerStop
  <2>2. Types'
    BY <2>1, TypesStep DEF Types, TypeOK
  <2>3. InSlots' /\ Ticking' /\ DelaysKept'
    BY <2>1, Constants DEF WheelInv, InSlots, Ticking, DelaysKept, Linked
  <2> QED BY <2>1, <2>2, <2>3 DEF WheelInv
<1>8. ASSUME NEW t \in Timers, Drop(t) PROVE WheelInv'
  <2> DEFINE k == left[t]
  <2>1. /\ level[t] = 1 /\ level' = [level EXCEPT ![t] = LevelFor(k)]
        /\ hash' = [hash EXCEPT ![t] = SlotFor(k)]
        /\ UNCHANGED <<cursors, phase, carry, running, delay, is_period, relinked>>
    BY <1>8, DropAs
  <2>2. phase = "level1" /\ cursors[0] = 0 /\ k \in 1 .. LevelSize * LevelSize - 1
    BY <1>8, DropAs
  <2>3. left' = [left EXCEPT ![t] = LeftFor(k)]
    BY <1>8, DropAs
  <2> HIDE DEF k
  <2>4. /\ SlotFor(k) \in 0 .. LevelSize - 1 /\ LeftFor(k) \in 0 .. 2 * LevelSize - 2
        /\ LevelFor(k) \in {0, 1}
        /\ LevelFor(k) = 0 => LeftFor(k) = 0 /\ SlotFor(k) # cursors[0]
    BY <2>2, Placed, TypesStep, Constants DEF LevelFor
  <2>5. Types'
    <3>1. level' \in [Timers -> {Unlinked, 0, 1}] /\ hash' \in [Timers -> 0 .. LevelSize - 1]
          /\ left' \in [Timers -> 0 .. 2 * LevelSize] /\ \A u \in Timers : left'[u] <= 2 * LevelSize - 2
      BY <2>1, <2>3, <2>4, TypesStep, Constants
    <3> QED BY <2>1, <3>1, TypesStep DEF Types, TypeOK
  <2>6. InSlots'
    BY <2>1, <2>2, <2>3, <2>4, TypesStep DEF WheelInv, InSlots
  <2>7. Ticking' /\ DelaysKept'
    <3>1. level[t] # Unlinked
      BY <2>1 DEF Unlinked
    <3> QED BY <2>1, <3>1, TypesStep DEF WheelInv, Ticking, DelaysKept, Linked
  <2> QED BY <2>1, <2>5, <2>6, <2>7 DEF WheelInv
<1>9. CASE TickStart
  <2>1. /\ phase = "idle" /\ phase' = "level0" /\ cursors' = Advance(0)
        /\ (carry' <=> Carries(0)) /\ carry' \in BOOLEAN
        /\ UNCHANGED <<level, hash, left, delay, is_period, running, relinked>>
    <3>1. Carries(0) \in BOOLEAN
      BY DEF Carries
    <3>2. /\ phase = "idle" /\ phase' = "level0" /\ cursors' = Advance(0) /\ carry' = Carries(0)
          /\ UNCHANGED <<level, hash, left, delay, is_period, running, relinked>>
      BY <1>9 DEF TickStart
    <3> QED BY <3>1, <3>2
  <2>2. /\ cursors' \in [{0, 1} -> 0 .. LevelSize - 1] /\ cursors'[1] = cursors[1]
        /\ carry' => cursors'[0] = 0
    BY <2>1, AdvanceOK, TypesStep
  <2>3. Types'
    BY <2>1, <2>2, TypesStep DEF Types, TypeOK
  <2>4. InSlots' /\ Ticking' /\ DelaysKept'
    BY <2>1, <2>2 DEF WheelInv, InSlots, Ticking, DelaysKept, Linked
  <2> QED BY <2>1, <2>3, <2>4 DEF WheelInv
<1>10. CASE NextLevel
  <2>1. /\ SlotDone /\ phase = "level0" /\ carry /\ phase' = "level1" /\ cursors' = Advance(1)
        /\ carry' \in BOOLEAN
        /\ UNCHANGED <<level, hash, left, delay, is_period, running, relinked>>
    BY <1>10 DEF NextLevel, Carries
  <2>2. cursors' \in [{0, 1} -> 0 .. LevelSize - 1] /\ cursors'[0] = cursors[0]
    BY <2>1, AdvanceOK, TypesStep
  <2>3. Types'
    BY <2>1, <2>2, TypesStep DEF Types, TypeOK
  <2>4. InSlots' /\ Ticking' /\ DelaysKept'
    BY <2>1, <2>2
    DEF WheelInv, InSlots, Ticking, DelaysKept, Linked, SlotDone, InCurrentSlot, Current
  <2> QED BY <2>1, <2>3, <2>4 DEF WheelInv
<1>11. CASE TickEnd
  <2>1. /\ SlotDone /\ (phase = "level0" => ~ carry) /\ phase' = "idle" /\ carry' = FALSE
        /\ UNCHANGED <<cursors, level, hash, left, delay, is_period, running, relinked>>
    BY <1>11 DEF TickEnd
  <2>3. Types'
    BY <2>1, TypesStep DEF Types, TypeOK
  <2>4. InSlots' /\ Ticking' /\ DelaysKept'
    BY <2>1, TypesStep
    DEF WheelInv, InSlots, Ticking, DelaysKept, Linked, SlotDone, InCurrentSlot, Current, Working
  <2> QED BY <2>1, <2>3, <2>4 DEF WheelInv
<1>12. CASE Term
  <2>1. /\ level' = [t \in Timers |-> Unlinked] /\ cursors' = [l \in {0, 1} |-> 0] /\ phase = "idle"
        /\ UNCHANGED <<hash, left, delay, is_period, phase, carry, running, relinked>>
    BY <1>12 DEF Term
  <2>3. Types'
    BY <2>1, TypesStep, Constants DEF Types, TypeOK, Unlinked
  <2>4. InSlots' /\ Ticking' /\ DelaysKept'
    BY <2>1 DEF WheelInv, InSlots, Ticking, DelaysKept, Linked, Unlinked
  <2> QED BY <2>1, <2>3, <2>4 DEF WheelInv
<1>13. CASE UNCHANGED vars
  BY <1>13 DEF vars, WheelInv, Types, TypeOK, InSlots, Ticking, DelaysKept, Linked
<1> QED BY <1>1, <1>2, <1>3, <1>4, <1>5, <1>6, <1>7, <1>8, <1>9, <1>10, <1>11, <1>12, <1>13
        DEF Next, TickStep

LEMMA WheelInit == Init => WheelInv
<1> SUFFICES ASSUME Init PROVE WheelInv
  OBVIOUS
<1>1. Types
  <2>1. is_period \in [Timers -> BOOLEAN] /\ carry \in BOOLEAN /\ relinked \in BOOLEAN
    BY DEF Init
  <2>2. /\ cursors \in [{0, 1} -> 0 .. LevelSize - 1] /\ level \in [Timers -> {Unlinked, 0, 1}]
        /\ hash \in [Timers -> 0 .. LevelSize - 1] /\ left \in [Timers -> 0 .. 2 * LevelSize]
        /\ delay \in [Timers -> 0 .. MaxTicks] /\ \A t \in Timers : left[t] <= 2 * LevelSize - 2
    BY Constants DEF Init
  <2> QED BY <2>1, <2>2 DEF Init, Types, TypeOK
<1>2. InSlots /\ Ticking
  BY Constants DEF Init, InSlots, Ticking, Unlinked
<1>3. DelaysKept /\ ~ relinked
  BY Constants DEF Init, DelaysKept, Linked, Unlinked
<1> QED BY <1>1, <1>2, <1>3 DEF WheelInv

LEMMA WheelInvariant == Spec => []WheelInv
BY WheelInit, WheelNext, PTL DEF Spec

\* The distance of a slot from another one.
LEMMA Away ==
  ASSUME NEW a \in 0 .. LevelSize - 1, NEW b \in 0 .. LevelSize - 1
  PROVE  /\ (a - b) % LevelSize \in 0 .. LevelSize - 1
         /\ (a - b) % LevelSize = 0 <=> a = b
<1>1. (a - b) % LevelSize = IF b <= a THEN a - b ELSE a - b + LevelSize
  BY Turn, Constants
<1> QED BY <1>1, Constants

\* Between two ticks every timer in the wheel has a tick left or more.
LEMMA NotOverdue ==
  ASSUME WheelInv, phase = "idle", NEW t \in Timers, Linked(t)
  PROVE  Remaining(t) \in Nat /\ Remaining(t) >= 1
<1>1. CASE level[t] = 0
  <2>1. hash[t] \in 0 .. LevelSize - 1 /\ hash[t] # cursors[0]
    BY <1>1, TypesStep DEF WheelInv, InSlots
  <2> DEFINE d == (hash[t] - cursors[0]) % LevelSize
  <2>2. d \in 0 .. LevelSize - 1 /\ d # 0
    BY <2>1, Away, TypesStep, Constants
  <2>3. Remaining(t) = d
    BY <1>1 DEF Remaining, Unlinked
  <2> HIDE DEF d
  <2> QED BY <2>2, <2>3, Constants
<1>2. CASE level[t] = 1
  <2> DEFINE d == (hash[t] - cursors[1]) % LevelSize
  <2>1. hash[t] \in 0 .. LevelSize - 1 /\ hash[t] # cursors[1]
    BY <1>2, TypesStep DEF WheelInv, InSlots
  <2>2. d \in 1 .. LevelSize - 1
    BY <2>1, Away, TypesStep, Constants
  <2>3. Remaining(t) = d * LevelSize + left[t] - cursors[0]
    BY <1>2 DEF Remaining, Unlinked, SinceCarry
  <2> HIDE DEF d
  <2>4. d * LevelSize >= LevelSize /\ d * LevelSize \in Int
    BY <2>2, Constants
  <2>5. left[t] \in Nat
    BY TypesStep, Constants
  <2> QED BY <2>3, <2>4, <2>5, TypesStep, Constants
<1> QED BY <1>1, <1>2, TypesStep DEF Linked

\* The wheel between any two calls: fields in range, no slot passed over with
\* a timer in it, no timer linked twice, for any delays and whatever handlers
\* schedule in the middle of a tick (__ndf_timer_sched, timer_expire,
\* rte_timer_tick_cb).
THEOREM TimerWheelSound == Spec => []WheelSound
<1>1. WheelInv => WheelSound
  <2> SUFFICES ASSUME WheelInv PROVE WheelSound
    OBVIOUS
  <2>1. TypeOK /\ NeverRelinked
    BY DEF WheelInv, Types, NeverRelinked
  <2>2. NothingOverdue
    BY NotOverdue DEF NothingOverdue
  <2> QED BY <2>1, <2>2 DEF WheelSound
<1> QED BY <1>1, WheelInvariant, PTL

-----------------------------------------------------------------------------
(* The wheel implements TimerAbs *)

Rem == [t \in Timers |-> Remaining(t)]

RefInv == WheelInv /\ ShortAtWrap

\* Scheduling gives a timer the ticks it asked for, and no other timer gets
\* more or fewer.
LEMMA SchedRemaining ==
  ASSUME WheelInv, NEW t \in Timers, NEW us \in Nat, NEW period \in BOOLEAN,
         NEW out, out = level \/ out = Without(t), out[t] = Unlinked,
         TimerSched(t, us, period, out), UNCHANGED <<cursors, phase, carry>>,
         NEW k, k = AtLeastOne(TimevalToTicks(us)),
         phase = "level0" /\ carry => k < LevelSize
  PROVE  /\ k \in 1 .. MaxTicks
         /\ k < MaxTicks => Rem' = [Rem EXCEPT ![t] = k]
         /\ k = MaxTicks => Rem' = [Rem EXCEPT ![t] = -1]
         /\ delay' = [delay EXCEPT ![t] = k]
<1>1. k \in 1 .. MaxTicks
  BY Ticks
<1>2. /\ delay' = [delay EXCEPT ![t] = k]
      /\ k >= MaxTicks => level' = out /\ UNCHANGED <<hash, left>>
      /\ k < MaxTicks => /\ level' = [out EXCEPT ![t] = LevelFor(k)]
                         /\ hash' = [hash EXCEPT ![t] = SlotFor(k)]
                         /\ left' = [left EXCEPT ![t] = LeftFor(k)]
  BY <1>1, Constants DEF TimerSched
<1>3. out \in [Timers -> {Unlinked, 0, 1}] /\ \A u \in Timers : u # t => out[u] = level[u]
  BY TypesStep DEF Without, Unlinked
<1>4. ASSUME NEW u \in Timers, u # t PROVE Remaining(u)' = Remaining(u)
  <2>1. level'[u] = level[u] /\ hash'[u] = hash[u] /\ left'[u] = left[u]
    BY <1>4, <1>1, <1>2, <1>3, TypesStep, Constants
  <2> QED BY <2>1 DEF Remaining, SinceCarry
<1>5. k < MaxTicks => Remaining(t)' = k
  <2> SUFFICES ASSUME k < MaxTicks PROVE Remaining(t)' = k
    OBVIOUS
  <2>1. k \in 1 .. LevelSize * LevelSize - 1
    BY <1>1, Constants
  <2>2. level'[t] = LevelFor(k) /\ hash'[t] = SlotFor(k) /\ left'[t] = LeftFor(k)
    BY <1>2, <1>3, TypesStep
  <2>3. CASE k < LevelSize
    <3>1. LevelFor(k) = 0 /\ (SlotFor(k) - cursors[0]) % LevelSize = k
      BY <2>1, <2>3, Placed, TypesStep
    <3> QED BY <2>2, <3>1 DEF Remaining, Unlinked
  <2>4. CASE k >= LevelSize
    <3>1. LevelFor(k) = 1
          /\ ((SlotFor(k) - cursors[1]) % LevelSize) * LevelSize + LeftFor(k) - cursors[0] = k
      BY <2>1, <2>4, Placed, TypesStep
    <3>2. SinceCarry' = cursors[0]
      BY <1>1, <2>4, Constants DEF SinceCarry
    <3>3. Remaining(t)' = ((hash'[t] - cursors[1]) % LevelSize) * LevelSize + left'[t] - SinceCarry'
      BY <2>2, <3>1 DEF Remaining, Unlinked
    <3> QED BY <2>2, <3>1, <3>2, <3>3
  <2> QED BY <1>1, <2>3, <2>4, Constants
<1>6. k = MaxTicks => Remaining(t)' = -1
  BY <1>1, <1>2, Constants DEF Remaining, Unlinked
<1> QED BY <1>1, <1>2, <1>4, <1>5, <1>6 DEF Rem

\* A timer leaves its list, and no other timer moves.
LEMMA UnlinkRemaining ==
  ASSUME WheelInv, NEW t \in Timers, level' = Without(t),
         UNCHANGED <<cursors, hash, left, phase, carry>>
  PROVE  Rem' = [Rem EXCEPT ![t] = -1]
<1>1. level'[t] = Unlinked /\ \A u \in Timers : u # t => level'[u] = level[u]
  BY TypesStep DEF Without, Unlinked
<1>2. Remaining(t)' = -1
  BY <1>1 DEF Remaining, Unlinked
<1>3. ASSUME NEW u \in Timers, u # t PROVE Remaining(u)' = Remaining(u)
  BY <1>1, <1>3 DEF Remaining, SinceCarry
<1> QED BY <1>2, <1>3 DEF Rem

LEMMA SchedShort ==
  ASSUME RefInv, NEW t \in Timers, NEW us \in Nat, NEW period \in BOOLEAN,
         NEW out, out = level \/ out = Without(t), out[t] = Unlinked,
         TimerSched(t, us, period, out), UNCHANGED <<cursors, phase, carry>>,
         running' = running \/ running' = NoTimer, running' = t => ~ period
  PROVE  ShortAtWrap'
<1> DEFINE k == AtLeastOne(TimevalToTicks(us))
<1>1. k \in 1 .. MaxTicks /\ WheelInv
  BY Ticks DEF RefInv
<1> HIDE DEF k
<1>2. /\ is_period' = [is_period EXCEPT ![t] = period] /\ delay' = [delay EXCEPT ![t] = k]
      /\ k >= MaxTicks => level' = out /\ UNCHANGED <<hash, left>>
      /\ k < MaxTicks => /\ level' = [out EXCEPT ![t] = LevelFor(k)]
                         /\ hash' = [hash EXCEPT ![t] = SlotFor(k)]
  BY <1>1, Constants DEF TimerSched, k
<1>3. out \in [Timers -> {Unlinked, 0, 1}] /\ \A u \in Timers : u # t => out[u] = level[u]
  BY <1>1, TypesStep DEF Without, Unlinked
<1> SUFFICES ASSUME NEW u \in Timers
             PROVE  /\ level'[u] = 0 /\ hash'[u] = 0 => delay'[u] < LevelSize
                    /\ running' = u /\ is_period'[u] /\ phase = "level0" /\ carry
                          => delay'[u] < LevelSize
  BY DEF ShortAtWrap
<1>4. CASE u # t
  <2>1. level'[u] = level[u] /\ hash'[u] = hash[u] /\ delay'[u] = delay[u]
        /\ is_period'[u] = is_period[u] /\ (running' = u => running = u)
    BY <1>4, <1>1, <1>2, <1>3, TypesStep, Constants
  <2> QED BY <2>1 DEF RefInv, ShortAtWrap
<1>5. CASE u = t
  <2>1. delay'[t] = k /\ is_period'[t] = period
    BY <1>1, <1>2, TypesStep
  <2>2. k >= MaxTicks => level'[t] # 0
    BY <1>2 DEF Unlinked
  <2>3. k < MaxTicks => level'[t] = LevelFor(k)
    BY <1>2, <1>3
  <2>4. level'[t] = 0 => k < LevelSize
    BY <1>1, <2>2, <2>3, Constants DEF LevelFor
  <2> QED BY <1>5, <2>1, <2>4
<1> QED BY <1>4, <1>5

LEMMA ShortNext == RefInv /\ [Next]_vars => ShortAtWrap'
<1> SUFFICES ASSUME RefInv, [Next]_vars PROVE ShortAtWrap'
  OBVIOUS
<1>0. Delays \cup HandlerDelays \subseteq Nat /\ WheelInv
  BY TimerAssumption DEF RefInv
<1>1. ASSUME NEW t \in Timers, NEW us \in Delays \cup HandlerDelays, NEW period \in BOOLEAN,
             Sched(t, us, period)
      PROVE  ShortAtWrap'
  <2>1. TimerSched(t, us, period, level) /\ UNCHANGED <<cursors, phase, carry, running>>
        /\ level[t] = Unlinked /\ (running = t => ~ period)
    BY <1>1 DEF Sched, wheel, Linked, Calls
  <2> QED BY <2>1, <1>0, SchedShort
<1>2. ASSUME NEW t \in Timers, NEW us \in Delays \cup HandlerDelays, Update(t, us)
      PROVE  ShortAtWrap'
  <2>1. TimerSched(t, us, is_period[t], Without(t)) /\ UNCHANGED <<cursors, phase, carry, running>>
        /\ (running = t => ~ is_period[t])
    BY <1>2 DEF Update, wheel, Calls
  <2>2. Without(t)[t] = Unlinked /\ is_period[t] \in BOOLEAN
    BY <1>0, TypesStep DEF Without
  <2> QED BY <2>1, <2>2, <1>0, SchedShort
<1>3. ASSUME NEW t \in Timers, Reset(t) PROVE ShortAtWrap'
  <2> DEFINE us == TicksToTimeval(delay[t])
  <2>1. TimerSched(t, us, is_period[t], Without(t)) /\ UNCHANGED <<cursors, phase, carry, running>>
        /\ (running = t => ~ is_period[t]) /\ delay[t] # 0
    BY <1>3 DEF Reset, wheel, Calls
  <2>2. Without(t)[t] = Unlinked /\ is_period[t] \in BOOLEAN /\ delay[t] \in 1 .. MaxTicks
    BY <1>0, <2>1, TypesStep, Constants DEF Without
  <2>3. us \in Nat
    BY <2>2, SameTicks
  <2> HIDE DEF us
  <2> QED BY <2>1, <2>2, <2>3, SchedShort
<1>4. ASSUME NEW t \in Timers, Cancel(t) PROVE ShortAtWrap'
  <2>1. level'[t] = Unlinked /\ \A u \in Timers : u # t => level'[u] = level[u]
    BY <1>4, <1>0, TypesStep DEF Cancel, Without, Unlinked
  <2> QED BY <1>4, <2>1 DEF Cancel, wheel, RefInv, ShortAtWrap, Unlinked
<1>5. ASSUME NEW t \in Timers, Expire(t) PROVE ShortAtWrap'
  <2>1. level'[t] = Unlinked /\ \A u \in Timers : u # t => level'[u] = level[u]
    BY <1>5, <1>0, TypesStep DEF Expire, Without, Unlinked
  <2>2. phase = "level0" /\ carry => level[t] = 0 /\ hash[t] = 0
    BY <1>5, <1>0 DEF Expire, InCurrentSlot, Current, WheelInv, Ticking
  <2>3. running' = t /\ UNCHANGED <<hash, delay, is_period, phase, carry>>
    BY <1>5 DEF Expire
  <2> QED BY <2>1, <2>2, <2>3 DEF RefInv, ShortAtWrap, Unlinked
<1>6. ASSUME NEW t \in Timers, HandlerAgain(t) PROVE ShortAtWrap'
  <2> DEFINE us == TicksToTimeval(delay[t])
  <2>1. TimerSched(t, us, TRUE, level) /\ UNCHANGED <<cursors, phase, carry>>
        /\ running' = NoTimer /\ running = t /\ is_period[t]
    BY <1>6 DEF HandlerAgain
  <2>2. level[t] = Unlinked /\ delay[t] \in 1 .. MaxTicks
    BY <1>0, <2>1, Constants DEF WheelInv, DelaysKept, Linked
  <2>3. us \in Nat
    BY <2>2, SameTicks
  <2>4. running' # t
    BY <2>1, Constants
  <2> HIDE DEF us
  <2> QED BY <2>1, <2>2, <2>3, <2>4, SchedShort
<1>7. ASSUME NEW t \in Timers, HandlerStop(t) PROVE ShortAtWrap'
  BY <1>7, Constants DEF HandlerStop, RefInv, ShortAtWrap
<1>8. ASSUME NEW t \in Timers, Drop(t) PROVE ShortAtWrap'
  <2> DEFINE k == left[t]
  <2>1. /\ phase = "level1" /\ cursors[0] = 0 /\ k \in 1 .. LevelSize * LevelSize - 1
        /\ level' = [level EXCEPT ![t] = LevelFor(k)] /\ hash' = [hash EXCEPT ![t] = SlotFor(k)]
        /\ UNCHANGED <<phase, delay>>
    BY <1>8, <1>0, DropAs
  <2> HIDE DEF k
  <2>2. LevelFor(k) = 0 => SlotFor(k) = k /\ k # 0
    BY <1>0, <2>1, Placed, TypesStep, Constants DEF LevelFor
  <2> QED BY <1>0, <2>1, <2>2, TypesStep DEF RefInv, ShortAtWrap
<1>9. CASE TickStart
  BY <1>0, <1>9, Constants DEF TickStart, WheelInv, Ticking, RefInv, ShortAtWrap
<1>10. CASE NextLevel \/ TickEnd
  BY <1>10 DEF NextLevel, TickEnd, RefInv, ShortAtWrap
<1>11. CASE Term
  BY <1>11 DEF Term, Unlinked, RefInv, ShortAtWrap
<1>12. CASE UNCHANGED vars
  BY <1>12 DEF vars, RefInv, ShortAtWrap
<1> QED BY <1>1, <1>2, <1>3, <1>4, <1>5, <1>6, <1>7, <1>8, <1>9, <1>10, <1>11, <1>12
        DEF Next, TickStep

\* The slot a timer waits in comes one slot closer when the cursor moves.
LEMMA Closer ==
  ASSUME cursors \in [{0, 1} -> 0 .. LevelSize - 1], NEW l \in {0, 1},
         NEW h \in 0 .. LevelSize - 1, h # cursors[l]
  PROVE  (h - Advance(l)[l]) % LevelSize = ((h - cursors[l]) % LevelSize) - 1
<1> DEFINE c == cursors[l]
           a == Advance(l)[l]
<1>1. c \in 0 .. LevelSize - 1 /\ h # c /\ LevelSize \in Nat \ {0}
  BY Constants
<1>2. a \in 0 .. LevelSize - 1 /\ a = IF c + 1 < LevelSize THEN c + 1 ELSE 0
  BY AdvanceOK
<1> HIDE DEF c, a
<1>3. (h - c) % LevelSize = IF c <= h THEN h - c ELSE h - c + LevelSize
  BY <1>1, Turn
<1>4. (h - a) % LevelSize = IF a <= h THEN h - a ELSE h - a + LevelSize
  BY <1>1, <1>2, Turn
<1>5. (h - a) % LevelSize = ((h - c) % LevelSize) - 1
  BY <1>1, <1>2, <1>3, <1>4
<1> QED BY <1>5 DEF c, a

\* Moving the cursor of level 0 takes one tick off every timer.
LEMMA TickRemaining ==
  ASSUME WheelInv, TickStart, NEW t \in Timers
  PROVE  Remaining(t)' = IF level[t] = Unlinked THEN -1 ELSE Remaining(t) - 1
<1>1. /\ phase = "idle" /\ phase' = "level0" /\ cursors' = Advance(0) /\ carry' = Carries(0)
      /\ UNCHANGED <<level, hash, left>>
  BY DEF TickStart
<1>2. hash[t] \in 0 .. LevelSize - 1 /\ cursors[0] \in 0 .. LevelSize - 1 /\ left[t] \in Int
  BY TypesStep, Constants
<1>3. CASE level[t] = Unlinked
  BY <1>1, <1>3 DEF Remaining, Unlinked
<1>4. CASE level[t] = 0
  <2>1. hash[t] # cursors[0]
    BY <1>1, <1>4 DEF WheelInv, InSlots
  <2>2. (hash[t] - Advance(0)[0]) % LevelSize = ((hash[t] - cursors[0]) % LevelSize) - 1
    BY <1>2, <2>1, Closer, TypesStep
  <2>3. Remaining(t) = (hash[t] - cursors[0]) % LevelSize
    BY <1>4 DEF Remaining, Unlinked
  <2>4. Remaining(t)' = (hash[t] - Advance(0)[0]) % LevelSize
    BY <1>1, <1>4 DEF Remaining, Unlinked
  <2> QED BY <1>4, <2>2, <2>3, <2>4 DEF Unlinked
<1>5. CASE level[t] = 1
  <2> DEFINE w == ((hash[t] - cursors[1]) % LevelSize) * LevelSize
  <2>1. cursors'[1] = cursors[1]
    BY <1>1, AdvanceOK, TypesStep
  <2>2. SinceCarry = cursors[0]
    BY <1>1 DEF SinceCarry
  <2>3. SinceCarry' = cursors[0] + 1
    <3>1. CASE cursors[0] + 1 < LevelSize
      <4>1. ~ Carries(0) /\ Advance(0)[0] = cursors[0] + 1
        BY <3>1, <1>2, AdvanceOK, TypesStep, Constants DEF Carries
      <4> QED BY <1>1, <4>1 DEF SinceCarry
    <3>2. CASE cursors[0] + 1 >= LevelSize
      <4>1. Carries(0) /\ cursors[0] + 1 = LevelSize
        BY <3>2, <1>2, Constants DEF Carries
      <4> QED BY <1>1, <4>1 DEF SinceCarry
    <3> QED BY <3>1, <3>2, <1>2, Constants
  <2>4. Remaining(t) = w + left[t] - cursors[0]
    BY <1>5, <2>2 DEF Remaining, Unlinked
  <2>5. Remaining(t)' = w + left[t] - (cursors[0] + 1)
    BY <1>1, <1>5, <2>1, <2>3 DEF Remaining, Unlinked
  <2>6. w \in Int
    <3>1. (hash[t] - cursors[1]) % LevelSize \in 0 .. LevelSize - 1
      BY <1>2, Away, TypesStep
    <3> QED BY <3>1, Constants
  <2> HIDE DEF w
  <2> QED BY <1>2, <1>5, <2>4, <2>5, <2>6, Constants DEF Unlinked
<1> QED BY <1>3, <1>4, <1>5, TypesStep

\* Moving the cursor of level 1 takes no tick off any timer.
LEMMA NextLevelRemaining ==
  ASSUME WheelInv, NextLevel, NEW t \in Timers
  PROVE  Remaining(t)' = Remaining(t)
<1>1. /\ phase = "level0" /\ carry /\ phase' = "level1" /\ cursors' = Advance(1)
      /\ UNCHANGED <<level, hash, left>>
  BY DEF NextLevel
<1>2. hash[t] \in 0 .. LevelSize - 1 /\ left[t] \in Int
  BY TypesStep, Constants
<1>3. cursors[0] = 0 /\ cursors'[0] = 0
  BY <1>1, AdvanceOK, TypesStep DEF WheelInv, Ticking
<1>4. CASE level[t] # 1
  BY <1>1, <1>3, <1>4, TypesStep DEF Remaining, Unlinked
<1>5. CASE level[t] = 1
  <2> DEFINE d == (hash[t] - cursors[1]) % LevelSize
  <2>1. hash[t] # cursors[1]
    BY <1>1, <1>5 DEF WheelInv, InSlots
  <2>2. (hash[t] - Advance(1)[1]) % LevelSize = d - 1
    BY <1>2, <2>1, Closer, TypesStep
  <2>3. SinceCarry = LevelSize /\ SinceCarry' = 0
    BY <1>1, <1>3 DEF SinceCarry
  <2>4. Remaining(t) = d * LevelSize + left[t] - LevelSize
    BY <1>5, <2>3 DEF Remaining, Unlinked
  <2>5. Remaining(t)' = ((hash[t] - Advance(1)[1]) % LevelSize) * LevelSize + left[t] - 0
    BY <1>1, <1>5, <2>3 DEF Remaining, Unlinked
  <2>6. d \in Int
    BY <1>2, Away, TypesStep, Constants
  <2> HIDE DEF d
  <2>7. Remaining(t)' = (d - 1) * LevelSize + left[t] - 0
    BY <2>2, <2>5
  <2>8. (d - 1) * LevelSize = d * LevelSize - LevelSize
    BY <2>6, Constants
  <2> DEFINE w == d * LevelSize
  <2>9. w \in Int /\ LevelSize \in Int
    BY <2>6, Constants
  <2> HIDE DEF w
  <2>10. Remaining(t)' = w - LevelSize + left[t] - 0 /\ Remaining(t) = w + left[t] - LevelSize
    BY <2>4, <2>7, <2>8 DEF w
  <2> QED BY <1>2, <2>9, <2>10
<1> QED BY <1>4, <1>5

\* A timer that drops to another slot keeps the ticks it has left.
LEMMA DropRemaining ==
  ASSUME WheelInv, NEW t \in Timers, Drop(t), NEW u \in Timers
  PROVE  Remaining(u)' = Remaining(u)
<1> DEFINE k == left[t]
<1>1. /\ phase = "level1" /\ cursors[0] = 0 /\ level[t] = 1 /\ hash[t] = cursors[1]
      /\ k \in 1 .. LevelSize * LevelSize - 1
      /\ level' = [level EXCEPT ![t] = LevelFor(k)] /\ hash' = [hash EXCEPT ![t] = SlotFor(k)]
      /\ left' = [left EXCEPT ![t] = LeftFor(k)] /\ UNCHANGED <<cursors, phase, carry>>
  BY DropAs
<1>2. CASE u # t
  <2>1. level'[u] = level[u] /\ hash'[u] = hash[u] /\ left'[u] = left[u]
    BY <1>1, <1>2, TypesStep
  <2> QED BY <1>1, <2>1 DEF Remaining, SinceCarry
<1>3. CASE u = t
  <2>1. Remaining(t) = k
    <3>1. (hash[t] - cursors[1]) % LevelSize = 0
      BY <1>1, Away, TypesStep
    <3>2. SinceCarry = 0
      BY <1>1 DEF SinceCarry
    <3>3. Remaining(t) = 0 * LevelSize + k - 0
      BY <1>1, <3>1, <3>2 DEF Remaining, Unlinked
    <3>4. k \in Int /\ LevelSize \in Int
      BY <1>1, Constants
    <3> HIDE DEF k
    <3> QED BY <3>3, <3>4
  <2> HIDE DEF k
  <2>2. level'[t] = LevelFor(k) /\ hash'[t] = SlotFor(k) /\ left'[t] = LeftFor(k)
    BY <1>1, TypesStep
  <2>3. CASE k < LevelSize
    <3>1. LevelFor(k) = 0 /\ (SlotFor(k) - cursors[0]) % LevelSize = k
      BY <1>1, <2>3, Placed, TypesStep
    <3> QED BY <1>1, <1>3, <2>1, <2>2, <3>1 DEF Remaining, Unlinked
  <2>4. CASE k >= LevelSize
    <3>1. LevelFor(k) = 1
          /\ ((SlotFor(k) - cursors[1]) % LevelSize) * LevelSize + LeftFor(k) - cursors[0] = k
      BY <1>1, <2>4, Placed, TypesStep
    <3>2. SinceCarry' = cursors[0]
      BY <1>1 DEF SinceCarry
    <3>3. Remaining(t)' = ((hash'[t] - cursors[1]) % LevelSize) * LevelSize + left'[t] - SinceCarry'
      BY <1>1, <2>2, <3>1 DEF Remaining, Unlinked
    <3> QED BY <1>3, <2>1, <2>2, <3>1, <3>2, <3>3
  <2> QED BY <1>1, <2>3, <2>4, Constants
<1> QED BY <1>2, <1>3

\* A call that schedules a timer is Sched or Refuse of TimerAbs.
LEMMA SchedStep ==
  ASSUME WheelInv, NEW t \in Timers, NEW us \in Nat, NEW period \in BOOLEAN,
         NEW out, out = level \/ out = Without(t), out[t] = Unlinked,
         TimerSched(t, us, period, out), UNCHANGED <<cursors, phase, carry>>,
         phase = "level0" /\ carry => AtLeastOne(TimevalToTicks(us)) < LevelSize,
         \/ running' = running
         \/ running = t /\ running' = NoTimer /\ AtLeastOne(TimevalToTicks(us)) < MaxTicks
  PROVE  Abs!Next
<1> DEFINE k == AtLeastOne(TimevalToTicks(us))
<1>1. /\ k \in 1 .. MaxTicks
      /\ k < MaxTicks => Rem' = [Rem EXCEPT ![t] = k]
      /\ k = MaxTicks => Rem' = [Rem EXCEPT ![t] = -1]
      /\ delay' = [delay EXCEPT ![t] = k]
  BY SchedRemaining
<1>2. \/ running' = running
      \/ running = t /\ running' = NoTimer /\ k < MaxTicks
  OBVIOUS
<1> HIDE DEF k
<1>3. CASE k < MaxTicks
  <2>1. k \in 1 .. MaxTicks - 1
    BY <1>1, <1>3, Constants
  <2>2. Abs!Sched(t, k)
    BY <1>1, <1>2, <1>3 DEF Abs!Sched, Rem
  <2> QED BY <2>1, <2>2 DEF Abs!Next
<1>4. CASE k = MaxTicks
  <2>1. Abs!Refuse(t)
    BY <1>1, <1>2, <1>4, Constants DEF Abs!Refuse, Abs!NotSet, Rem
  <2> QED BY <2>1 DEF Abs!Next
<1> QED BY <1>1, <1>3, <1>4, Constants

\* Every step of the wheel is a step of TimerAbs, or none.
LEMMA WheelStep ==
  ASSUME HandlersShort, RefInv, [Next]_vars
  PROVE  Abs!Next \/ UNCHANGED <<Rem, delay, running>>
<1>0. Delays \cup HandlerDelays \subseteq Nat /\ WheelInv
  BY TimerAssumption DEF RefInv
<1>a. ASSUME NEW us \in HandlerDelays PROVE AtLeastOne(TimevalToTicks(us)) < LevelSize
  BY <1>0, Ticks DEF HandlersShort
<1>1. ASSUME NEW t \in Timers, NEW us \in Delays \cup HandlerDelays, NEW period \in BOOLEAN,
             Sched(t, us, period)
      PROVE  Abs!Next
  <2>1. TimerSched(t, us, period, level) /\ UNCHANGED <<cursors, phase, carry, running>>
        /\ level[t] = Unlinked /\ (phase # "idle" => us \in HandlerDelays)
    BY <1>1 DEF Sched, wheel, Linked, DelaysNow
  <2> QED BY <2>1, <1>0, <1>a, SchedStep
<1>2. ASSUME NEW t \in Timers, NEW us \in Delays \cup HandlerDelays, Update(t, us)
      PROVE  Abs!Next
  <2>1. TimerSched(t, us, is_period[t], Without(t)) /\ UNCHANGED <<cursors, phase, carry, running>>
        /\ (phase # "idle" => us \in HandlerDelays)
    BY <1>2 DEF Update, wheel, DelaysNow
  <2>2. Without(t)[t] = Unlinked /\ is_period[t] \in BOOLEAN
    BY <1>0, TypesStep DEF Without
  <2> QED BY <2>1, <2>2, <1>0, <1>a, SchedStep
<1>3. ASSUME NEW t \in Timers, Reset(t) PROVE Abs!Next
  <2> DEFINE us == TicksToTimeval(delay[t])
  <2>1. TimerSched(t, us, is_period[t], Without(t)) /\ UNCHANGED <<cursors, phase, carry, running>>
        /\ (phase # "idle" => us \in HandlerDelays) /\ delay[t] # 0
    BY <1>3 DEF Reset, wheel
  <2>2. Without(t)[t] = Unlinked /\ is_period[t] \in BOOLEAN /\ delay[t] \in 1 .. MaxTicks
    BY <1>0, <2>1, TypesStep, Constants DEF Without
  <2>3. us \in Nat
    BY <2>2, SameTicks
  <2> HIDE DEF us
  <2> QED BY <2>1, <2>2, <2>3, <1>0, <1>a, SchedStep
<1>4. ASSUME NEW t \in Timers, Cancel(t) PROVE Abs!Next
  <2>1. Rem' = [Rem EXCEPT ![t] = -1]
    BY <1>4, <1>0, UnlinkRemaining DEF Cancel, wheel
  <2>2. Abs!Cancel(t)
    BY <1>4, <2>1 DEF Cancel, wheel, Abs!Cancel, Abs!NotSet, Rem
  <2> QED BY <2>2 DEF Abs!Next
<1>5. ASSUME NEW t \in Timers, Expire(t) PROVE Abs!Next
  <2>1. Rem' = [Rem EXCEPT ![t] = -1]
    BY <1>5, <1>0, UnlinkRemaining DEF Expire
  <2>2. Remaining(t) = 0
    <3>0. /\ phase \in {"level0", "level1"} /\ level[t] = Current /\ hash[t] = cursors[Current]
          /\ left[t] = 0
      BY <1>5, <1>0, TypesStep DEF Expire, Working, InCurrentSlot
    <3>1. CASE phase = "level0"
      <4>1. (hash[t] - cursors[0]) % LevelSize = 0
        BY <1>0, <3>0, <3>1, Away, TypesStep DEF Current
      <4> QED BY <3>0, <3>1, <4>1 DEF Remaining, Unlinked, Current
    <3>2. CASE phase = "level1"
      <4>1. (hash[t] - cursors[1]) % LevelSize = 0
        BY <1>0, <3>0, <3>2, Away, TypesStep DEF Current
      <4>2. SinceCarry = 0
        BY <1>0, <3>2 DEF SinceCarry, WheelInv, Ticking
      <4>3. Remaining(t) = 0 * LevelSize + 0 - 0
        BY <3>0, <3>2, <4>1, <4>2 DEF Remaining, Unlinked, Current
      <4> QED BY <4>3, Constants
    <3> QED BY <3>0, <3>1, <3>2
  <2>3. Abs!Fire(t)
    BY <1>5, <2>1, <2>2 DEF Expire, Working, Abs!Fire, Abs!NotSet, Rem
  <2> QED BY <2>3 DEF Abs!Next
<1>6. ASSUME NEW t \in Timers, HandlerAgain(t) PROVE Abs!Next
  <2> DEFINE us == TicksToTimeval(delay[t])
  <2>1. TimerSched(t, us, TRUE, level) /\ UNCHANGED <<cursors, phase, carry>>
        /\ running' = NoTimer /\ running = t /\ is_period[t]
    BY <1>6 DEF HandlerAgain
  <2>2. level[t] = Unlinked /\ delay[t] \in 1 .. MaxTicks /\ delay[t] < MaxTicks
    BY <1>0, <2>1, Constants DEF WheelInv, DelaysKept, Linked
  <2>3. us \in Nat /\ AtLeastOne(TimevalToTicks(us)) = delay[t]
    BY <2>2, SameTicks
  <2>4. phase = "level0" /\ carry => delay[t] < LevelSize
    BY <2>1 DEF RefInv, ShortAtWrap
  <2> HIDE DEF us
  <2> QED BY <2>1, <2>2, <2>3, <2>4, <1>0, SchedStep
<1>7. ASSUME NEW t \in Timers, HandlerStop(t) PROVE Abs!Next
  <2>1. Rem' = Rem /\ running' = NoTimer /\ delay' = delay
    BY <1>7 DEF HandlerStop, Rem, Remaining, SinceCarry
  <2>2. Abs!HandlerReturn
    BY <2>1 DEF Abs!HandlerReturn, Rem
  <2> QED BY <2>2 DEF Abs!Next
<1>8. ASSUME NEW t \in Timers, Drop(t) PROVE UNCHANGED <<Rem, delay, running>>
  BY <1>8, <1>0, DropAs, DropRemaining DEF Rem
<1>9. CASE TickStart
  <2>1. UNCHANGED <<delay, running>> /\ running = NoTimer /\ phase = "idle"
    BY <1>0, <1>9 DEF TickStart, WheelInv, Ticking
  <2>2. ASSUME NEW t \in Timers
        PROVE  Rem[t] # 0 /\ Remaining(t)' = IF Rem[t] = -1 THEN -1 ELSE Rem[t] - 1
    <3>1. Remaining(t)' = IF level[t] = Unlinked THEN -1 ELSE Remaining(t) - 1
      BY <1>0, <1>9, TickRemaining
    <3>2. level[t] # Unlinked => Remaining(t) \in Nat /\ Remaining(t) >= 1
      BY <1>0, <2>1, NotOverdue DEF Linked
    <3>3. level[t] = Unlinked => Remaining(t) = -1
      BY DEF Remaining, Unlinked
    <3> QED BY <3>1, <3>2, <3>3 DEF Rem
  <2>3. Abs!Tick
    BY <2>1, <2>2 DEF Abs!Tick, Abs!NotSet, Rem
  <2> QED BY <2>3 DEF Abs!Next
<1>10. CASE NextLevel
  BY <1>10, <1>0, NextLevelRemaining DEF NextLevel, Rem
<1>11. CASE TickEnd
  BY <1>11 DEF TickEnd, Rem, Remaining, SinceCarry
<1>12. CASE Term
  <2>1. \A t \in Timers : Remaining(t)' = -1
    BY <1>12 DEF Term, Remaining, Unlinked
  <2>2. Abs!Term
    BY <1>12, <2>1 DEF Term, Abs!Term, Abs!NotSet
  <2> QED BY <2>2 DEF Abs!Next
<1>13. CASE UNCHANGED vars
  BY <1>13 DEF vars, Rem, Remaining, SinceCarry
<1> QED BY <1>1, <1>2, <1>3, <1>4, <1>5, <1>6, <1>7, <1>8, <1>9, <1>10, <1>11, <1>12, <1>13
        DEF Next, TickStep

\* The wheel implements the promise of timer.h: each timer fires exactly its
\* delay in ticks after it was scheduled, across every wrap of both levels and
\* every drop from level 1, as long as handlers ask for less than a turn of
\* level 0 (a longer timer scheduled on the very tick in which level 0 wraps is
\* a turn early).
THEOREM TimerWheelImplements ==
  ASSUME HandlersShort
  PROVE  Spec => AbsSpec
<1>1. Init => RefInv /\ Abs!Init
  <2> SUFFICES ASSUME Init PROVE RefInv /\ Abs!Init
    OBVIOUS
  <2>0. ASSUME NEW t \in Timers PROVE level[t] = -1 /\ level[t] # 0 /\ phase # "level0"
    BY DEF Init, Unlinked
  <2>1. ShortAtWrap
    BY <2>0, Zenon DEF ShortAtWrap
  <2>2. ASSUME NEW t \in Timers PROVE Remaining(t) = -1
    BY <2>0 DEF Remaining, Unlinked
  <2> QED BY <2>1, <2>2, WheelInit DEF RefInv, Abs!Init, Abs!NotSet, Init
<1>2. RefInv /\ [Next]_vars => RefInv'
  BY WheelNext, ShortNext DEF RefInv
<1>3. RefInv /\ [Next]_vars => [Abs!Next]_<<Rem, delay, running>>
  BY WheelStep
<1>4. RefInv /\ [Next]_vars => [Abs!Next]_<<[t \in Timers |-> Remaining(t)], delay, running>>
  BY <1>3 DEF Rem
<1> QED BY <1>1, <1>2, <1>4, PTL DEF Spec, AbsSpec, Abs!Spec
=============================================================================
