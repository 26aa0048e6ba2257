------------------------- MODULE RateLimiter_proofs -------------------------
(***************************************************************************)
(* What the limiter guarantees for every daily limit, every length of the  *)
(* day, any number of clients and any settings of the clock.               *)
(***************************************************************************)
EXTENDS RateLimiter, TLAPS

\* What the assumption on the constants says of each.
LEMMA Parameters ==
    /\ DailyLimit \in Nat /\ DailyLimit > 0
    /\ Day \in Nat /\ Day > 0
    /\ ClockSteps \subseteq Int
    /\ NoLimit \notin Limit
BY RateLimiterAssumption DEF Limit

\* What a number of windows lets in: DailyLimit each ...
LEMMA QuotaOfOneMore ==
    ASSUME NEW x \in Int
    PROVE  /\ Quota(x) \in Int
           /\ Quota(1 + x) = DailyLimit + Quota(x)
           /\ Quota(2 + x) = 2 * DailyLimit + Quota(x)
<1>1. DailyLimit \in Nat
  BY Parameters
<1>2. DailyLimit * (1 + x) = DailyLimit + DailyLimit * x
  BY <1>1
<1>3. DailyLimit * (2 + x) = 2 * DailyLimit + DailyLimit * x
  BY <1>1
<1> QED
  BY <1>1, <1>2, <1>3 DEF Quota

\* ... so that more windows let in no fewer.
LEMMA QuotasInOrder ==
    ASSUME NEW x \in Int, NEW y \in Int, x <= y
    PROVE  Quota(x) <= Quota(y)
<1>1. DailyLimit \in Nat
  BY Parameters
<1>2. DailyLimit * (y - x) >= 0
  BY <1>1
<1>3. DailyLimit * (y - x) = DailyLimit * y - DailyLimit * x
  BY <1>1
<1>4. DailyLimit * x \in Int /\ DailyLimit * y \in Int
  BY <1>1
<1> QED
  BY <1>2, <1>3, <1>4 DEF Quota

LEMMA QuotaOfNone == Quota(0) = 0
BY Parameters DEF Quota

\* What is known of one admission of a sequence of them.
LEMMA Admissions ==
    ASSUME NEW a \in Seq(Admission), NEW i \in 1..Len(a)
    PROVE  /\ Len(a) \in Nat /\ i \in Nat /\ i >= 1 /\ i <= Len(a)
           /\ a[i] \in Admission
           /\ a[i].at \in Nat /\ a[i].jumps \in Nat /\ a[i].back \in Nat
<1>1. Len(a) \in Nat /\ i \in Nat /\ i >= 1 /\ i <= Len(a) /\ a[i] \in Admission
  OBVIOUS
<1> QED
  BY <1>1 DEF Admission

\* A window that lasted a day by the clock and that no setting of it forward
\* shortened lasted a day: all that was let in more than one limit before now,
\* or one more for each setting forward, is a day ago.
LEMMA DayOver ==
    ASSUME NEW l \in Limit, NEW a \in Seq(Admission),
           now \in Int, elapsed \in Nat, jumps \in Nat, back \in Nat,
           InOrder(a), InWindow(l, a), now - l.lastReset >= Day,
           NEW i \in 1..Len(a),
           Len(a) + 1 - i > Quota(1 + jumps - a[i].jumps)
    PROVE  elapsed - a[i].at >= Day
<1> DEFINE f == FirstOf(l, a)
<1>1. l.dailyCount \in Nat /\ l.dailyCount >= 1 /\ l.dailyCount <= DailyLimit /\ l.lastReset \in Int
  BY Parameters DEF InWindow, Limit
<1>2. Len(a) \in Nat /\ l.dailyCount <= Len(a)
  BY <1>1 DEF InWindow
<1>3. f = Len(a) - l.dailyCount + 1 /\ f \in 1..Len(a) /\ f \in Nat
  BY <1>1, <1>2 DEF FirstOf
<1>4. ClockSince(l, a[f]) /\ Spaced(f, a)
  BY DEF InWindow
<1> HIDE DEF f
<1>5. /\ i \in Nat /\ i >= 1 /\ i <= Len(a)
      /\ a[i].at \in Nat /\ a[i].jumps \in Nat
      /\ a[f].at \in Nat /\ a[f].jumps \in Nat /\ a[f].back \in Nat
  BY <1>3, Admissions
<1>6. /\ a[i].jumps <= jumps /\ a[f].jumps <= jumps /\ a[f].at <= elapsed
      /\ i <= f => a[i].at <= a[f].at /\ a[i].jumps <= a[f].jumps
  BY <1>3, <1>5 DEF InOrder
<1> DEFINE x == 1 + a[f].jumps - a[i].jumps
           y == jumps - a[i].jumps
           dx == Quota(x)
           dy == Quota(y)
           p == a[i].at
           q == a[f].at
<1>7. y \in Int /\ y >= 0 /\ 1 + jumps - a[i].jumps = 1 + y
  BY <1>5, <1>6
<1>8. dy \in Int /\ Quota(1 + y) = DailyLimit + dy
  <2> HIDE DEF y
  <2> QED
    BY <1>7, QuotaOfOneMore
<1>9. dy >= 0
  <2> HIDE DEF y
  <2> QED
    BY <1>7, QuotasInOrder, QuotaOfNone
<1>10. Len(a) + 1 - i > DailyLimit + dy
  BY <1>7, <1>8
<1>11. f - i > dy /\ i < f
  <2> DEFINE n == Len(a)
             k == l.dailyCount
  <2>1. /\ n \in Nat /\ k \in Nat /\ k <= DailyLimit /\ f = n - k + 1
        /\ n + 1 - i > DailyLimit + dy
    BY <1>1, <1>2, <1>3, <1>10
  <2> HIDE DEF dy, n, k
  <2>2. f - i > dy
    BY <1>5, <1>8, <2>1, Parameters
  <2> QED
    BY <1>3, <1>5, <1>8, <1>9, <2>2
<1>12. p \in Nat /\ q \in Nat /\ p <= q /\ q <= elapsed
  BY <1>3, <1>5, <1>6, <1>11
<1>13. CASE jumps = a[f].jumps
  <2> DEFINE r == l.lastReset
  <2>1. now - r <= elapsed - q /\ now - r >= Day /\ r \in Int
    BY <1>1, <1>4, <1>13 DEF ClockSince
  <2> HIDE DEF p, q, r
  <2>2. elapsed - p >= Day
    BY <1>12, <2>1, Parameters
  <2> QED
    BY <2>2 DEF p
<1>14. CASE jumps > a[f].jumps
  <2>1. x \in Int /\ y \in Int /\ x <= y
    BY <1>5, <1>14
  <2>2. dx <= dy /\ dx \in Int
    <3> HIDE DEF x, y
    <3> QED
      BY <2>1, QuotaOfOneMore, QuotasInOrder
  <2>3. f - i > dx
    <3> HIDE DEF dx, dy
    <3> QED
      BY <2>2, <1>3, <1>5, <1>8, <1>11
  <2>4. q - p >= Day
    BY <2>3, <1>3, <1>4, <1>5, <1>11 DEF Spaced
  <2> HIDE DEF p, q
  <2>5. elapsed - p >= Day
    BY <1>12, <2>4, Parameters
  <2> QED
    BY <2>5 DEF p
<1> QED
  BY <1>5, <1>6, <1>13, <1>14

\* In a sequence whose last window counts a limit or less, what was let in two
\* limits before the last, or one more for each setting of the clock forward,
\* was let in a day before it.
LEMMA LastSpaced ==
    ASSUME NEW l \in Limit, NEW a \in Seq(Admission),
           elapsed \in Nat, jumps \in Nat, back \in Nat,
           InOrder(a), InWindow(l, a),
           NEW j \in Int, j = Len(a), NEW i \in 1..Len(a),
           j - i >= Quota(2 + a[j].jumps - a[i].jumps)
    PROVE  a[j].at - a[i].at >= Day
<1> DEFINE f == FirstOf(l, a)
<1>1. l.dailyCount \in Nat /\ l.dailyCount >= 1 /\ l.dailyCount <= DailyLimit
  BY Parameters DEF InWindow, Limit
<1>2. Len(a) \in Nat /\ l.dailyCount <= Len(a)
  BY <1>1 DEF InWindow
<1>3. f = j - l.dailyCount + 1 /\ f \in 1..Len(a) /\ f \in Nat /\ j \in 1..Len(a)
  BY <1>1, <1>2 DEF FirstOf
<1>4. Spaced(f, a)
  BY DEF InWindow
<1> HIDE DEF f
<1>5. /\ i \in Nat /\ i >= 1 /\ i <= j
      /\ a[i].at \in Nat /\ a[i].jumps \in Nat
      /\ a[f].at \in Nat /\ a[f].jumps \in Nat
      /\ a[j].at \in Nat /\ a[j].jumps \in Nat
  BY <1>3, Admissions
<1>6. /\ f <= j
      /\ a[f].at <= a[j].at /\ a[f].jumps <= a[j].jumps
      /\ i <= j => a[i].jumps <= a[j].jumps
  <2>1. f <= j
    BY <1>1, <1>3
  <2> QED
    BY <2>1, <1>3, <1>5 DEF InOrder
<1> DEFINE x == a[f].jumps - a[i].jumps
           y == a[j].jumps - a[i].jumps
           dx == Quota(x)
           dy == Quota(y)
           p == a[i].at
           q == a[f].at
           r == a[j].at
<1>7. x \in Int /\ y \in Int /\ x <= y /\ y >= 0
  BY <1>5, <1>6
<1>8. 2 + a[j].jumps - a[i].jumps = 2 + y /\ 1 + a[f].jumps - a[i].jumps = 1 + x
  BY <1>5
<1>9. /\ dx \in Int /\ dy \in Int /\ dx <= dy /\ dy >= 0
      /\ Quota(1 + x) = DailyLimit + dx
      /\ Quota(2 + y) = 2 * DailyLimit + dy
  <2> HIDE DEF x, y
  <2>1. dx \in Int /\ Quota(1 + x) = DailyLimit + dx
    BY <1>7, QuotaOfOneMore
  <2>2. dy \in Int /\ Quota(2 + y) = 2 * DailyLimit + dy
    BY <1>7, QuotaOfOneMore
  <2>3. dx <= dy
    BY <1>7, QuotasInOrder
  <2>4. dy >= 0
    BY <1>7, QuotasInOrder, QuotaOfNone
  <2> QED
    BY <2>1, <2>2, <2>3, <2>4
<1>10. j - i >= 2 * DailyLimit + dy
  BY <1>8, <1>9
<1>11. f - i > DailyLimit + dx /\ i <= f
  <2> DEFINE k == l.dailyCount
  <2>1. k \in Nat /\ k <= DailyLimit /\ f = j - k + 1
    BY <1>1, <1>3
  <2> HIDE DEF x, y, dx, dy, k
  <2>2. f - i > DailyLimit + dx
    BY <1>5, <1>9, <1>10, <2>1, Parameters
  <2>3. j - i - (k - 1) >= 0 => i <= f
    BY <1>3, <1>5, <2>1
  <2> QED
    BY <1>5, <1>9, <1>10, <2>1, <2>2, <2>3, Parameters
<1>12. q - p >= Day
  BY <1>3, <1>4, <1>5, <1>8, <1>9, <1>11 DEF Spaced
<1>13. p \in Nat /\ q \in Nat /\ r \in Nat /\ q <= r
  BY <1>5, <1>6
<1>14. r - p >= Day
  <2> HIDE DEF p, q, r
  <2> QED
    BY <1>12, <1>13, Parameters
<1> QED
  BY <1>14

\* A request let in leaves the entry, kept, made or reset, and the admissions
\* in step.
LEMMA AdmissionInWindow ==
    ASSUME LimiterTypeOK, WindowInv, NEW c \in Clients, ~Spent(c)
    PROVE  LET e == [at |-> elapsed, jumps |-> jumps, back |-> back]
               m == [Entry(c) EXCEPT !.dailyCount = @ + 1]
               b == Append(admitted[c], e)
           IN  m \in Limit /\ b \in Seq(Admission) /\ InOrder(b) /\ InWindow(m, b)
<1> DEFINE a == admitted[c]
           e == [at |-> elapsed, jumps |-> jumps, back |-> back]
           m == [Entry(c) EXCEPT !.dailyCount = @ + 1]
           b == Append(a, e)
<1>1. /\ now \in Int /\ elapsed \in Nat /\ jumps \in Nat /\ back \in Nat
      /\ a \in Seq(Admission) /\ limits[c] \in Limit \cup {NoLimit}
  BY DEF LimiterTypeOK
<1>2. e \in Admission /\ b \in Seq(Admission)
  BY <1>1 DEF Admission
<1>3. /\ Len(a) \in Nat /\ Len(b) = Len(a) + 1 /\ b[Len(a) + 1] = e
      /\ \A i \in 1..Len(a) : b[i] = a[i]
  BY <1>1, <1>2
<1>4. /\ e.at = elapsed /\ e.jumps = jumps /\ e.back = back
  OBVIOUS
<1>5. InOrder(a)
  BY DEF WindowInv
<1> HIDE DEF b, e
<1>6. InOrder(b)
  <2> SUFFICES ASSUME NEW i \in 1..Len(b), NEW j \in 1..Len(b), i <= j
               PROVE  /\ b[i].at <= b[j].at /\ b[i].jumps <= b[j].jumps
                      /\ b[i].back <= b[j].back
                      /\ b[j].at <= elapsed /\ b[j].jumps <= jumps /\ b[j].back <= back
    BY DEF InOrder
  <2>1. CASE j \in 1..Len(a)
    <3>1. i \in 1..Len(a)
      BY <1>3, <2>1
    <3> QED
      BY <1>3, <1>5, <2>1, <3>1 DEF InOrder
  <2>2. CASE j = Len(a) + 1 /\ i \in 1..Len(a)
    <3>1. b[i] = a[i] /\ b[j] = e
      BY <1>3, <2>2
    <3>2. a[i].at <= elapsed /\ a[i].jumps <= jumps /\ a[i].back <= back
      BY <1>5, <2>2 DEF InOrder
    <3> QED
      BY <1>1, <1>4, <3>1, <3>2
  <2>3. CASE j = Len(a) + 1 /\ i = Len(a) + 1
    BY <1>1, <1>3, <1>4, <2>3
  <2> QED
    BY <1>3, <2>1, <2>2, <2>3
<1>7. CASE limits[c] # NoLimit /\ now - limits[c].lastReset < Day
  <2> DEFINE l == limits[c]
             f == FirstOf(l, a)
  <2>1. Entry(c) = l /\ l \in Limit
    BY <1>1, <1>7 DEF Entry
  <2>2. InWindow(l, a)
    BY <1>7 DEF WindowInv
  <2>3. /\ l.dailyCount \in 1..Len(a) /\ l.dailyCount \in Nat /\ l.lastReset \in Int
        /\ l.dailyCount < DailyLimit
        /\ m.dailyCount = l.dailyCount + 1 /\ m.lastReset = l.lastReset
        /\ m \in Limit
    BY <2>1, <2>2, Parameters DEF InWindow, Limit, Spent
  <2>4. f \in 1..Len(a) /\ f \in Nat /\ FirstOf(m, b) = f
    BY <1>3, <2>3 DEF FirstOf
  <2>5. ClockSince(l, a[f]) /\ Spaced(f, a)
    BY <2>2 DEF InWindow
  <2> HIDE DEF l, f, m
  <2>6. ClockSince(m, b[f])
    BY <1>3, <2>3, <2>4, <2>5 DEF ClockSince
  <2>7. Spaced(f, b)
    <3> SUFFICES ASSUME NEW i \in 1..f,
                        f - i > Quota(1 + b[f].jumps - b[i].jumps)
                 PROVE  b[f].at - b[i].at >= Day
      BY DEF Spaced
    <3>1. i \in 1..Len(a) /\ b[i] = a[i] /\ b[f] = a[f]
      BY <1>3, <2>4
    <3> QED
      BY <2>5, <3>1 DEF Spaced
  <2> QED
    BY <1>2, <1>3, <1>6, <2>3, <2>4, <2>6, <2>7 DEF InWindow, m, b, e
<1>8. CASE limits[c] = NoLimit \/ ~(now - limits[c].lastReset < Day)
  <2>1. Entry(c) = [dailyCount |-> 0, lastReset |-> now]
    BY <1>8 DEF Entry
  <2>2. m.dailyCount = 1 /\ m.lastReset = now /\ m \in Limit
    BY <1>1, <2>1, Parameters DEF Limit
  <2>3. FirstOf(m, b) = Len(b) /\ Len(b) \in 1..Len(b) /\ b[Len(b)] = e
    BY <1>3, <2>2 DEF FirstOf
  <2> HIDE DEF m
  <2>4. ClockSince(m, e)
    BY <1>1, <1>4, <2>2 DEF ClockSince
  <2>5. Spaced(Len(b), b)
    <3> SUFFICES ASSUME NEW i \in 1..Len(b),
                        Len(b) - i > Quota(1 + e.jumps - b[i].jumps)
                 PROVE  e.at - b[i].at >= Day
      BY <2>3 DEF Spaced
    <3>1. CASE i = Len(b)
      <4>1. 1 + e.jumps - b[i].jumps = 1
        BY <1>1, <1>4, <2>3, <3>1
      <4>2. Len(b) - i = 0 /\ Quota(1) = DailyLimit
        BY <1>3, <3>1, Parameters DEF Quota
      <4> QED
        BY <4>1, <4>2, Parameters
    <3>2. CASE i # Len(b)
      <4>1. i \in 1..Len(a) /\ b[i] = a[i]
        BY <1>3, <3>2
      <4>2. limits[c] # NoLimit
        BY <4>1, <1>3 DEF WindowInv
      <4>3. /\ limits[c] \in Limit /\ InWindow(limits[c], a)
            /\ now - limits[c].lastReset >= Day
        <5>1. limits[c] \in Limit /\ InWindow(limits[c], a)
          BY <1>1, <4>2 DEF WindowInv
        <5>2. limits[c].lastReset \in Int
          BY <5>1 DEF Limit
        <5> QED
          BY <1>1, <1>8, <4>2, <5>1, <5>2, Parameters
      <4>4. Len(a) + 1 - i > Quota(1 + jumps - a[i].jumps)
        BY <1>3, <1>4, <4>1
      <4>5. elapsed - a[i].at >= Day
        BY <1>1, <1>5, <4>1, <4>3, <4>4, DayOver
      <4> QED
        BY <1>4, <4>1, <4>5
    <3> QED
      BY <3>1, <3>2
  <2>6. 1 \in 1..Len(b)
    BY <1>3
  <2> QED
    BY <1>2, <1>6, <2>2, <2>3, <2>4, <2>5, <2>6 DEF InWindow, m, b, e
<1> QED
  BY <1>1, <1>7, <1>8

\* A client is refused on the entry it has: nothing was reset.
LEMMA RefusedAsStored ==
    ASSUME LimiterTypeOK, WindowInv, NEW c \in Clients, Spent(c)
    PROVE  /\ limits[c] \in Limit /\ limits[c] # NoLimit /\ Entry(c) = limits[c]
           /\ InWindow(limits[c], admitted[c])
           /\ limits[c].dailyCount = DailyLimit /\ limits[c].lastReset \in Int
           /\ now - limits[c].lastReset < Day
<1>1. limits[c] \in Limit \cup {NoLimit}
  BY DEF LimiterTypeOK
<1>2. CASE limits[c] # NoLimit /\ now - limits[c].lastReset < Day
  BY <1>1, <1>2, Parameters DEF Entry, Spent, WindowInv, Limit
<1>3. CASE ~(limits[c] # NoLimit /\ now - limits[c].lastReset < Day)
  <2>1. Entry(c).dailyCount = 0
    BY <1>3 DEF Entry
  <2> QED
    BY <2>1, Parameters DEF Spent
<1> QED
  BY <1>2, <1>3

\* Whatever the clock does, the entries stay in step with the admissions.
LEMMA ClockInWindow ==
    ASSUME LimiterTypeOK, WindowInv, Time
    PROVE  LimiterTypeOK' /\ WindowInv'
<1>1. /\ now \in Int /\ elapsed \in Nat /\ jumps \in Nat /\ back \in Nat
      /\ limits' = limits /\ admitted' = admitted
  BY DEF Time, Tick, SetClock, LimiterTypeOK
<1>2. /\ now' \in Int /\ elapsed' \in Nat /\ jumps' \in Nat /\ back' \in Nat
      /\ elapsed' >= elapsed /\ jumps' >= jumps /\ back' >= back
      /\ now' - now >= (elapsed' - elapsed) - (back' - back)
      /\ jumps' = jumps => now' - now <= elapsed' - elapsed
  <2>1. CASE Tick
    BY <1>1, <2>1 DEF Tick
  <2>2. CASE SetClock
    <3>1. PICK d \in ClockSteps :
            /\ now' = now + d
            /\ jumps' = IF d > 0 THEN jumps + 1 ELSE jumps
            /\ back' = IF d < 0 THEN back - d ELSE back
      BY <2>2 DEF SetClock
    <3>2. d \in Int /\ elapsed' = elapsed
      BY <2>2, Parameters DEF SetClock
    <3> QED
      BY <1>1, <3>1, <3>2
  <2> QED
    BY <2>1, <2>2 DEF Time
<1>3. LimiterTypeOK'
  BY <1>1, <1>2 DEF LimiterTypeOK
<1>4. ASSUME NEW c \in Clients
      PROVE  /\ InOrder(admitted[c])'
             /\ limits[c] # NoLimit => InWindow(limits[c], admitted[c])'
  <2> DEFINE a == admitted[c]
             l == limits[c]
  <2>1. a \in Seq(Admission) /\ l \in Limit \cup {NoLimit} /\ InOrder(a)
    BY DEF LimiterTypeOK, WindowInv
  <2>2. InOrder(a)'
    <3> SUFFICES ASSUME NEW i \in 1..Len(a), NEW j \in 1..Len(a), i <= j
                 PROVE  /\ a[i].at <= a[j].at /\ a[i].jumps <= a[j].jumps
                        /\ a[i].back <= a[j].back
                        /\ a[j].at <= elapsed' /\ a[j].jumps <= jumps' /\ a[j].back <= back'
      BY <1>1 DEF InOrder
    <3>1. a[j].at \in Nat /\ a[j].jumps \in Nat /\ a[j].back \in Nat
      BY <2>1, Admissions
    <3>2. /\ a[i].at <= a[j].at /\ a[i].jumps <= a[j].jumps
          /\ a[i].back <= a[j].back
          /\ a[j].at <= elapsed /\ a[j].jumps <= jumps /\ a[j].back <= back
      BY <2>1 DEF InOrder
    <3> QED
      BY <1>1, <1>2, <3>1, <3>2
  <2>3. ASSUME l # NoLimit
        PROVE  InWindow(l, a)'
    <3> DEFINE f == FirstOf(l, a)
    <3>1. l \in Limit /\ InWindow(l, a) /\ l.lastReset \in Int
      BY <2>1, <2>3 DEF WindowInv, Limit
    <3>2. l.dailyCount \in 1..Len(a) /\ Len(a) \in Nat /\ ClockSince(l, a[f]) /\ Spaced(f, a)
      BY <3>1, <2>1 DEF InWindow
    <3>3. f \in 1..Len(a)
      BY <3>2 DEF FirstOf
    <3>4. /\ a[f].at \in Nat /\ a[f].jumps \in Nat /\ a[f].back \in Nat
          /\ a[f].jumps <= jumps
      <4> HIDE DEF f, a
      <4> QED
        BY <2>1, <3>3, Admissions DEF InOrder
    <3>5. ClockSince(l, a[f])'
      <4>1. ClockSince(l, a[f])' <=>
              /\ now' - l.lastReset >= (elapsed' - a[f].at) - (back' - a[f].back)
              /\ jumps' = a[f].jumps => now' - l.lastReset <= elapsed' - a[f].at
        BY <1>1 DEF ClockSince, FirstOf
      <4>2. /\ now - l.lastReset >= (elapsed - a[f].at) - (back - a[f].back)
            /\ jumps = a[f].jumps => now - l.lastReset <= elapsed - a[f].at
        BY <3>2 DEF ClockSince
      <4> DEFINE p == a[f].at
                 s == a[f].back
                 u == a[f].jumps
                 r == l.lastReset
      <4>3. /\ p \in Nat /\ s \in Nat /\ u \in Nat /\ r \in Int /\ u <= jumps
            /\ now - r >= (elapsed - p) - (back - s)
            /\ jumps = u => now - r <= elapsed - p
        BY <3>1, <3>4, <4>2
      <4> HIDE DEF p, s, u, r
      <4>4. /\ now' - r >= (elapsed' - p) - (back' - s)
            /\ jumps' = u => now' - r <= elapsed' - p
        <5> DEFINE n1 == now'
                   e1 == elapsed'
                   b1 == back'
                   j1 == jumps'
        <5>1. /\ n1 \in Int /\ e1 \in Int /\ b1 \in Int /\ j1 \in Int
              /\ n1 - now >= (e1 - elapsed) - (b1 - back) /\ j1 >= jumps
              /\ j1 = jumps => n1 - now <= e1 - elapsed
          BY <1>2
        <5> HIDE DEF n1, e1, b1, j1
        <5>2. n1 - r >= (e1 - p) - (b1 - s)
          BY <1>1, <4>3, <5>1
        <5>3. j1 = u => n1 - r <= e1 - p
          BY <1>1, <4>3, <5>1
        <5> QED
          BY <5>2, <5>3 DEF n1, e1, b1, j1
      <4> QED
        BY <4>1, <4>4 DEF p, s, u, r
    <3> QED
      BY <1>1, <3>2, <3>5 DEF InWindow, FirstOf, Spaced
  <2> QED
    BY <2>2, <2>3
<1> QED
  BY <1>1, <1>3, <1>4 DEF WindowInv

\* One step of the limiter, alone or in a module that composes it, keeps its
\* invariant: a request let in ...
LEMMA AdmitStep ==
    ASSUME LimiterInv, NEW c \in Clients, Admit(c)
    PROVE  LimiterInv'
<1> DEFINE e == [at |-> elapsed, jumps |-> jumps, back |-> back]
           m == [Entry(c) EXCEPT !.dailyCount = @ + 1]
           a == admitted[c]
           b == Append(a, e)
<1>1. /\ LimiterTypeOK /\ WindowInv /\ WindowBound
      /\ now \in Int /\ elapsed \in Nat /\ jumps \in Nat /\ back \in Nat
      /\ a \in Seq(Admission)
  BY DEF LimiterInv, LimiterTypeOK
<1>2. m \in Limit /\ b \in Seq(Admission) /\ InOrder(b) /\ InWindow(m, b)
  BY <1>1, AdmissionInWindow DEF Admit
<1>3. /\ now' = now /\ elapsed' = elapsed /\ jumps' = jumps /\ back' = back
      /\ limits' = [limits EXCEPT ![c] = m]
      /\ admitted' = [admitted EXCEPT ![c] = b]
  BY DEF Admit, clockVars
<1>4. Len(a) \in Nat /\ Len(b) = Len(a) + 1 /\ \A i \in 1..Len(a) : b[i] = a[i]
  BY <1>1, <1>2
<1> HIDE DEF e, m, b
<1>5. LimiterTypeOK'
  BY <1>1, <1>2, <1>3 DEF LimiterTypeOK
<1>6. ASSUME NEW d \in Clients, d # c
      PROVE  limits'[d] = limits[d] /\ admitted'[d] = admitted[d]
  BY <1>1, <1>3, <1>6 DEF LimiterTypeOK
<1>7. limits'[c] = m /\ admitted'[c] = b /\ m # NoLimit
  BY <1>1, <1>2, <1>3, Parameters DEF LimiterTypeOK
<1>8. WindowInv'
  <2>1. ASSUME NEW d \in Clients
        PROVE  /\ InOrder(admitted[d])'
               /\ IF limits'[d] = NoLimit
                  THEN admitted'[d] = <<>>
                  ELSE InWindow(limits[d], admitted[d])'
    <3>1. CASE d = c
      BY <1>2, <1>3, <1>7, <3>1 DEF InOrder, InWindow, ClockSince, FirstOf, Spaced
    <3>2. CASE d # c
      BY <1>1, <1>3, <1>6, <3>2
      DEF WindowInv, InOrder, InWindow, ClockSince, FirstOf, Spaced
    <3> QED
      BY <3>1, <3>2
  <2> QED
    BY <2>1 DEF WindowInv
<1>9. WindowBound'
  <2> SUFFICES ASSUME NEW d \in Clients,
                      NEW j \in 1..Len(admitted'[d]), NEW i \in 1..j,
                      j - i >= Quota(2 + admitted'[d][j].jumps - admitted'[d][i].jumps)
               PROVE  admitted'[d][j].at - admitted'[d][i].at >= Day
    BY DEF WindowBound
  <2>1. CASE d = c /\ j = Len(b)
    <3>1. i \in 1..Len(b)
      BY <1>4, <2>1
    <3> QED
      BY <1>1, <1>2, <1>7, <2>1, <3>1, LastSpaced
  <2>2. CASE d = c /\ j # Len(b)
    <3>1. j \in 1..Len(a) /\ i \in 1..Len(a)
      BY <1>4, <1>7, <2>2
    <3> QED
      BY <1>1, <1>4, <1>7, <2>2, <3>1 DEF WindowBound
  <2>3. CASE d # c
    BY <1>1, <1>6, <2>3 DEF WindowBound
  <2> QED
    BY <2>1, <2>2, <2>3
<1> QED
  BY <1>5, <1>8, <1>9 DEF LimiterInv

\* ... or refused, time passing or the clock being set, a restart, and any step
\* that leaves the limiter alone.
LEMMA RefuseStep ==
    ASSUME LimiterInv, NEW c \in Clients, Refuse(c)
    PROVE  LimiterInv'
<1>1. Entry(c) = limits[c]
  BY RefusedAsStored DEF Refuse, LimiterInv
<1>2. UNCHANGED limiterVars
  BY <1>1 DEF Refuse, limiterVars, LimiterInv, LimiterTypeOK
<1> QED
  BY <1>2
  DEF limiterVars, clockVars, LimiterInv, LimiterTypeOK, WindowInv, InOrder, InWindow,
      ClockSince, FirstOf, Spaced, WindowBound

LEMMA TimeStep ==
    ASSUME LimiterInv, Time
    PROVE  LimiterInv'
<1>1. LimiterTypeOK' /\ WindowInv'
  BY ClockInWindow DEF LimiterInv
<1>2. admitted' = admitted
  BY DEF Time, Tick, SetClock
<1> QED
  BY <1>1, <1>2 DEF LimiterInv, WindowBound

LEMMA ForgetStep ==
    ASSUME LimiterInv, ForgetLimits
    PROVE  LimiterInv'
<1>1. /\ UNCHANGED clockVars
      /\ limits' = [c \in Clients |-> NoLimit]
      /\ admitted' = [c \in Clients |-> <<>>]
  BY DEF ForgetLimits
<1>2. LimiterTypeOK'
  BY <1>1 DEF LimiterInv, LimiterTypeOK, clockVars
<1>3. WindowInv'
  BY <1>1 DEF WindowInv, InOrder
<1>4. WindowBound'
  BY <1>1 DEF WindowBound
<1> QED
  BY <1>2, <1>3, <1>4 DEF LimiterInv

LEMMA LimiterIdle ==
    ASSUME LimiterInv, UNCHANGED limiterVars
    PROVE  LimiterInv'
BY DEF limiterVars, clockVars, LimiterInv, LimiterTypeOK, WindowInv, InOrder, InWindow,
       ClockSince, FirstOf, Spaced, WindowBound

LEMMA LimiterStart == LimiterInit => LimiterInv
<1> SUFFICES ASSUME LimiterInit
             PROVE  LimiterInv
  OBVIOUS
<1>1. LimiterTypeOK
  BY DEF LimiterInit, LimiterTypeOK
<1>2. WindowInv /\ WindowBound
  BY DEF LimiterInit, WindowInv, WindowBound, InOrder
<1> QED
  BY <1>1, <1>2 DEF LimiterInv

\* The limiter's type invariant, the shape of the windows and the bound on them
\* are together inductive.
THEOREM LimiterInvariance == LimiterSpec => []LimiterInv
<1>1. LimiterInv /\ [LimiterNext]_limiterVars => LimiterInv'
  BY AdmitStep, RefuseStep, TimeStep, ForgetStep, LimiterIdle DEF LimiterNext
<1> QED
  BY <1>1, LimiterStart, PTL DEF LimiterSpec

\* Any DailyLimit * (2 + k) + 1 requests of a client that AllowRequest lets in,
\* while the clock is set forward k times and back any number of times, span a
\* day of real time or more.
THEOREM TwiceADay == LimiterSpec => []WindowBound
BY LimiterInvariance, PTL DEF LimiterInv

\* A refusal, in any state of the invariant, rests on a full limit of recent
\* requests.
LEMMA RefusalEarned ==
    ASSUME LimiterInv
    PROVE  RefusedOnlyWhenSpent
<1> SUFFICES ASSUME NEW c \in Clients, Spent(c)
             PROVE  LET a == admitted[c]
                        oldest == a[Len(a) - DailyLimit + 1]
                    IN  /\ Len(a) >= DailyLimit
                        /\ elapsed - oldest.at < Day + (back - oldest.back)
  BY DEF RefusedOnlyWhenSpent
<1> DEFINE a == admitted[c]
           f == Len(a) - DailyLimit + 1
<1>1. /\ now \in Int /\ elapsed \in Nat /\ back \in Nat /\ a \in Seq(Admission)
      /\ LimiterTypeOK /\ WindowInv
  BY DEF LimiterInv, LimiterTypeOK
<1>2. /\ InWindow(limits[c], a)
      /\ limits[c].dailyCount = DailyLimit /\ limits[c].lastReset \in Int
      /\ now - limits[c].lastReset < Day
  BY <1>1, RefusedAsStored
<1>3. Len(a) \in Nat /\ DailyLimit <= Len(a) /\ ClockSince(limits[c], a[f])
  BY <1>1, <1>2, Parameters DEF InWindow, FirstOf
<1>4. f \in 1..Len(a)
  BY <1>3, Parameters
<1>5. a[f].at \in Nat /\ a[f].back \in Nat
  <2> HIDE DEF f
  <2> QED
    BY <1>1, <1>4, Admissions
<1>6. now - limits[c].lastReset >= (elapsed - a[f].at) - (back - a[f].back)
  BY <1>3 DEF ClockSince
<1> HIDE DEF f
<1>7. elapsed - a[f].at < Day + (back - a[f].back)
  <2> DEFINE t == a[f].at
             s == a[f].back
             r == limits[c].lastReset
  <2>1. /\ t \in Int /\ s \in Int /\ r \in Int /\ Day \in Int
        /\ now - r < Day /\ now - r >= (elapsed - t) - (back - s)
    BY <1>2, <1>5, <1>6, Parameters
  <2> HIDE DEF t, s, r
  <2>2. elapsed - t < Day + (back - s)
    BY <1>1, <2>1
  <2> QED
    BY <2>2 DEF t, s
<1> QED
  BY <1>3, <1>7 DEF f

\* AllowRequest refuses a client only while a full limit of its requests is less
\* than a day old, or a day and what the clock has been set back since.
THEOREM RefusalsEarned == LimiterSpec => []RefusedOnlyWhenSpent
BY LimiterInvariance, RefusalEarned, PTL
=============================================================================
