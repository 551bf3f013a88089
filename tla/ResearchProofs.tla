---------------------------- MODULE ResearchProofs ----------------------------
(***************************************************************************)
(* Theorems about what research rests on: the windows of the walk-forward  *)
(* validation are sound for every history of a hundred candles or more,    *)
(* and the candles are complete and final however a download's pages fall. *)
(***************************************************************************)
EXTENDS Validation, ResearchData, FiniteSetTheorems, WellFoundedInduction, TLAPS

(***************************************************************************)
(* The windows and the thresholds of the validation.                       *)
(***************************************************************************)

\* Multiplication by a natural number keeps an order.
LEMMA MulMono ==
  ASSUME NEW d \in Nat, NEW a \in Int, NEW b \in Int, a <= b
  PROVE  d * a <= d * b
<1>1. PICK k \in Nat : b = a + k
  <2>1. b - a \in Nat BY SMT
  <2> QED BY <2>1, SMT
<1>2. d * b = d * a + d * k BY <1>1, SMT
<1>3. d * k >= 0 BY <1>1, SMT
<1> QED BY <1>2, <1>3, SMT

\* What \div is.
LEMMA DivBounds ==
  ASSUME NEW x \in Nat, NEW d \in Nat \ {0}
  PROVE  /\ x \div d \in Nat
         /\ d * (x \div d) <= x
         /\ x < d * (x \div d) + d
  BY SMT

\* A quotient is at least what its divisor fits in.
LEMMA DivAtLeast ==
  ASSUME NEW x \in Nat, NEW d \in Nat \ {0}, NEW q \in Int, d * q <= x
  PROVE  q <= x \div d
<1>1. /\ x \div d \in Nat /\ x < d * (x \div d) + d BY DivBounds
<1>2. SUFFICES ASSUME x \div d + 1 <= q PROVE FALSE BY <1>1, SMT
<1>3. d * (x \div d + 1) <= d * q BY <1>1, <1>2, MulMono
<1>4. d * (x \div d + 1) = d * (x \div d) + d BY <1>1, SMT
<1> QED BY <1>1, <1>3, <1>4, SMT

\* There is a window, each has fifty candles at least, and together they fit.
LEMMA WindowsFit ==
  ASSUME NEW total \in Nat, total >= 100, NEW n \in Nat \ {0}
  PROVE  /\ WindowCount(total, n) \in Nat \ {0}
         /\ WindowSize(total, n) \in Nat
         /\ WindowSize(total, n) >= 50
         /\ WindowCount(total, n) * WindowSize(total, n) <= total
<1>1. CASE total \div n < 50
  <2>1. /\ total \div 100 \in Nat \ {0} /\ 100 * (total \div 100) <= total BY SMT
  <2>2. WindowCount(total, n) = total \div 100 BY <1>1 DEF WindowCount
  <2>3. (total \div 100) * 100 <= total BY <2>1, SMT
  <2>4. 100 <= total \div (total \div 100) BY <2>1, <2>3, DivAtLeast
  <2> QED BY <2>1, <2>2, <2>4, DivBounds, SMT DEF WindowSize
<1>2. CASE total \div n >= 50
  <2>1. WindowCount(total, n) = n BY <1>2, DivBounds, SMT DEF WindowCount
  <2> QED BY <1>2, <2>1, DivBounds, SMT DEF WindowSize
<1> QED BY <1>1, <1>2, DivBounds, SMT

\* walk_forward_validate, whatever the history and the windows asked for: every
\* window is used, and no two share a candle, although the comment at the windows
\* says that they overlap.
THEOREM WindowsAreSound ==
  ASSUME NEW total \in Nat, total >= 100, NEW n \in Nat \ {0}
  PROVE  WindowsSound(total, n)
<1> DEFINE c == WindowCount(total, n)
           s == WindowSize(total, n)
           a == total - s
<1>1. c \in Nat \ {0} /\ s \in Nat /\ s >= 50 /\ c * s <= total BY WindowsFit
<1>2. a \in Nat /\ (c - 1) * s <= a
  <2>1. c * s = (c - 1) * s + s BY <1>1, SMT
  <2>2. (c - 1) * s >= 0 BY <1>1, SMT
  <2> QED BY <1>1, <2>1, <2>2, SMT
<1>3. ~Skipped(s) BY <1>1, SMT DEF Skipped, Splits
<1>4. ASSUME NEW i \in Windows(total, n)
      PROVE  /\ WindowStart(total, n, i) \in 0 .. a
             /\ i + 1 \in Windows(total, n) =>
                  WindowStart(total, n, i) + s <= WindowStart(total, n, i + 1)
  <2>0. i \in Nat /\ i <= c - 1 BY <1>1, SMT DEF Windows
  <2>1. CASE c = 1
    <3>1. WindowStart(total, n, i) = 0 BY <2>1 DEF WindowStart
    <3>2. i + 1 \notin Windows(total, n) BY <2>0, <2>1, SMT DEF Windows
    <3> QED BY <1>2, <3>1, <3>2, SMT
  <2>2. CASE c > 1
    <3> DEFINE d == c - 1
               q == (i * a) \div d
    <3>1. d \in Nat \ {0} /\ i * a \in Nat BY <1>1, <1>2, <2>0, <2>2, SMT
    <3>2. q \in Nat /\ d * q <= i * a BY <3>1, DivBounds
    <3>3. WindowStart(total, n, i) = q BY <2>2 DEF WindowStart
    <3>4. q <= a
      <4>1. a * i <= a * d BY <1>2, <2>0, <3>1, MulMono
      <4>2. d * q <= d * a BY <1>2, <2>0, <3>1, <3>2, <4>1, SMT
      <4>3. SUFFICES ASSUME a + 1 <= q PROVE FALSE BY <1>2, <3>2, SMT
      <4>4. d * (a + 1) <= d * q BY <1>2, <3>1, <3>2, <4>3, MulMono
      <4>5. d * (a + 1) = d * a + d BY <1>2, <3>1, SMT
      <4>6. d * a + d <= d * a BY <1>2, <3>1, <3>2, <4>2, <4>4, <4>5, SMT
      <4>7. d * a \in Nat BY <1>2, <3>1, SMT
      <4> HIDE DEF d, q, a
      <4> QED BY <3>1, <4>6, <4>7, SMT
    <3>5. q + s <= ((i + 1) * a) \div d
      <4>1. (i + 1) * a = i * a + a BY <1>2, <2>0, SMT
      <4>2. d * (q + s) = d * q + d * s BY <1>1, <3>1, <3>2, SMT
      <4>3. d * (q + s) <= (i + 1) * a BY <1>1, <1>2, <3>1, <3>2, <4>1, <4>2, SMT
      <4>4. (i + 1) * a \in Nat BY <1>2, <2>0, SMT
      <4> HIDE DEF d, q, a, s
      <4> QED BY <1>1, <3>1, <3>2, <4>3, <4>4, DivAtLeast
    <3>6. i + 1 \in Nat => WindowStart(total, n, i + 1) = ((i + 1) * a) \div d
      BY <2>2 DEF WindowStart
    <3> QED BY <1>2, <2>0, <3>2, <3>3, <3>4, <3>5, <3>6, SMT
  <2> QED BY <1>1, <2>1, <2>2, SMT
<1>5. Windows(total, n) # {} BY <1>1, SMT DEF Windows
<1> QED BY <1>3, <1>4, <1>5 DEF WindowsSound

\* check_qualification: what qualifies goes on to qualify under easier thresholds.
\* An alpha of zero counts as no threshold at all, although the comment at it says
\* that it asks for the return of buy-and-hold.
THEOREM EasierThresholds ==
  ASSUME NEW m \in Metrics, NEW t \in Thresholds, NEW u \in Thresholds,
         NEW consistency \in Int \cup {NoResult}, NEW benchmark \in Int,
         NoResult \notin Int, Easier(u, t), Qualified(m, t, consistency, benchmark)
  PROVE  Qualified(m, u, consistency, benchmark)
<1>1. (consistency # NoResult /\ u.consistency > 0) => consistency >= u.consistency
  <2>1. SUFFICES ASSUME consistency \in Int, u.consistency > 0
                 PROVE  consistency >= u.consistency
    OBVIOUS
  <2>2. t.consistency \in Int /\ u.consistency \in Int /\ u.consistency <= t.consistency
    BY DEF Thresholds, Easier
  <2>3. consistency >= t.consistency BY <2>1, <2>2, SMT DEF Qualified
  <2> QED BY <2>1, <2>2, <2>3, SMT
<1>2. u.alpha # 0 => m.return - benchmark >= u.alpha
  BY SMT DEF Metrics, Thresholds, Easier, Qualified
<1>3. /\ m.return >= u.return /\ m.sharpe >= u.sharpe /\ m.trades >= u.trades
      /\ m.drawdown <= u.drawdown /\ m.factor >= u.factor
  BY SMT DEF Metrics, Thresholds, Easier, Qualified
<1> QED BY <1>1, <1>2, <1>3 DEF Qualified

(***************************************************************************)
(* Candles and the clock.                                                  *)
(***************************************************************************)

\* Every set of natural numbers has a least one.  This takes the place of
\* induction in what follows.
LEMMA LeastNat ==
  ASSUME NEW T \in SUBSET Nat, T # {}
  PROVE  \E x \in T : \A y \in T : x <= y
<1>1. \E x \in T : \A y \in T : ~ (<<y, x>> \in OpToRel(<,Nat))
  BY WFMin, NatLessThanWellFounded
<1>2. \E x \in T : \A y \in T : ~(y < x)
  BY <1>1 DEF OpToRel
<1> QED BY <1>2

\* A bounded set of natural numbers has a greatest, and Max is it.
LEMMA GreatestNat ==
  ASSUME NEW T \in SUBSET Nat, T # {}, NEW b \in Nat, \A x \in T : x <= b
  PROVE  Max(T) \in T /\ \A x \in T : x <= Max(T)
<1> DEFINE U == {u \in Nat : \A x \in T : x <= u}
<1>1. PICK u \in U : \A v \in U : u <= v
  <2>1. b \in U /\ U \subseteq Nat
    OBVIOUS
  <2> QED
    BY <2>1, LeastNat
<1>2. u \in T
  <2>1. SUFFICES ASSUME u \notin T PROVE FALSE
    OBVIOUS
  <2>2. \A x \in T : x <= u - 1
    BY <1>1, <2>1
  <2>3. PICK x \in T : x \in Nat /\ x <= u - 1
    BY <2>2
  <2>4. u - 1 \in Nat
    BY <1>1, <2>3
  <2>5. u - 1 \in U
    BY <2>2, <2>4
  <2> QED
    BY <1>1, <2>5
<1>3. \E x \in T : \A y \in T : x >= y
  BY <1>1, <1>2
<1> QED
  BY <1>3 DEF Max

\* And Min is its least.
LEMMA LeastIsMin ==
  ASSUME NEW T \in SUBSET Nat, T # {}
  PROVE  Min(T) \in T /\ \A x \in T : Min(T) <= x
  BY LeastNat DEF Min

\* The number of the candle in the making at time t.
Making(t) == t \div Interval

\* The candles closed are those before it.
LEMMA ClosedBefore ==
  ASSUME NEW t \in Nat, NEW i \in Nat
  PROVE  /\ Making(t) \in Nat
         /\ Making(t) * Interval <= t /\ t < Making(t) * Interval + Interval
         /\ Closed(i, t) <=> i < Making(t)
<1>1. Interval \in Nat \ {0}
  BY DataAssumption
<1>2. PICK q \in Nat : q = Making(t) /\ Interval * q <= t /\ t < Interval * q + Interval
  BY <1>1, DivBounds DEF Making
<1>3. q * Interval = Interval * q
  BY <1>1, <1>2, SMT
<1>4. ASSUME i < q PROVE Closed(i, t)
  <2>1. Interval * (i + 1) <= Interval * q
    BY <1>1, <1>2, <1>4, MulMono
  <2> QED
    BY <1>1, <1>2, <2>1, SMT DEF Closed
<1>5. ASSUME q <= i PROVE ~Closed(i, t)
  <2>1. Interval * q <= Interval * i
    BY <1>1, <1>2, <1>5, MulMono
  <2> QED
    BY <1>1, <1>2, <2>1, SMT DEF Closed
<1> QED
  BY <1>2, <1>3, <1>4, <1>5

\* It never goes back.
LEMMA MakingMono ==
  ASSUME NEW t \in Nat, NEW u \in Nat, t <= u
  PROVE  Making(t) <= Making(u)
<1>1. Interval \in Nat \ {0}
  BY DataAssumption
<1>2. PICK q \in Nat : q = Making(t) /\ Interval * q <= t
  BY <1>1, DivBounds DEF Making
<1> QED
  BY <1>1, <1>2, DivAtLeast DEF Making

\* The look-back is a whole number of candles, and a download starts so many
\* before the candle in the making.
LEMMA StartsEarly ==
  ASSUME NEW t \in Nat, t >= Lookback
  PROVE  /\ Expected \in Nat \ {0}
         /\ StartOf(t) \in Nat
         /\ StartOf(t) + Expected <= Making(t)
<1> DEFINE perDay == Day \div Interval
           days == Lookback \div Day
           passed == (t - Lookback) \div Day
<1>1. Interval \in Nat \ {0} /\ Day \in Nat \ {0} /\ Lookback \in Nat \ {0}
  BY DataAssumption
<1>2. perDay \in Nat /\ Day = perDay * Interval
  <2>1. Day % Interval = 0
    BY DataAssumption
  <2>2. perDay \in Nat
    BY <1>1, SMT
  <2>3. Interval * perDay = Day
    BY <1>1, <2>1, SMT
  <2> QED
    BY <1>1, <2>2, <2>3, SMT
<1>3. days \in Nat /\ Lookback = days * Day
  <2>1. Lookback % Day = 0
    BY DataAssumption
  <2>2. days \in Nat
    BY <1>1, SMT
  <2>3. Day * days = Lookback
    BY <1>1, <2>1, SMT
  <2> QED
    BY <1>1, <2>2, <2>3, SMT
<1>4. passed \in Nat /\ passed * Day <= t - Lookback
  <2>1. t - Lookback \in Nat
    BY <1>1
  <2>2. passed \in Nat /\ Day * passed <= t - Lookback
    BY <1>1, <2>1, DivBounds
  <2> QED
    BY <1>1, <2>2, SMT
<1> HIDE DEF perDay, days, passed
<1>5. PICK e \in Nat : e = days * perDay /\ Lookback = e * Interval
  <2>1. days * perDay \in Nat
    BY <1>2, <1>3, SMT
  <2>2. days * (perDay * Interval) = (days * perDay) * Interval
    BY <1>1, <1>2, <1>3, SMT
  <2> QED
    BY <1>2, <1>3, <2>1, <2>2
<1>6. e # 0
  BY <1>1, <1>5, SMT
<1>7. Expected = e
  <2>1. Interval * e <= Lookback + Interval - 1
    BY <1>1, <1>5, SMT
  <2>2. PICK x \in Nat : x = Lookback + Interval - 1
    BY <1>1
  <2>3. PICK q \in Nat : q = x \div Interval /\ Interval * q <= x
    BY <1>1, <2>2, DivBounds
  <2>4. e <= q
    BY <1>1, <1>5, <2>1, <2>2, <2>3, DivAtLeast
  <2>5. q <= e
    <3>1. SUFFICES ASSUME e + 1 <= q PROVE FALSE
      BY <1>5, <2>3
    <3>2. Interval * (e + 1) <= Interval * q
      BY <1>1, <1>5, <2>3, <3>1, MulMono
    <3>3. Interval * (e + 1) = e * Interval + Interval
      BY <1>1, <1>5, SMT
    <3>4. Interval * (e + 1) = Lookback + Interval
      BY <1>5, <3>3
    <3> QED
      BY <1>1, <2>2, <2>3, <3>2, <3>4
  <2> QED
    BY <1>5, <2>2, <2>3, <2>4, <2>5 DEF Expected
<1>8. PICK n \in Nat : n = passed * perDay /\ n * Interval = passed * Day /\ StartOf(t) = n
  <2>1. passed * perDay \in Nat
    BY <1>2, <1>4, SMT
  <2>2. passed * (perDay * Interval) = (passed * perDay) * Interval
    BY <1>1, <1>2, <1>4, SMT
  <2>3. StartOf(t) = passed * perDay
    BY DEF StartOf, passed, perDay
  <2> QED
    BY <1>2, <2>1, <2>2, <2>3
<1>9. n + e <= Making(t)
  <2>1. Interval * (n + e) = n * Interval + e * Interval
    BY <1>1, <1>5, <1>8, SMT
  <2>2. Interval * (n + e) <= t
    <3>1. PICK a \in Int : a = passed * Day
      BY <1>1, <1>4, SMT
    <3>2. a <= t - Lookback
      BY <1>4, <3>1
    <3>3. Interval * (n + e) = a + Lookback
      BY <1>5, <1>8, <2>1, <3>1
    <3> QED
      BY <1>1, <3>1, <3>2, <3>3
  <2>3. PICK m \in Int : m = n + e /\ Interval * m <= t
    BY <1>5, <1>8, <2>2
  <2>4. m <= t \div Interval
    BY <1>1, <2>3, DivAtLeast
  <2> QED
    BY <2>3, <2>4 DEF Making
<1> QED
  BY <1>6, <1>7, <1>8, <1>9

(***************************************************************************)
(* A page of candles.                                                      *)
(***************************************************************************)

\* Rows: of each candle there, whether its values are final.
RowSets == UNION {[S -> BOOLEAN] : S \in SUBSET Nat}

\* A page has the first candles listed, in their order.
LEMMA PageInOrder ==
  ASSUME NEW n \in Nat, NEW t \in Nat
  PROVE  /\ Listed(n, t) \subseteq Nat /\ IsFiniteSet(Listed(n, t))
         /\ DOMAIN Page(n, t) \subseteq Listed(n, t)
         /\ \A i \in DOMAIN Page(n, t) :
              /\ Page(n, t)[i] = Closed(i, t)
              /\ \A k \in Listed(n, t) : k < i => k \in DOMAIN Page(n, t)
<1>1. Making(t) \in Nat /\ Listed(n, t) = {i \in n .. Making(t) : i \notin halted}
  BY DataAssumption, ClosedBefore DEF Listed, Making
<1>2. Listed(n, t) \subseteq Nat /\ IsFiniteSet(Listed(n, t))
  <2>1. IsFiniteSet(n .. Making(t)) /\ Listed(n, t) \in SUBSET (n .. Making(t))
    BY <1>1, FS_Interval
  <2> QED
    BY <1>1, <2>1, FS_Subset
<1>3. DOMAIN Page(n, t) \subseteq Listed(n, t)
  BY DEF Page
<1>4. ASSUME NEW i \in DOMAIN Page(n, t), NEW k \in Listed(n, t), k < i
      PROVE  k \in DOMAIN Page(n, t)
  <2> DEFINE below(x) == {y \in Listed(n, t) : y < x}
  <2>1. below(i) \in SUBSET Listed(n, t) /\ below(k) \in SUBSET below(i)
    BY <1>2, <1>3, <1>4
  <2>2. /\ IsFiniteSet(below(i)) /\ IsFiniteSet(below(k))
        /\ Cardinality(below(k)) <= Cardinality(below(i))
    <3> HIDE DEF below
    <3> QED
      BY <1>2, <2>1, FS_Subset
  <2>3. Cardinality(below(i)) \in Nat /\ Cardinality(below(k)) \in Nat
    BY <2>2, FS_CardinalityType
  <2>4. Cardinality(below(i)) < PageLimit
    BY <1>4 DEF Page
  <2>5. Cardinality(below(k)) < PageLimit
    <3> HIDE DEF below
    <3> QED
      BY <2>2, <2>3, <2>4, DataAssumption
  <2> QED
    BY <1>4, <2>5 DEF Page
<1>5. \A i \in DOMAIN Page(n, t) : Page(n, t)[i] = Closed(i, t)
  BY DEF Page
<1> QED
  BY <1>2, <1>3, <1>4, <1>5

\* A candle listed but not on the page has a full page of candles before it.
LEMMA PageFull ==
  ASSUME NEW n \in Nat, NEW t \in Nat, NEW i \in Listed(n, t), i \notin DOMAIN Page(n, t)
  PROVE  \E S \in SUBSET DOMAIN Page(n, t) :
           IsFiniteSet(S) /\ Cardinality(S) >= PageLimit /\ \A k \in S : k < i
<1> DEFINE missing == Listed(n, t) \ DOMAIN Page(n, t)
           below(x) == {y \in Listed(n, t) : y < x}
<1>1. Listed(n, t) \subseteq Nat /\ IsFiniteSet(Listed(n, t))
  BY PageInOrder
<1>2. PICK j \in missing : \A k \in missing : j <= k
  <2>1. missing \in SUBSET Nat /\ missing # {}
    BY <1>1
  <2> QED
    BY <2>1, LeastNat
<1>3. j <= i /\ j \in Nat /\ i \in Nat
  BY <1>1, <1>2
<1>4. below(j) \subseteq DOMAIN Page(n, t)
  <2>1. ASSUME NEW k \in below(j) PROVE k \in DOMAIN Page(n, t)
    <3>1. k \in Listed(n, t) /\ k < j /\ k \in Nat
      BY <1>1, <2>1
    <3>2. k \notin missing
      BY <1>2, <1>3, <3>1
    <3> QED
      BY <3>1, <3>2
  <2> QED
    BY <2>1
<1>5. IsFiniteSet(below(j)) /\ Cardinality(below(j)) \in Nat
  <2>1. below(j) \in SUBSET Listed(n, t)
    OBVIOUS
  <2>2. IsFiniteSet(below(j))
    BY <1>1, <2>1, FS_Subset
  <2> QED
    BY <2>2, FS_CardinalityType
<1>6. ~(Cardinality(below(j)) < PageLimit)
  BY <1>2 DEF Page
<1>7. \A k \in below(j) : k < i
  BY <1>1, <1>3
<1>8. Cardinality(below(j)) >= PageLimit
  <2> HIDE DEF below
  <2> QED
    BY <1>5, <1>6, DataAssumption
<1> QED
  BY <1>4, <1>5, <1>7, <1>8

\* What get_klines keeps of a page: the first candles listed, closed by our
\* clock; all of them where they do not fill the page.
LEMMA KeptInOrder ==
  ASSUME NEW n \in Nat, NEW a \in Nat, NEW t \in Nat, a <= t,
         NEW kept, kept = Kept(Page(n, a), t)
  PROVE  /\ \A i \in DOMAIN kept : /\ i \in Nat /\ n <= i /\ i <= Making(a) /\ i < Making(t)
                                   /\ i \notin halted
                                   /\ kept[i] \in BOOLEAN /\ (kept[i] <=> i < Making(a))
         /\ \A i \in DOMAIN kept, k \in Listed(n, a) : k < i => k \in DOMAIN kept
         /\ Last(kept) =>
              \A i \in Listed(n, a) : i < Making(t) => i \in DOMAIN kept
         /\ DOMAIN kept = {} => Last(kept)
<1> DEFINE page == Page(n, a)
<1>1. /\ Listed(n, a) \subseteq Nat /\ IsFiniteSet(Listed(n, a))
      /\ DOMAIN page \subseteq Listed(n, a)
      /\ \A i \in DOMAIN page : page[i] = Closed(i, a)
      /\ \A i \in DOMAIN page, k \in Listed(n, a) : k < i => k \in DOMAIN page
  BY PageInOrder
<1>2. /\ DOMAIN kept = {i \in DOMAIN page : Closed(i, t)}
      /\ \A i \in DOMAIN kept : kept[i] = page[i]
  BY DEF Kept
<1>3. Listed(n, a) = {i \in n .. Making(a) : i \notin halted}
  BY DEF Listed, Making
<1>4. /\ Making(a) \in Nat /\ Making(t) \in Nat
      /\ \A i \in Nat : Closed(i, t) <=> i < Making(t)
      /\ \A i \in Nat : Closed(i, a) <=> i < Making(a)
  BY ClosedBefore
<1> HIDE DEF page
<1>5. \A i \in DOMAIN kept : /\ i \in Nat /\ n <= i /\ i <= Making(a) /\ i < Making(t)
                             /\ i \notin halted
                             /\ kept[i] \in BOOLEAN /\ (kept[i] <=> i < Making(a))
  <2> SUFFICES ASSUME NEW i \in DOMAIN kept
               PROVE  /\ i \in Nat /\ n <= i /\ i <= Making(a) /\ i < Making(t)
                      /\ i \notin halted
                      /\ kept[i] \in BOOLEAN /\ (kept[i] <=> i < Making(a))
    OBVIOUS
  <2>1. i \in DOMAIN page /\ Closed(i, t) /\ kept[i] = page[i]
    BY <1>2
  <2>2. i \in Nat /\ i \in n .. Making(a) /\ i \notin halted
    BY <1>1, <1>3, <2>1
  <2>3. kept[i] = Closed(i, a)
    BY <1>1, <2>1
  <2>4. kept[i] \in BOOLEAN
    BY <2>3 DEF Closed
  <2> QED
    BY <1>4, <2>1, <2>2, <2>3, <2>4
<1>6. ASSUME NEW i \in DOMAIN kept, NEW k \in Listed(n, a), k < i PROVE k \in DOMAIN kept
  <2>1. i \in DOMAIN page /\ i < Making(t) /\ i \in Nat /\ k \in Nat
    BY <1>1, <1>2, <1>5
  <2>2. k \in DOMAIN page /\ Closed(k, t)
    BY <1>1, <1>4, <1>6, <2>1
  <2> QED
    BY <1>2, <2>2
<1>7. IsFiniteSet(DOMAIN kept)
  <2>1. DOMAIN kept \in SUBSET Listed(n, a)
    BY <1>1, <1>2
  <2> QED
    BY <1>1, <2>1, FS_Subset
<1>8. ASSUME Last(kept), NEW i \in Listed(n, a), i < Making(t) PROVE i \in DOMAIN kept
  <2>1. CASE i \in DOMAIN page
    BY <1>1, <1>2, <1>4, <1>8, <2>1
  <2>2. CASE i \notin DOMAIN page
    <3>1. PICK S \in SUBSET DOMAIN page :
            IsFiniteSet(S) /\ Cardinality(S) >= PageLimit /\ \A k \in S : k < i
      BY <2>2, PageFull DEF page
    <3>2. S \in SUBSET DOMAIN kept
      <4>1. ASSUME NEW k \in S PROVE k \in DOMAIN kept
        <5>1. k \in Nat /\ i \in Nat /\ k < i
          BY <1>1, <3>1
        <5>2. Closed(k, t)
          BY <1>4, <1>8, <5>1
        <5> QED
          BY <1>2, <5>2
      <4> QED
        BY <4>1
    <3>3. Cardinality(S) <= Cardinality(DOMAIN kept)
      BY <1>7, <3>2, FS_Subset
    <3>4. Cardinality(S) \in Nat /\ Cardinality(DOMAIN kept) \in Nat
      BY <1>7, <3>1, FS_CardinalityType
    <3>5. Cardinality(DOMAIN kept) < PageLimit
      BY <1>8 DEF Last
    <3> QED
      BY <3>1, <3>3, <3>4, <3>5, DataAssumption
  <2> QED
    BY <2>1, <2>2
<1>9. DOMAIN kept = {} => Last(kept)
  BY FS_EmptySet, DataAssumption DEF Last
<1> QED
  BY <1>5, <1>6, <1>8, <1>9

(***************************************************************************)
(* The inductive invariant of the download.                                *)
(***************************************************************************)

Loaders ==
  [pc : {"idle", "asking", "answered", "saving"}, from : Nat, next : Nat, asked : Nat,
   at : Nat, page : RowSets, rows : RowSets]

DataTypeOK ==
  /\ now \in Nat /\ now >= Lookback /\ halted \in Halts
  /\ loader \in Loaders /\ store \in RowSets

\* A download starts a look-back before it first asks, and then knows of no
\* candle in the making; a row that is not final is newer than what was stored.
Loading ==
  loader.pc # "idle" =>
    /\ loader.from <= loader.next /\ loader.from + Expected <= Making(loader.asked)
    /\ loader.asked <= now
    /\ \A i \in DOMAIN loader.rows : /\ loader.from <= i /\ i \notin halted
                                     /\ i < Making(now)
    /\ \A i \in DOMAIN store : i < Making(loader.asked)
    /\ \A i \in DOMAIN loader.rows :
         ~loader.rows[i] => /\ \A j \in DOMAIN loader.rows : j <= i
                            /\ \A j \in DOMAIN store : j < i

\* Until the last page the rows are all the candles before the next to ask for,
\* and a row that is not final closed so recently that the next cannot close
\* before the answer to it is taken or timed out.
Paging ==
  loader.pc \in {"asking", "answered"} =>
    /\ now <= loader.asked + Timeout
    /\ \A i \in Nat : i \in DOMAIN loader.rows <=>
                        loader.from <= i /\ i < loader.next /\ i \notin halted
    /\ \A i \in DOMAIN loader.rows :
         /\ i < Making(loader.asked)
         /\ ~loader.rows[i] => /\ i + 1 = loader.next
                               /\ loader.asked < loader.next * Interval + Timeout

Answered ==
  /\ loader.pc \in {"answered", "saving"} => loader.asked <= loader.at /\ loader.at <= now
  /\ loader.pc = "answered" => loader.page = Page(loader.next, loader.at)

\* What is saved ends with the last candle closed, or the one in the making, when
\* the last page was answered.
Complete ==
  loader.pc = "saving" =>
    /\ \A i \in Nat : loader.from <= i /\ i < Making(loader.at) /\ i \notin halted
                        => i \in DOMAIN loader.rows
    /\ \A i \in DOMAIN loader.rows : i <= Making(loader.at)

DataInv == DataTypeOK /\ Loading /\ Paging /\ Answered /\ Complete

\* Every stored row is of a candle the exchange has, and has closed.
StoreClosed == \A i \in DOMAIN store : i \notin halted /\ i < Making(now)

\* A stored row that is not final is the newest, or so old that the newest frame
\* begins with it or after it.
StoreFinal ==
  Expected > 1 =>
    \A i \in DOMAIN store : ~store[i] =>
      \/ \A j \in DOMAIN store : j <= i
      \/ \E j \in DOMAIN store : j + 1 >= i + Expected

\* Rows are booleans of natural numbers, and so is what is made of two of them.
LEMMA RowsTyped ==
  ASSUME NEW f \in RowSets
  PROVE  DOMAIN f \subseteq Nat /\ \A i \in DOMAIN f : f[i] \in BOOLEAN
  BY DEF RowSets

LEMMA OverRows ==
  ASSUME NEW f \in RowSets, NEW g \in RowSets
  PROVE  /\ Over(f, g) \in RowSets
         /\ DOMAIN Over(f, g) = DOMAIN f \cup DOMAIN g
         /\ \A i \in DOMAIN f : Over(f, g)[i] = f[i]
         /\ \A i \in DOMAIN g : i \notin DOMAIN f => Over(f, g)[i] = g[i]
<1>1. /\ DOMAIN f \subseteq Nat /\ \A i \in DOMAIN f : f[i] \in BOOLEAN
      /\ DOMAIN g \subseteq Nat /\ \A i \in DOMAIN g : g[i] \in BOOLEAN
  BY RowsTyped
<1>2. /\ DOMAIN Over(f, g) = DOMAIN f \cup DOMAIN g
      /\ \A i \in DOMAIN f : Over(f, g)[i] = f[i]
      /\ \A i \in DOMAIN g : i \notin DOMAIN f => Over(f, g)[i] = g[i]
  BY DEF Over
<1>3. Over(f, g) \in [DOMAIN f \cup DOMAIN g -> BOOLEAN]
  BY <1>1 DEF Over
<1> QED
  BY <1>1, <1>2, <1>3 DEF RowSets

\* No rows, a page, and what is kept of one are rows.
LEMMA PagesTyped ==
  /\ NoRows \in RowSets /\ DOMAIN NoRows = {}
  /\ \A n, t \in Nat : Page(n, t) \in RowSets
  /\ \A n, a, t \in Nat : Kept(Page(n, a), t) \in RowSets
<1>1. NoRows \in [{} -> BOOLEAN] /\ DOMAIN NoRows = {}
  BY DEF NoRows
<1>2. ASSUME NEW n \in Nat, NEW t \in Nat PROVE Page(n, t) \in RowSets
  <2>1. /\ DOMAIN Page(n, t) \subseteq Nat
        /\ \A i \in DOMAIN Page(n, t) : Page(n, t)[i] \in BOOLEAN
    <3>1. ASSUME NEW i \in DOMAIN Page(n, t) PROVE Page(n, t)[i] \in BOOLEAN
      <4>1. Page(n, t)[i] = Closed(i, t)
        BY PageInOrder
      <4> QED
        BY <4>1 DEF Closed
    <3> QED
      BY <3>1, PageInOrder
  <2>2. Page(n, t) = [i \in DOMAIN Page(n, t) |-> Page(n, t)[i]]
    BY DEF Page
  <2>3. Page(n, t) \in [DOMAIN Page(n, t) -> BOOLEAN]
    BY <2>1, <2>2
  <2> QED
    BY <2>1, <2>3 DEF RowSets
<1>3. ASSUME NEW n \in Nat, NEW a \in Nat, NEW t \in Nat PROVE Kept(Page(n, a), t) \in RowSets
  <2>1. PICK page \in RowSets : page = Page(n, a)
    BY <1>2
  <2>2. DOMAIN Kept(page, t) \subseteq Nat /\ Kept(page, t) \in [DOMAIN Kept(page, t) -> BOOLEAN]
    BY <2>1, RowsTyped DEF Kept
  <2> QED
    BY <2>1, <2>2 DEF RowSets
<1> QED
  BY <1>1, <1>2, <1>3 DEF RowSets

\* A download that ends or has not begun leaves nothing to show but its types.
LEMMA IdleStep ==
  ASSUME DataInv, loader' = Idle, now' = now, halted' = halted, store' \in RowSets
  PROVE  DataInv'
<1>1. loader'.pc = "idle" /\ loader' \in Loaders
  BY PagesTyped DEF Idle, Loaders
<1>2. DataTypeOK'
  BY <1>1 DEF DataInv, DataTypeOK
<1> QED
  BY <1>1, <1>2 DEF DataInv, Loading, Paging, Answered, Complete

\* A download starts at a date before all that it will ask for.
LEMMA DownloadStep ==
  ASSUME DataInv, StoreClosed, Download
  PROVE  DataInv'
<1>1. /\ now \in Nat /\ now >= Lookback /\ StartOf(now) \in Nat
      /\ StartOf(now) + Expected <= Making(now)
  BY StartsEarly DEF DataInv, DataTypeOK
<1>2. /\ loader'.pc = "asking" /\ loader'.from = StartOf(now) /\ loader'.next = StartOf(now)
      /\ loader'.asked = now /\ loader'.rows = NoRows /\ loader' \in Loaders
      /\ now' = now /\ halted' = halted /\ store' = store
  BY <1>1, PagesTyped DEF Download, Idle, Loaders
<1>3. DataTypeOK'
  BY <1>2 DEF DataInv, DataTypeOK
<1>4. Loading'
  BY <1>1, <1>2, PagesTyped DEF Loading, StoreClosed, Making
<1>5. Paging'
  BY <1>1, <1>2, PagesTyped, DataAssumption DEF Paging
<1> QED
  BY <1>2, <1>3, <1>4, <1>5 DEF DataInv, Answered, Complete

\* An answer leaves what was downloaded before.
LEMMA AnswerStep ==
  ASSUME DataInv, Answer
  PROVE  DataInv'
<1>1. /\ loader.pc = "asking" /\ now \in Nat /\ loader \in Loaders /\ loader.next \in Nat
  BY DEF DataInv, DataTypeOK, Answer, Loaders
<1>2. Page(loader.next, now) \in RowSets
  BY <1>1, PagesTyped
<1>3. /\ loader'.pc = "answered" /\ loader'.from = loader.from /\ loader'.next = loader.next
      /\ loader'.asked = loader.asked /\ loader'.rows = loader.rows /\ loader' \in Loaders
      /\ loader'.at = now /\ loader'.page = Page(loader.next, now)
      /\ now' = now /\ halted' = halted /\ store' = store
  BY <1>1, <1>2 DEF Answer, Loaders
<1>4. DataTypeOK'
  BY <1>3 DEF DataInv, DataTypeOK
<1>5. Loading' /\ Paging'
  BY <1>1, <1>3 DEF DataInv, Loading, Paging, Making
<1>6. Answered'
  <2>1. Page(loader.next, now)' = Page(loader.next, now)
    BY <1>3 DEF Page, Listed, Closed
  <2>2. loader.asked <= now
    BY <1>1 DEF DataInv, Loading
  <2> QED
    BY <1>1, <1>3, <2>1, <2>2 DEF Answered, Page, Listed, Closed
<1> QED
  BY <1>3, <1>4, <1>5, <1>6 DEF DataInv, Complete

\* Time that passes closes candles, none too soon for the request under way.
LEMMA TickStep ==
  ASSUME DataInv, Tick
  PROVE  DataInv'
<1>1. /\ now \in Nat /\ now' = now + 1 /\ loader' = loader /\ halted' = halted /\ store' = store
      /\ loader \in Loaders /\ store \in RowSets
  BY DEF DataInv, DataTypeOK, Tick
<1>2. Making(now) \in Nat /\ Making(now + 1) \in Nat /\ Making(now) <= Making(now + 1)
  BY <1>1, ClosedBefore, MakingMono
<1>3. DataTypeOK'
  BY <1>1, DataAssumption DEF DataInv, DataTypeOK
<1>4. /\ DOMAIN loader.rows \subseteq Nat /\ loader.asked \in Nat /\ loader.at \in Nat
  BY <1>1, RowsTyped DEF Loaders
<1>5. Loading'
  <2> SUFFICES ASSUME loader.pc # "idle" PROVE Loading'
    BY <1>1 DEF Loading
  <2>1. \A i \in DOMAIN loader.rows : i < Making(now) => i < Making(now + 1)
    BY <1>2, <1>4
  <2>2. \A i \in DOMAIN loader.rows : i < Making(now')
    BY <1>1, <2>1 DEF DataInv, Loading
  <2>3. loader.asked <= now'
    BY <1>1, <1>4 DEF DataInv, Loading
  <2> QED
    BY <1>1, <2>2, <2>3 DEF DataInv, Loading, Making
<1>6. Paging'
  <2> SUFFICES ASSUME loader.pc \in {"asking", "answered"} PROVE Paging'
    BY <1>1 DEF Paging
  <2>1. now < loader.asked + Timeout
    BY DEF Tick
  <2>2. now' <= loader.asked + Timeout
    BY <1>1, <1>4, <2>1, DataAssumption
  <2> QED
    BY <1>1, <2>2 DEF DataInv, Paging
<1>7. Answered'
  BY <1>1, <1>4 DEF DataInv, Answered, Page, Listed, Closed
<1>8. Complete'
  BY <1>1 DEF DataInv, Complete, Making
<1> QED
  BY <1>3, <1>5, <1>6, <1>7, <1>8 DEF DataInv

\* A page taken: what is kept of it follows what was downloaded before without a
\* gap, and only its last row, the candle in the making when the answer was
\* given, may not be final.
LEMMA TakeStep ==
  ASSUME DataInv, Take
  PROVE  DataInv'
<1> DEFINE kept == Kept(loader.page, now)
           rows == Over(loader.rows, kept)
<1>1. /\ loader.pc = "answered" /\ now' = now /\ halted' = halted /\ store' = store
      /\ now \in Nat /\ loader \in Loaders /\ loader.page = Page(loader.next, loader.at)
      /\ loader.asked <= loader.at /\ loader.at <= now /\ now <= loader.asked + Timeout
      /\ store \in RowSets
  BY DEF DataInv, DataTypeOK, Answered, Paging, Take
<1>2. PICK f \in Nat, n \in Nat, asked \in Nat, at \in Nat :
        f = loader.from /\ n = loader.next /\ asked = loader.asked /\ at = loader.at
  BY <1>1 DEF Loaders
<1>3. PICK old \in RowSets : old = loader.rows
  BY <1>1 DEF Loaders
<1>4. PICK q \in Nat : q = Making(now)
  BY <1>1, ClosedBefore
<1>5. PICK p \in Nat : p = Making(at)
  BY <1>2, ClosedBefore
<1>6. PICK r \in Nat : r = Making(asked)
  BY <1>2, ClosedBefore
<1>7. r <= p /\ p <= q
  BY <1>1, <1>2, <1>4, <1>5, <1>6, MakingMono
\* What is kept.
<1>8. PICK new \in RowSets : new = kept
  BY <1>1, <1>2, PagesTyped
<1>9. /\ \A i \in DOMAIN new : /\ i \in Nat /\ n <= i /\ i <= p /\ i < q /\ i \notin halted
                               /\ (new[i] <=> i < p)
      /\ \A i \in DOMAIN new, k \in Listed(n, at) : k < i => k \in DOMAIN new
      /\ Last(new) => \A i \in Listed(n, at) : i < q => i \in DOMAIN new
      /\ DOMAIN new = {} => Last(new)
  <2>1. new = Kept(Page(n, at), now) /\ at <= now
    BY <1>1, <1>2, <1>8
  <2>2. /\ \A i \in DOMAIN new : /\ i \in Nat /\ n <= i /\ i <= Making(at) /\ i < Making(now)
                                 /\ i \notin halted
                                 /\ new[i] \in BOOLEAN /\ (new[i] <=> i < Making(at))
        /\ \A i \in DOMAIN new, k \in Listed(n, at) : k < i => k \in DOMAIN new
        /\ Last(new) =>
             \A i \in Listed(n, at) : i < Making(now) => i \in DOMAIN new
        /\ DOMAIN new = {} => Last(new)
    BY <1>1, <2>1, KeptInOrder
  <2> QED
    BY <1>4, <1>5, <2>2, Zenon
<1>10. Listed(n, at) = {i \in n .. p : i \notin halted}
  BY <1>5 DEF Listed, Making
\* What was downloaded before.
<1>11. /\ f <= n /\ f + Expected <= r
       /\ \A i \in DOMAIN store : i < r
       /\ \A i \in Nat : i \in DOMAIN old <=> f <= i /\ i < n /\ i \notin halted
       /\ \A i \in DOMAIN old : i < r /\ i < q
       /\ \A i \in DOMAIN old : ~old[i] => /\ i + 1 = n /\ asked < n * Interval + Timeout
                                           /\ \A j \in DOMAIN old : j <= i
                                           /\ \A j \in DOMAIN store : j < i
  BY <1>1, <1>2, <1>3, <1>4, <1>6 DEF DataInv, Loading, Paging
<1>12. DOMAIN old \subseteq Nat /\ DOMAIN new \subseteq Nat /\ DOMAIN store \subseteq Nat
  BY <1>1, RowsTyped
\* After a row that is not final nothing more is kept.
<1>13. ASSUME NEW i \in DOMAIN old, ~old[i] PROVE DOMAIN new = {}
  <2>1. asked < n * Interval + Timeout
    BY <1>11, <1>13
  <2>2. Interval \in Nat \ {0} /\ Timeout \in Nat /\ 2 * Timeout < Interval
    BY DataAssumption
  <2>3. now < (n + 1) * Interval
    <3>1. PICK x \in Int : x = n * Interval /\ (n + 1) * Interval = x + Interval
      BY <2>2, SMT
    <3> QED
      BY <1>1, <1>2, <2>1, <2>2, <3>1
  <2>4. ~Closed(n, now)
    BY <1>1, <2>2, <2>3, SMT DEF Closed
  <2>5. q <= n
    BY <1>1, <1>4, <2>4, ClosedBefore
  <2>6. ASSUME NEW k \in DOMAIN new PROVE FALSE
    <3>1. k \in Nat /\ n <= k /\ k < q
      BY <1>9, <2>6
    <3> QED
      BY <2>5, <3>1
  <2> QED
    BY <2>6
\* Both together.
<1>14. PICK all \in RowSets :
         /\ all = Over(old, new) /\ DOMAIN all = DOMAIN old \cup DOMAIN new
         /\ \A i \in DOMAIN old : all[i] = old[i]
         /\ \A i \in DOMAIN new : i \notin DOMAIN old => all[i] = new[i]
  <2>1. /\ Over(old, new) \in RowSets
        /\ DOMAIN Over(old, new) = DOMAIN old \cup DOMAIN new
        /\ \A i \in DOMAIN old : Over(old, new)[i] = old[i]
        /\ \A i \in DOMAIN new : i \notin DOMAIN old => Over(old, new)[i] = new[i]
    BY OverRows
  <2> QED
    BY <2>1, Zenon
<1>15. /\ DOMAIN all \subseteq Nat
       /\ \A i \in DOMAIN all : f <= i /\ i \notin halted /\ i < q /\ i <= p
  <2>1. ASSUME NEW i \in DOMAIN old PROVE f <= i /\ i \notin halted /\ i < q /\ i <= p
    BY <1>7, <1>11, <1>12, <2>1
  <2>2. ASSUME NEW i \in DOMAIN new PROVE f <= i /\ i \notin halted /\ i < q /\ i <= p
    BY <1>9, <1>11, <2>2
  <2> QED
    BY <1>12, <1>14, <2>1, <2>2
<1>16. ASSUME NEW i \in DOMAIN all, ~all[i]
       PROVE  /\ \A j \in DOMAIN all : j <= i
              /\ \A j \in DOMAIN store : j < i
              /\ DOMAIN new # {} => i = p
  <2>1. CASE i \in DOMAIN old
    <3>1. ~old[i]
      BY <1>14, <1>16, <2>1
    <3>2. DOMAIN new = {} /\ DOMAIN all = DOMAIN old
      BY <1>13, <1>14, <2>1, <3>1
    <3> QED
      BY <1>11, <2>1, <3>1, <3>2
  <2>2. CASE i \in DOMAIN new /\ i \notin DOMAIN old
    <3>1. ~(i < p) /\ i <= p /\ i \in Nat
      BY <1>9, <1>14, <1>16, <2>2
    <3>2. i = p
      BY <3>1
    <3>3. \A j \in DOMAIN store : j < p
      BY <1>7, <1>11, <1>12
    <3> QED
      BY <1>15, <3>2, <3>3
  <2> QED
    BY <1>14, <2>1, <2>2
\* The download is over.
<1>17. ASSUME NEW res \in RowSets, DOMAIN res = DOMAIN all, \A i \in DOMAIN all : res[i] = all[i],
              Last(new), loader' = [loader EXCEPT !.pc = "saving", !.page = NoRows, !.rows = res]
       PROVE  DataInv'
  <2>1. /\ loader'.pc = "saving" /\ loader'.from = f /\ loader'.next = n /\ loader'.asked = asked
        /\ loader'.at = at /\ loader'.rows = res /\ loader' \in Loaders
    BY <1>1, <1>2, <1>17, PagesTyped DEF Loaders
  <2>2. DataTypeOK'
    BY <1>1, <2>1 DEF DataInv, DataTypeOK
  <2>3. Loading'
    <3>1. asked <= now
      BY <1>1, <1>2
    <3>2. /\ \A i \in DOMAIN res : f <= i /\ i \notin halted /\ i < q
          /\ \A i \in DOMAIN res : ~res[i] => /\ \A j \in DOMAIN res : j <= i
                                              /\ \A j \in DOMAIN store : j < i
      BY <1>15, <1>16, <1>17
    <3> QED
      BY <1>1, <1>4, <1>6, <1>11, <2>1, <3>1, <3>2 DEF Loading, Making
  <2>4. Answered' /\ Paging'
    BY <1>1, <1>2, <2>1 DEF Answered, Paging
  <2>5. ASSUME NEW i \in Nat, f <= i, i < p, i \notin halted PROVE i \in DOMAIN res
    <3>1. CASE i < n
      BY <1>11, <1>14, <1>17, <2>5, <3>1
    <3>2. CASE n <= i
      <4>1. i \in Listed(n, at) /\ i < q
        BY <1>7, <1>10, <2>5, <3>2
      <4> QED
        BY <1>9, <1>14, <1>17, <4>1
    <3> QED
      BY <3>1, <3>2
  <2>6. Complete'
    BY <1>1, <1>5, <1>15, <1>17, <2>1, <2>5 DEF Complete, Making
  <2> QED
    BY <2>2, <2>3, <2>4, <2>6 DEF DataInv
\* Another page is asked for.
<1>18. ASSUME DOMAIN new # {},
              loader' = [loader EXCEPT !.pc = "asking", !.page = NoRows, !.rows = all,
                                       !.next = After(new), !.asked = now]
       PROVE  DataInv'
  <2>1. PICK m \in Nat : m = Max(DOMAIN new) /\ m \in DOMAIN new /\ \A i \in DOMAIN new : i <= m
    <3>1. DOMAIN new \in SUBSET Nat /\ \A i \in DOMAIN new : i <= p
      BY <1>9, <1>12
    <3> QED
      BY <1>18, <3>1, GreatestNat
  <2>2. After(new) = m + 1 /\ n <= m /\ m <= p /\ m < q
    BY <1>9, <2>1 DEF After
  <2>3. /\ loader'.pc = "asking" /\ loader'.from = f /\ loader'.next = m + 1
        /\ loader'.asked = now /\ loader'.rows = all /\ loader' \in Loaders
    <3>1. m + 1 \in Nat /\ NoRows \in RowSets /\ all \in RowSets
      BY <2>1, PagesTyped
    <3>2. loader' = [loader EXCEPT !.pc = "asking", !.page = NoRows, !.rows = all,
                                   !.next = m + 1, !.asked = now]
      BY <1>18, <2>2
    <3> HIDE DEF rows, kept
    <3> QED
      BY <1>1, <1>2, <3>1, <3>2 DEF Loaders
  <2>4. DataTypeOK'
    BY <1>1, <2>3 DEF DataInv, DataTypeOK
  <2>5. Loading'
    <3>1. \A j \in DOMAIN store : j < q
      BY <1>7, <1>11, <1>12
    <3>2. f <= m + 1 /\ f + Expected <= q
      <4>1. Expected \in Nat
        BY <1>1, StartsEarly DEF DataInv, DataTypeOK
      <4> QED
        BY <1>7, <1>11, <2>2, <4>1
    <3> QED
      BY <1>1, <1>4, <1>15, <1>16, <2>3, <3>1, <3>2 DEF Loading, Making
  <2>6. ASSUME NEW i \in Nat
        PROVE  i \in DOMAIN all <=> f <= i /\ i < m + 1 /\ i \notin halted
    <3>1. ASSUME i \in DOMAIN all PROVE f <= i /\ i < m + 1 /\ i \notin halted
      <4>1. i < m + 1
        BY <1>11, <1>14, <2>1, <2>2, <3>1
      <4> QED
        BY <1>15, <3>1, <4>1
    <3>2. ASSUME f <= i, i <= m, i \notin halted PROVE i \in DOMAIN all
      <4>1. CASE i < n
        BY <1>11, <1>14, <3>2, <4>1
      <4>2. CASE i = m
        BY <1>14, <2>1, <4>2
      <4>3. CASE n <= i /\ i < m
        <5>1. i \in Listed(n, at)
          BY <1>10, <2>2, <3>2, <4>3
        <5> QED
          BY <1>9, <1>14, <2>1, <4>3, <5>1
      <4> QED
        BY <3>2, <4>1, <4>2, <4>3
    <3> QED
      BY <3>1, <3>2
  <2>7. ASSUME NEW i \in DOMAIN all, ~all[i]
        PROVE  i + 1 = m + 1 /\ now < (m + 1) * Interval + Timeout
    <3>1. i = p /\ m <= i /\ i <= m
      <4>1. i = p /\ \A j \in DOMAIN all : j <= i
        BY <1>16, <1>18, <2>7
      <4>2. m \in DOMAIN all /\ i \in Nat
        BY <1>14, <1>15, <2>1, <2>7
      <4>3. i < m + 1
        BY <2>6, <2>7, <4>2
      <4> QED
        BY <2>1, <4>1, <4>2, <4>3
    <3>2. m = p
      BY <2>1, <3>1
    <3>3. Interval \in Nat \ {0} /\ Timeout \in Nat
      BY DataAssumption
    <3>4. at < p * Interval + Interval
      BY <1>2, <1>5, ClosedBefore
    <3>5. PICK x \in Int : x = p * Interval /\ (p + 1) * Interval = x + Interval
      BY <3>3, SMT
    <3>6. now < (p + 1) * Interval + Timeout
      BY <1>1, <1>2, <3>3, <3>4, <3>5
    <3> QED
      BY <3>1, <3>2, <3>6
  <2>8. Paging'
    <3>1. now <= now + Timeout
      BY <1>1, DataAssumption
    <3> QED
      BY <1>1, <1>4, <1>15, <2>3, <2>6, <2>7, <3>1 DEF Paging, Making
  <2> QED
    BY <2>3, <2>4, <2>5, <2>8 DEF DataInv, Answered, Complete
<1>19. CASE loader' = Idle
  BY <1>1, <1>19, IdleStep
<1>20. CASE DOMAIN new = {} /\ loader' = [loader EXCEPT !.pc = "saving", !.page = NoRows]
  <2>1. loader' = [loader EXCEPT !.pc = "saving", !.page = NoRows, !.rows = old]
    BY <1>1, <1>3, <1>20 DEF Loaders
  <2>2. DOMAIN old = DOMAIN all /\ \A i \in DOMAIN all : old[i] = all[i]
    BY <1>14, <1>20
  <2> QED
    BY <1>9, <1>17, <1>20, <2>1, <2>2
<1>21. CASE Last(new) /\ loader' = [loader EXCEPT !.pc = "saving", !.page = NoRows, !.rows = all]
  BY <1>17, <1>21
<1> QED
  BY <1>3, <1>8, <1>14, <1>18, <1>19, <1>20, <1>21 DEF Take

\* What is saved replaces what was stored of the same candles.
LEMMA SaveStep ==
  ASSUME DataInv, StoreClosed, Save
  PROVE  /\ DataInv' /\ StoreClosed'
         /\ DOMAIN store' = DOMAIN loader.rows \cup DOMAIN store
         /\ \A i \in DOMAIN loader.rows : store'[i] = loader.rows[i]
         /\ \A i \in DOMAIN store : i \notin DOMAIN loader.rows => store'[i] = store[i]
<1>1. /\ loader.pc = "saving" /\ loader' = Idle /\ now' = now /\ halted' = halted
      /\ store' = Over(loader.rows, store) /\ store \in RowSets /\ loader.rows \in RowSets
  BY DEF DataInv, DataTypeOK, Loaders, Save, Upsert
<1>2. /\ store' \in RowSets /\ DOMAIN store' = DOMAIN loader.rows \cup DOMAIN store
      /\ \A i \in DOMAIN loader.rows : store'[i] = loader.rows[i]
      /\ \A i \in DOMAIN store : i \notin DOMAIN loader.rows => store'[i] = store[i]
  BY <1>1, OverRows
<1>3. \A i \in DOMAIN loader.rows : i \notin halted /\ i < Making(now)
  BY <1>1 DEF DataInv, Loading
<1>4. StoreClosed'
  BY <1>1, <1>2, <1>3 DEF StoreClosed, Making
<1> QED
  BY <1>1, <1>2, <1>4, IdleStep

\* Every step keeps the invariant; only a save changes what is stored.
LEMMA DataStep ==
  ASSUME DataInv, StoreClosed, [Next]_vars
  PROVE  DataInv' /\ StoreClosed' /\ (Save \/ store' = store)
<1>1. ASSUME Download \/ Answer \/ Take PROVE StoreClosed' /\ store' = store
  BY <1>1 DEF Download, Answer, Take, StoreClosed, Making
<1>2. CASE Download
  BY <1>1, <1>2, DownloadStep
<1>3. CASE Answer
  BY <1>1, <1>3, AnswerStep
<1>4. CASE Take
  BY <1>1, <1>4, TakeStep
<1>5. CASE Save
  BY <1>5, SaveStep
<1>6. CASE DownloadFails
  <2>1. loader' = Idle /\ now' = now /\ halted' = halted /\ store' = store /\ store' \in RowSets
    BY <1>6 DEF DownloadFails, DataInv, DataTypeOK
  <2>2. StoreClosed'
    BY <2>1 DEF StoreClosed, Making
  <2> QED
    BY <2>1, <2>2, IdleStep
<1>7. CASE Tick
  <2>1. now \in Nat /\ now' = now + 1 /\ store' = store /\ halted' = halted /\ store \in RowSets
    BY <1>7 DEF Tick, DataInv, DataTypeOK
  <2>2. Making(now) \in Nat /\ Making(now') \in Nat /\ Making(now) <= Making(now')
    BY <2>1, ClosedBefore, MakingMono
  <2>3. DOMAIN store \subseteq Nat
    BY <2>1, RowsTyped
  <2>4. \A i \in DOMAIN store : i \notin halted /\ i < Making(now')
    BY <2>2, <2>3 DEF StoreClosed
  <2>5. StoreClosed'
    BY <2>1, <2>4 DEF StoreClosed, Making
  <2> QED
    BY <1>7, <2>1, <2>5, TickStep
<1>8. CASE UNCHANGED vars
  BY <1>8 DEF vars, DataInv, DataTypeOK, Loading, Paging, Answered, Complete, StoreClosed, Making,
              Page, Listed, Closed
<1> QED
  BY <1>2, <1>3, <1>4, <1>5, <1>6, <1>7, <1>8 DEF Next

\* The first state has no rows and no download.
LEMMA DataInit ==
  ASSUME Init
  PROVE  DataInv /\ StoreClosed /\ StoreFinal
<1>1. /\ now \in Nat /\ now >= Lookback /\ halted \in Halts /\ loader = Idle
      /\ store \in RowSets /\ DOMAIN store = {}
  BY PagesTyped, DataAssumption DEF Init
<1>2. loader \in Loaders /\ loader.pc = "idle"
  BY <1>1, PagesTyped DEF Loaders, Idle
<1> QED
  BY <1>1, <1>2 DEF DataInv, DataTypeOK, Loading, Paging, Answered, Complete, StoreClosed, StoreFinal

\* Types, the progress of a download, and what is stored, are together inductive
\* for every size of page, timeout and set of missing candles.
THEOREM DataInvariant == Spec => [](DataInv /\ StoreClosed)
<1>1. Init => DataInv /\ StoreClosed
  BY DataInit
<1>2. DataInv /\ StoreClosed /\ [Next]_vars => DataInv' /\ StoreClosed'
  BY DataStep
<1> QED
  BY <1>1, <1>2, PTL DEF Spec

\* A download saves every candle the exchange has from its start to the last one
\* closed when the last page was answered, and nothing unclosed, however the
\* pages fall and whatever closes between them.
THEOREM PagesComplete == Spec => []PagingComplete
<1>1. DataInv => PagingComplete
  <2> SUFFICES ASSUME DataInv, loader.pc = "saving"
               PROVE  /\ {i \in Listed(loader.from, loader.at) : Closed(i, loader.at)}
                           \subseteq DOMAIN loader.rows
                      /\ DOMAIN loader.rows
                           \subseteq {i \in Listed(loader.from, now) : Closed(i, now)}
    BY DEF PagingComplete
  <2>1. /\ now \in Nat /\ loader.at \in Nat /\ loader.from \in Nat
        /\ loader.rows \in RowSets
    BY DEF DataInv, DataTypeOK, Loaders
  <2>2. DOMAIN loader.rows \subseteq Nat
    BY <2>1, RowsTyped
  <2>3. Listed(loader.from, loader.at) \subseteq Nat /\ Making(now) \in Nat
    BY <2>1, PageInOrder, ClosedBefore
  <2>4. ASSUME NEW i \in Listed(loader.from, loader.at), Closed(i, loader.at)
        PROVE  i \in DOMAIN loader.rows
    <3>1. i \in Nat /\ loader.from <= i /\ i \notin halted
      BY <2>1, <2>3, <2>4 DEF Listed
    <3>2. i < Making(loader.at)
      BY <2>1, <2>4, <3>1, ClosedBefore
    <3> QED
      BY <3>1, <3>2 DEF DataInv, Complete
  <2>5. ASSUME NEW i \in DOMAIN loader.rows PROVE i \in Listed(loader.from, now) /\ Closed(i, now)
    <3>1. loader.from <= i /\ i \notin halted /\ i < Making(now) /\ i \in Nat
      BY <2>2, <2>5 DEF DataInv, Loading
    <3>2. Closed(i, now)
      BY <2>1, <3>1, ClosedBefore
    <3> QED
      BY <2>1, <2>3, <3>1, <3>2 DEF Listed, Making
  <2> QED
    BY <2>4, <2>5
<1> QED
  BY <1>1, DataInvariant, PTL

(***************************************************************************)
(* The frame research reads.                                               *)
(***************************************************************************)

\* The newest e of a set of candles.
Newest(D, e) == {i \in D : Cardinality({j \in D : j > i}) < e}

\* The frame is the newest of all that is stored.
LEMMA FrameIsNewest ==
  ASSUME DataInv, StoreClosed
  PROVE  /\ Frame = Newest(DOMAIN store, Expected)
         /\ DOMAIN store \subseteq Nat /\ IsFiniteSet(DOMAIN store)
         /\ Expected \in Nat \ {0}
<1>1. now \in Nat /\ now >= Lookback /\ store \in RowSets
  BY DEF DataInv, DataTypeOK
<1>2. DOMAIN store \subseteq Nat /\ Making(now) \in Nat
  BY <1>1, RowsTyped, ClosedBefore
<1>3. \A i \in DOMAIN store : Closed(i, now)
  BY <1>1, <1>2, ClosedBefore DEF StoreClosed
<1>4. {i \in DOMAIN store : Closed(i, now)} = DOMAIN store
  BY <1>3
<1>5. Frame = Newest(DOMAIN store, Expected)
  BY <1>4 DEF Frame, Newest
<1>6. IsFiniteSet(DOMAIN store)
  <2>1. DOMAIN store \in SUBSET Nat /\ \A i \in DOMAIN store : i <= Making(now)
    BY <1>2 DEF StoreClosed
  <2> QED
    BY <1>2, <2>1, FS_BoundedSetOfNaturals
<1> QED
  BY <1>1, <1>2, <1>5, <1>6, StartsEarly

\* Fewer than e candles of a set are newer than one of its newest.
LEMMA NewerFew ==
  ASSUME NEW D \in SUBSET Nat, IsFiniteSet(D), NEW e \in Nat, NEW i \in Newest(D, e),
         NEW b \in Nat, \A k \in Nat : i < k /\ k <= b => k \in D
  PROVE  i \in Nat /\ b < i + e
<1> DEFINE newer == {j \in D : j > i}
<1>1. i \in Nat /\ Cardinality(newer) < e
  BY DEF Newest
<1>2. IsFiniteSet(newer) /\ Cardinality(newer) \in Nat
  <2>1. newer \in SUBSET D
    OBVIOUS
  <2>2. IsFiniteSet(newer)
    BY <2>1, FS_Subset
  <2> QED
    BY <2>2, FS_CardinalityType
<1>3. SUFFICES ASSUME b >= i + e PROVE FALSE
  BY <1>1
<1>4. (i + 1) .. b \in SUBSET newer
  <2>1. ASSUME NEW k \in (i + 1) .. b PROVE k \in D /\ k > i
    BY <1>1, <2>1
  <2> QED
    BY <2>1
<1>5. Cardinality((i + 1) .. b) = IF i + 1 > b THEN 0 ELSE b - (i + 1) + 1
  BY <1>1, FS_Interval
<1>6. Cardinality((i + 1) .. b) <= Cardinality(newer)
  BY <1>2, <1>4, FS_Subset
<1> HIDE DEF newer
<1> QED
  BY <1>1, <1>2, <1>3, <1>5, <1>6

\* The newest e of a set that ends with e consecutive candles are those.
LEMMA NewestAre ==
  ASSUME NEW D \in SUBSET Nat, IsFiniteSet(D), NEW e \in Nat \ {0}, NEW f \in Nat, NEW m \in Nat,
         f + e <= m + 1, \A k \in Nat : f <= k /\ k <= m => k \in D, \A k \in D : k <= m
  PROVE  Newest(D, e) = (m + 1 - e) .. m
<1>1. ASSUME NEW k \in Newest(D, e) PROVE k \in (m + 1 - e) .. m
  <2>1. k \in D /\ k \in Nat /\ k <= m
    BY <1>1 DEF Newest
  <2>2. SUFFICES ASSUME k <= m - e PROVE FALSE
    BY <2>1
  <2> DEFINE newer == {j \in D : j > k}
             last == (m + 1 - e) .. m
  <2>3. IsFiniteSet(newer) /\ Cardinality(newer) \in Nat /\ Cardinality(newer) < e
    <3>1. newer \in SUBSET D
      OBVIOUS
    <3>2. IsFiniteSet(newer)
      BY <3>1, FS_Subset
    <3>3. Cardinality(newer) < e
      BY <1>1 DEF Newest
    <3> QED
      BY <3>2, <3>3, FS_CardinalityType
  <2>4. last \in SUBSET newer
    <3>1. ASSUME NEW j \in last PROVE j \in D /\ j > k
      BY <2>1, <2>2, <3>1
    <3> QED
      BY <3>1
  <2>5. Cardinality(last) = e
    <3>1. m + 1 - e \in Int /\ ~(m + 1 - e > m) /\ m - (m + 1 - e) + 1 = e
      OBVIOUS
    <3> QED
      BY <3>1, FS_Interval
  <2> HIDE DEF newer, last
  <2>6. Cardinality(last) <= Cardinality(newer)
    BY <2>3, <2>4, FS_Subset
  <2> QED
    BY <2>3, <2>5, <2>6
<1>2. ASSUME NEW k \in (m + 1 - e) .. m PROVE k \in Newest(D, e)
  <2>1. k \in Nat /\ k \in D
    BY <1>2
  <2> DEFINE newer == {j \in D : j > k}
  <2>2. newer \in SUBSET ((k + 1) .. m)
    <3>1. ASSUME NEW j \in newer PROVE j \in (k + 1) .. m
      <4>1. j \in Nat /\ j > k /\ j <= m
        BY <3>1
      <4> QED
        BY <2>1, <4>1
    <3> QED
      BY <3>1
  <2>3. IsFiniteSet((k + 1) .. m) /\ Cardinality((k + 1) .. m) = IF k + 1 > m THEN 0 ELSE m - (k + 1) + 1
    BY <2>1, FS_Interval
  <2>4. Cardinality((k + 1) .. m) < e
    BY <1>2, <2>1, <2>3
  <2>5. Cardinality(newer) \in Nat /\ Cardinality(newer) <= Cardinality((k + 1) .. m)
    <3> HIDE DEF newer
    <3> QED
      BY <2>2, <2>3, FS_Subset, FS_CardinalityType
  <2>6. Cardinality(newer) < e
    <3> HIDE DEF newer
    <3>1. Cardinality((k + 1) .. m) \in Nat
      BY <2>3, FS_CardinalityType
    <3> QED
      BY <2>4, <2>5, <3>1
  <2> QED
    BY <2>1, <2>6 DEF Newest
<1> QED
  BY <1>1, <1>2

\* A frame that passes has the newest stored candle and no gap.
LEMMA PassedFrame ==
  ASSUME DataInv, StoreClosed, Passed(Frame)
  PROVE  /\ Frame \subseteq DOMAIN store
         /\ Min(Frame) \in Frame /\ Max(Frame) \in Frame
         /\ \A i \in Frame : Min(Frame) <= i /\ i <= Max(Frame)
         /\ \A i \in DOMAIN store : i <= Max(Frame)
         /\ \A k \in Nat : Min(Frame) <= k /\ k <= Max(Frame) => k \in Frame
<1> DEFINE D == DOMAIN store
<1>1. /\ Frame = Newest(D, Expected) /\ D \subseteq Nat /\ IsFiniteSet(D)
      /\ Expected \in Nat \ {0} /\ Frame # {} /\ Frame \subseteq D
  BY FrameIsNewest DEF Passed, Newest
<1>2. PICK b \in Nat : \A i \in D : i <= b
  <2>1. now \in Nat /\ Making(now) \in Nat
    BY ClosedBefore DEF DataInv, DataTypeOK
  <2> QED
    BY <1>1, <2>1 DEF StoreClosed
<1>3. PICK m \in Nat : m = Max(D) /\ m \in D /\ \A i \in D : i <= m
  <2>1. D \in SUBSET Nat /\ D # {}
    BY <1>1
  <2> QED
    BY <1>2, <2>1, GreatestNat
<1>4. m \in Frame
  <2>1. {j \in D : j > m} = {}
    BY <1>1, <1>3
  <2> QED
    BY <1>1, <1>3, <2>1, FS_EmptySet DEF Newest
<1>5. Frame \in SUBSET Nat /\ \A i \in Frame : i <= b
  BY <1>1, <1>2
<1>6. PICK z \in Nat : z = Max(Frame) /\ z \in Frame /\ \A i \in Frame : i <= z
  BY <1>1, <1>5, GreatestNat
<1>7. PICK a \in Nat : a = Min(Frame) /\ a \in Frame /\ \A i \in Frame : a <= i
  BY <1>1, <1>5, LeastIsMin
<1>8. z = m
  BY <1>1, <1>3, <1>4, <1>6
<1>9. ASSUME NEW k \in Nat, a <= k, k <= z, k \notin Frame PROVE FALSE
  <2> DEFINE gaps == {n \in Nat : a <= n /\ n <= z /\ n \notin Frame}
  <2>1. gaps \in SUBSET Nat /\ gaps # {}
    BY <1>9
  <2>2. PICK g \in gaps : \A n \in gaps : g <= n
    BY <2>1, LeastNat
  <2>3. g - 1 \in Nat /\ a <= g - 1 /\ g - 1 <= z /\ g - 1 \notin gaps
    BY <1>7, <2>2
  <2>4. g - 1 \in Frame /\ g - 1 # z
    BY <2>2, <2>3
  <2>5. PICK j \in Frame : j > g - 1 /\ 2 * (j - (g - 1)) <= 3
    BY <1>6, <2>4 DEF Passed
  <2>6. j = g
    BY <1>5, <2>2, <2>5
  <2> QED
    BY <2>2, <2>5, <2>6
<1> QED
  BY <1>1, <1>3, <1>6, <1>7, <1>8, <1>9

\* The exchange never lacks two candles in a row.
NoTwoMissing == \A missing \in Halts : \A i \in missing : i + 1 \notin missing

\* A save that leaves an old row as it was reaches so far past it that the
\* newest frame begins with it or after it.
LEMMA StoreFinalStep ==
  ASSUME NoTwoMissing, DataInv, StoreClosed, StoreFinal, [Next]_vars
  PROVE  StoreFinal'
<1>1. CASE store' = store
  BY <1>1 DEF StoreFinal
<1>2. CASE Save
  <2> DEFINE rows == loader.rows
  <2>1. /\ DOMAIN store' = DOMAIN rows \cup DOMAIN store
        /\ \A i \in DOMAIN rows : store'[i] = rows[i]
        /\ \A i \in DOMAIN store : i \notin DOMAIN rows => store'[i] = store[i]
    BY <1>2, SaveStep
  <2>2. /\ loader.pc = "saving" /\ loader \in Loaders /\ now \in Nat /\ now >= Lookback
        /\ halted \in Halts /\ store \in RowSets /\ rows \in RowSets
    BY <1>2 DEF Save, DataInv, DataTypeOK, Loaders
  <2>3. DOMAIN rows \subseteq Nat /\ DOMAIN store \subseteq Nat
    BY <2>2, RowsTyped
  <2>4. PICK f \in Nat, r \in Nat, p \in Nat :
          f = loader.from /\ r = Making(loader.asked) /\ p = Making(loader.at) /\ r <= p
    <3>1. loader.asked \in Nat /\ loader.at \in Nat /\ loader.from \in Nat
      BY <2>2 DEF Loaders
    <3>2. loader.asked <= loader.at
      BY <2>2 DEF DataInv, Answered
    <3> QED
      BY <3>1, <3>2, ClosedBefore, MakingMono
  <2>5. PICK e \in Nat : e = Expected /\ f + e <= r
    BY <2>2, <2>4, StartsEarly DEF DataInv, Loading
  <2>6. /\ \A i \in DOMAIN store : i < r
        /\ \A i \in DOMAIN rows : ~rows[i] => /\ \A j \in DOMAIN rows : j <= i
                                              /\ \A j \in DOMAIN store : j < i
        /\ \A i \in Nat : f <= i /\ i < p /\ i \notin halted => i \in DOMAIN rows
    BY <2>2, <2>4 DEF DataInv, Loading, Complete
  <2>7. SUFFICES ASSUME e > 1, NEW i \in DOMAIN store', ~store'[i]
                 PROVE  \/ \A j \in DOMAIN store' : j <= i
                        \/ \E j \in DOMAIN store' : j + 1 >= i + e
    BY <2>5 DEF StoreFinal
  <2>8. CASE i \in DOMAIN rows
    <3>1. /\ \A j \in DOMAIN rows : j <= i
          /\ \A j \in DOMAIN store : j < i
      BY <2>1, <2>6, <2>7, <2>8
    <3>2. \A j \in DOMAIN store : j <= i
      BY <2>3, <2>8, <3>1
    <3> QED
      BY <2>1, <3>1, <3>2
  <2>9. CASE i \in DOMAIN store /\ i \notin DOMAIN rows
    <3>1. i \in Nat /\ i < f
      BY <2>3, <2>4, <2>6, <2>9 DEF StoreClosed
    <3>2. PICK n \in Nat : n = p - 2 /\ f <= n
      BY <2>4, <2>5, <2>7
    <3>3. n \notin halted \/ n + 1 \notin halted
      BY <2>2 DEF NoTwoMissing
    <3>4. CASE n \notin halted
      <4>1. n \in DOMAIN rows
        BY <2>6, <3>2, <3>4
      <4>2. n + 1 >= i + e
        BY <2>4, <2>5, <3>1, <3>2
      <4> QED
        BY <2>1, <4>1, <4>2
    <3>5. CASE n + 1 \notin halted
      <4>1. n + 1 \in DOMAIN rows
        BY <2>6, <3>2, <3>5
      <4>2. (n + 1) + 1 >= i + e
        BY <2>4, <2>5, <3>1, <3>2
      <4> QED
        BY <2>1, <4>1, <4>2
    <3> QED
      BY <3>3, <3>4, <3>5
  <2> QED
    BY <2>1, <2>7, <2>8, <2>9
<1> QED
  BY <1>1, <1>2, DataStep

\* No frame that passes the quality checks has a row inside it that was saved
\* before its candle had its last values, provided that the exchange never lacks
\* two candles in a row.
THEOREM AcceptedFramesFinal ==
  ASSUME NoTwoMissing
  PROVE  Spec => []AcceptedFrameFinal
<1>1. Init => DataInv /\ StoreClosed /\ StoreFinal
  BY DataInit
<1>2. DataInv /\ StoreClosed /\ StoreFinal /\ [Next]_vars
        => (DataInv /\ StoreClosed /\ StoreFinal)'
  BY DataStep, StoreFinalStep
<1>3. DataInv /\ StoreClosed /\ StoreFinal => AcceptedFrameFinal
  <2> SUFFICES ASSUME DataInv, StoreClosed, StoreFinal, Passed(Frame), NEW i \in Frame,
                      ~store[i], i # Min(Frame), i # Max(Frame)
               PROVE  FALSE
    BY DEF AcceptedFrameFinal
  <2>1. /\ Frame \subseteq DOMAIN store /\ Min(Frame) \in Frame /\ Max(Frame) \in Frame
        /\ \A k \in Frame : Min(Frame) <= k /\ k <= Max(Frame)
        /\ \A k \in DOMAIN store : k <= Max(Frame)
        /\ \A k \in Nat : Min(Frame) <= k /\ k <= Max(Frame) => k \in Frame
    BY PassedFrame
  <2>2. PICK D \in SUBSET Nat, e \in Nat \ {0} :
          D = DOMAIN store /\ IsFiniteSet(D) /\ e = Expected /\ Frame = Newest(D, e)
    BY FrameIsNewest
  <2>3. PICK a \in Nat, z \in Nat : a = Min(Frame) /\ z = Max(Frame)
    BY <2>1, <2>2
  <2>4. i \in Nat /\ a < i /\ i < z
    BY <2>1, <2>2, <2>3
  \* The frame is all of the candles from its first to its last.
  <2>5. z < a + e
    <3>1. a \in Newest(D, e) /\ \A k \in Nat : a < k /\ k <= z => k \in D
      BY <2>1, <2>2, <2>3
    <3> QED
      BY <2>2, <3>1, NewerFew
  <2>6. e > 1
    BY <2>3, <2>4, <2>5
  <2>7. PICK j \in D : j + 1 >= i + e
    <3>1. ~ \A j \in D : j <= i
      BY <2>1, <2>2, <2>3, <2>4
    <3> QED
      BY <2>1, <2>2, <2>6, <3>1 DEF StoreFinal
  <2>8. j <= z /\ j \in Nat
    BY <2>1, <2>2, <2>3, <2>7
  <2> QED
    BY <2>2, <2>3, <2>4, <2>5, <2>7, <2>8
<1> QED
  BY <1>1, <1>2, <1>3, PTL DEF Spec

\* A download saved while its last row is fresh, of candles the exchange has, is
\* enough for research over the same days, whatever was stored before.
THEOREM BackfillIsEnough == Spec => BackfillSuffices
<1>0. (DataInv /\ StoreClosed)' =>
        (/\ Frame = Newest(DOMAIN store, Expected)
         /\ DOMAIN store \subseteq Nat /\ IsFiniteSet(DOMAIN store))'
  <2>1. DataInv /\ StoreClosed =>
          (/\ Frame = Newest(DOMAIN store, Expected)
           /\ DOMAIN store \subseteq Nat /\ IsFiniteSet(DOMAIN store))
    BY FrameIsNewest
  <2> QED
    BY <2>1, PTL
<1>1. DataInv /\ StoreClosed /\ [Next]_vars =>
        ((/\ loader.pc = "saving" /\ loader'.pc = "idle" /\ store' # store
          /\ \A i \in loader.from .. now \div Interval : i \notin halted
          /\ now - (Max(DOMAIN loader.rows) + 1) * Interval <= StaleAfter) => Passed(Frame)')
  <2> DEFINE rows == loader.rows
  <2> SUFFICES ASSUME DataInv, StoreClosed, [Next]_vars, loader.pc = "saving", store' # store,
                      \A i \in loader.from .. now \div Interval : i \notin halted,
                      now - (Max(DOMAIN rows) + 1) * Interval <= StaleAfter
               PROVE  Passed(Frame)'
    OBVIOUS
  <2>1. Save /\ DataInv' /\ StoreClosed' /\ now' = now
    BY DataStep DEF Save
  <2>2. /\ DOMAIN store' = DOMAIN rows \cup DOMAIN store
    BY <2>1, SaveStep
  <2>3. /\ loader \in Loaders /\ now \in Nat /\ now >= Lookback
        /\ store \in RowSets /\ rows \in RowSets
    BY DEF DataInv, DataTypeOK, Loaders
  <2>4. DOMAIN rows \subseteq Nat /\ DOMAIN store \subseteq Nat
    BY <2>3, RowsTyped
  <2>5. PICK f \in Nat, r \in Nat, p \in Nat, q \in Nat :
          /\ f = loader.from /\ r = Making(loader.asked) /\ p = Making(loader.at)
          /\ q = Making(now) /\ r <= p /\ p <= q
    <3>1. loader.asked \in Nat /\ loader.at \in Nat /\ loader.from \in Nat
      BY <2>3 DEF Loaders
    <3>2. loader.asked <= loader.at /\ loader.at <= now
      BY DEF DataInv, Answered
    <3> QED
      BY <2>3, <3>1, <3>2, ClosedBefore, MakingMono
  <2>6. PICK e \in Nat \ {0} : e = Expected /\ f + e <= r
    BY <2>3, <2>5, StartsEarly DEF DataInv, Loading
  <2>7. /\ \A i \in DOMAIN store : i < r
        /\ \A i \in DOMAIN rows : f <= i /\ i <= p
        /\ \A i \in Nat : f <= i /\ i < p => i \in DOMAIN rows
    <3>1. \A i \in Nat : f <= i /\ i < p => i \notin halted
      BY <2>5 DEF Making
    <3> QED
      BY <2>5, <3>1 DEF DataInv, Loading, Complete
  <2>8. PICK m \in Nat : m = Max(DOMAIN rows) /\ m \in DOMAIN rows /\ \A i \in DOMAIN rows : i <= m
    <3>1. p - 1 \in Nat /\ p - 1 \in DOMAIN rows
      <4>1. p - 1 \in Nat /\ f <= p - 1 /\ p - 1 < p
        BY <2>5, <2>6
      <4> QED
        BY <2>7, <4>1
    <3>2. DOMAIN rows \in SUBSET Nat /\ DOMAIN rows # {}
      BY <2>4, <3>1
    <3> QED
      BY <2>7, <3>2, GreatestNat
  <2>9. p <= m + 1 /\ m <= p
    <3>1. p - 1 \in Nat /\ f <= p - 1 /\ p - 1 < p
      BY <2>5, <2>6
    <3> QED
      BY <2>7, <2>8, <3>1
  <2>10. PICK D \in SUBSET Nat : /\ D = DOMAIN store' /\ IsFiniteSet(D)
                                 /\ Frame' = Newest(D, e)
    <3>1. /\ Frame' = Newest(DOMAIN store', Expected)
          /\ DOMAIN store' \subseteq Nat /\ IsFiniteSet(DOMAIN store')
      BY <1>0, <2>1 DEF Newest
    <3> QED
      BY <2>6, <3>1
  <2>11. /\ f + e <= m + 1
         /\ \A k \in Nat : f <= k /\ k <= m => k \in D
         /\ \A k \in D : k <= m
    <3>1. f + e <= m + 1
      BY <2>5, <2>6, <2>9
    <3>2. ASSUME NEW k \in Nat, f <= k, k <= m PROVE k \in D
      <4>1. k < p \/ k = m
        BY <2>9, <3>2
      <4> QED
        BY <2>2, <2>7, <2>8, <2>10, <3>2, <4>1
    <3>3. ASSUME NEW k \in DOMAIN store PROVE k <= m
      <4>1. k < r /\ k \in Nat
        BY <2>4, <2>7
      <4> QED
        BY <2>5, <2>9, <4>1
    <3> QED
      BY <2>2, <2>8, <2>10, <3>1, <3>2, <3>3
  <2>12. Frame' = (m + 1 - e) .. m
    BY <2>10, <2>11, NewestAre
  <2>13. PICK F \in SUBSET Nat : F = Frame' /\ F = (m + 1 - e) .. m
    <3>1. m + 1 - e \in Nat
      BY <2>11
    <3> QED
      BY <2>12, <3>1
  <2>14. m \in F /\ \A i \in F : i <= m
    BY <2>13
  <2>15. Max(F) = m
    <3>1. Max(F) \in F /\ \A x \in F : x <= Max(F)
      BY <2>14, GreatestNat
    <3> QED
      BY <2>13, <2>14, <3>1
  <2>16. Cardinality(F) = e
    <3>1. m + 1 - e \in Int /\ ~(m + 1 - e > m) /\ m - (m + 1 - e) + 1 = e
      OBVIOUS
    <3> QED
      BY <2>13, <3>1, FS_Interval
  <2>17. MinCandles \in Int /\ e >= MinCandles
    <3>1. (9 * e) \div 10 \in Int /\ MinFloor \in Int
      BY DataAssumption
    <3> QED
      BY <2>6, <3>1 DEF MinCandles, Greater, Lesser
  <2>18. \A i \in F : i # m => \E j \in F : j > i /\ 2 * (j - i) <= 3
    <3> SUFFICES ASSUME NEW i \in F, i # m PROVE \E j \in F : j > i /\ 2 * (j - i) <= 3
      OBVIOUS
    <3>1. i + 1 \in F /\ i + 1 > i /\ 2 * ((i + 1) - i) <= 3
      BY <2>13
    <3> QED
      BY <3>1
  <2>19. now - (Max(F) + 1) * Interval <= StaleAfter
    BY <2>8, <2>15
  <2> QED
    BY <2>1, <2>13, <2>14, <2>15, <2>16, <2>17, <2>18, <2>19 DEF Passed, MinCandles
<1> QED
  BY <1>1, DataInvariant, PTL DEF Spec, BackfillSuffices

===============================================================================
