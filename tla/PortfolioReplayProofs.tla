---------------------- MODULE PortfolioReplayProofs ----------------------
(***************************************************************************)
(* SnapshotsAreReplay and TotalIsSum for any accounts, activities, days,   *)
(* callers and bounds, in the plain situations (Cases = {}).  First what   *)
(* keyframes and calculations show, then what an edit leaves as it was,    *)
(* then the inductive invariant SnapInv and one lemma for each kind of     *)
(* step; at last TOTAL, with TotalInv and the same steps again.            *)
(***************************************************************************)
EXTENDS PortfolioRecalcProofs, FiniteSetTheorems

-----------------------------------------------------------------------------
(***************************************************************************)
(* What the keyframes show.                                                *)
(***************************************************************************)
Amounts == [Activity -> Int]
Keyframes == [Day -> Amounts \union {NoFrame}]
Book == [Activity -> Record \union {NoActivity}]

\* The trades account a holds at the end of day d.
Held(acts, a, d) == {i \in Of(acts, a) : acts[i].kind = "trade" /\ acts[i].day <= d}

\* The latest keyframe is the greatest of the key days.
LEMMA LatestIsKey ==
    ASSUME NEW f, NEW d
    PROVE  /\ KeyDays(f, d) = {} => LatestDay(f, d) = 0
           /\ KeyDays(f, d) # {} => /\ LatestDay(f, d) \in KeyDays(f, d)
                                    /\ \A k \in KeyDays(f, d) : k <= LatestDay(f, d)
<1> DEFINE K == KeyDays(f, d)
<1>1. CASE K = {}
  BY <1>1 DEF LatestDay
<1>2. CASE K # {}
  <2>1. Today \in Nat /\ K \subseteq 1..Today
    BY RecalcAssumption DEF KeyDays, Day
  <2> DEFINE Back == {Today - k : k \in K}
  <2>2. Back \in SUBSET Nat /\ Back # {}
    BY <1>2, <2>1
  <2>3. PICK m \in Back : \A b \in Back : m <= b
    BY <2>2, LeastExists
  <2>4. PICK n \in K : m = Today - n
    BY <2>3
  <2>5. \A k \in K : k <= n
    <3> SUFFICES ASSUME NEW k \in K PROVE k <= n
      OBVIOUS
    <3>1. Today - n <= Today - k
      BY <2>3, <2>4
    <3> QED
      BY <2>1, <2>4, <3>1
  <2>6. LatestDay(f, d) = CHOOSE k \in K : \A j \in K : j <= k
    BY <1>2 DEF LatestDay
  <2> HIDE DEF K
  <2> QED
    BY <1>2, <2>5, <2>6 DEF K
<1> QED
  BY <1>1, <1>2

\* The only key day no other exceeds is the latest.
LEMMA LatestUnique ==
    ASSUME NEW f, NEW d, NEW m \in KeyDays(f, d), \A k \in KeyDays(f, d) : k <= m
    PROVE  LatestDay(f, d) = m
<1>1. LatestDay(f, d) \in KeyDays(f, d) /\ \A k \in KeyDays(f, d) : k <= LatestDay(f, d)
  BY LatestIsKey
<1>2. LatestDay(f, d) \in Int /\ m \in Int
  BY <1>1, RecalcAssumption DEF KeyDays, Day
<1> QED
  BY <1>1, <1>2

\* What is shown of a day depends on the keyframes up to that day only.
LEMMA ShownBelow ==
    ASSUME NEW f, NEW g, NEW d, \A k \in Day : k <= d => g[k] = f[k]
    PROVE  KeyDays(g, d) = KeyDays(f, d) /\ \A none : Shown(g, d, none) = Shown(f, d, none)
<1>1. KeyDays(g, d) = KeyDays(f, d)
  BY DEF KeyDays
<1>2. LatestDay(g, d) = LatestDay(f, d)
  BY <1>1 DEF LatestDay
<1>3. LatestDay(f, d) # 0 => LatestDay(f, d) \in Day /\ LatestDay(f, d) <= d
  BY LatestIsKey DEF KeyDays
<1> QED
  BY <1>1, <1>2, <1>3 DEF Shown

\* A day shows what the last key day before it shows.
LEMMA ShownAt ==
    ASSUME NEW f, NEW d, NEW none
    PROVE  /\ KeyDays(f, d) = {} => Shown(f, d, none) = none
           /\ KeyDays(f, d) # {} => /\ Shown(f, d, none) = f[LatestDay(f, d)]
                                    /\ LatestDay(f, d) \in Day /\ LatestDay(f, d) # 0
                                    /\ f[LatestDay(f, d)] # NoFrame
<1>1. CASE KeyDays(f, d) = {}
  BY <1>1, LatestIsKey DEF Shown
<1>2. CASE KeyDays(f, d) # {}
  <2>1. LatestDay(f, d) \in Day /\ f[LatestDay(f, d)] # NoFrame
    BY <1>2, LatestIsKey DEF KeyDays
  <2>2. LatestDay(f, d) # 0
    BY <2>1, RecalcAssumption DEF Day
  <2> QED
    BY <1>2, <2>1, <2>2 DEF Shown
<1> QED
  BY <1>1, <1>2

\* From a common keyframe on, the keyframes before it do not matter.
LEMMA ShownAbove ==
    ASSUME NEW f, NEW g, NEW s \in Day, NEW d \in Day, s <= d,
           f[s] # NoFrame, \A k \in Day : k >= s => g[k] = f[k]
    PROVE  /\ KeyDays(g, d) # {} /\ KeyDays(f, d) # {} /\ LatestDay(g, d) = LatestDay(f, d)
           /\ \A none : Shown(g, d, none) = Shown(f, d, none)
<1>0. \A k \in Day : k \in Int
  BY RecalcAssumption DEF Day
<1>1. s \in Int /\ g[s] # NoFrame
  BY <1>0
<1>2. s \in KeyDays(f, d) /\ s \in KeyDays(g, d)
  BY <1>1 DEF KeyDays
<1> DEFINE m == LatestDay(f, d)
<1>3. m \in KeyDays(f, d) /\ \A k \in KeyDays(f, d) : k <= m
  BY <1>2, LatestIsKey
<1>4. m \in Day /\ m <= d /\ f[m] # NoFrame /\ s <= m
  BY <1>2, <1>3 DEF KeyDays
<1> HIDE DEF m
<1>5. g[m] = f[m] /\ m \in KeyDays(g, d)
  BY <1>0, <1>1, <1>4 DEF KeyDays
<1>6. \A k \in KeyDays(g, d) : k <= m
  <2> SUFFICES ASSUME NEW k \in KeyDays(g, d) PROVE k <= m
    OBVIOUS
  <2>1. k \in Day /\ k <= d /\ g[k] # NoFrame
    BY DEF KeyDays
  <2>2. CASE k >= s
    BY <1>3, <2>1, <2>2 DEF KeyDays
  <2>3. CASE ~(k >= s)
    <3>1. k \in Int /\ m \in Int /\ s \in Int
      BY <1>0, <1>4, <2>1
    <3>2. k < s /\ s <= m
      BY <1>4, <2>3, <3>1
    <3> QED
      BY <3>1, <3>2
  <2> QED
    BY <2>2, <2>3
<1>7. LatestDay(g, d) = m
  BY <1>5, <1>6, LatestUnique
<1> QED
  BY <1>2, <1>5, <1>7 DEF Shown, m

\* Rewriting the days from s on leaves the days before s alone and shows the
\* new keyframes from s on.
LEMMA RewriteShows ==
    ASSUME NEW f, NEW out, NEW s \in Day, NEW d \in Day, out[s] # NoFrame,
           \A k \in Day : k < s => out[k] = NoFrame
    PROVE  LET g == Save(DeleteFrom(f, s), out)
           IN /\ d < s => /\ KeyDays(g, d) = KeyDays(f, d)
                          /\ \A none : Shown(g, d, none) = Shown(f, d, none)
              /\ d >= s => /\ KeyDays(g, d) # {} /\ LatestDay(g, d) = LatestDay(out, d)
                           /\ \A none : Shown(g, d, none) = Shown(out, d, none)
<1> DEFINE g == Save(DeleteFrom(f, s), out)
<1>0. s \in Int /\ \A k \in Day : k \in Int
  BY RecalcAssumption DEF Day
<1>1. \A k \in Day : g[k] = IF k < s THEN f[k] ELSE out[k]
  BY <1>0 DEF Save, DeleteFrom
<1> HIDE DEF g
<1>2. CASE d < s
  <2>1. \A k \in Day : k <= d => g[k] = f[k]
    BY <1>0, <1>1, <1>2
  <2>2. KeyDays(g, d) = KeyDays(f, d) /\ \A none : Shown(g, d, none) = Shown(f, d, none)
    BY <2>1, ShownBelow
  <2> QED
    BY <1>0, <1>2, <2>2 DEF g
<1>3. CASE d >= s
  <2>1. \A k \in Day : k >= s => g[k] = out[k]
    BY <1>0, <1>1
  <2>2. s <= d
    BY <1>0, <1>3
  <2>3. /\ KeyDays(g, d) # {} /\ LatestDay(g, d) = LatestDay(out, d)
        /\ \A none : Shown(g, d, none) = Shown(out, d, none)
    BY <2>1, <2>2, ShownAbove
  <2> QED
    BY <1>0, <1>3, <2>3 DEF g
<1> QED
  BY <1>0, <1>2, <1>3

-----------------------------------------------------------------------------
(***************************************************************************)
(* What a prune leaves.  It may hide what a day showed, but not on a day   *)
(* that is retained, nor on one whose own keyframe it keeps.               *)
(***************************************************************************)
KeptIn(g, d) == Retained(d) \/ g[d] # NoFrame

\* Keyframes g show the same as h on the days that are kept in g.
Thins(g, h) ==
    \A d \in Day : KeptIn(g, d) =>
        /\ KeptIn(h, d)
        /\ \A none : Shown(g, d, none) = Shown(h, d, none)
        /\ KeyDays(g, d) = {} <=> KeyDays(h, d) = {}
        /\ LatestDay(g, d) = LatestDay(h, d)

LEMMA ThinsSame == ASSUME NEW g, NEW h, g = h PROVE Thins(g, h)
BY DEF Thins

\* A keyframe that a prune removes is followed by another one of its month.
LEMMA PruneShows ==
    ASSUME NEW f
    PROVE  Thins(Prune(f), f) /\ (f \in Keyframes => Prune(f) \in Keyframes)
<1> DEFINE g == Prune(f)
<1>0. \A k \in Day : k \in Int
  BY RecalcAssumption DEF Day
<1>1. \A k \in Day : g[k] = IF k < Recent /\ \E j \in Day : j > k /\ Month[j] = Month[k]
                                                          /\ f[j] # NoFrame
                            THEN NoFrame ELSE f[k]
  BY DEF Prune
<1>2. f \in Keyframes => g \in Keyframes
  BY DEF Prune, Keyframes
<1> HIDE DEF g
<1>3. ASSUME NEW d \in Day, KeptIn(g, d)
      PROVE  /\ KeptIn(f, d)
             /\ \A none : Shown(g, d, none) = Shown(f, d, none)
             /\ KeyDays(g, d) = {} <=> KeyDays(f, d) = {}
             /\ LatestDay(g, d) = LatestDay(f, d)
  <2>1. KeptIn(f, d)
    BY <1>1, <1>3 DEF KeptIn
  <2>2. KeyDays(g, d) \subseteq KeyDays(f, d)
    BY <1>1 DEF KeyDays
  <2>3. CASE KeyDays(f, d) = {}
    <3>1. KeyDays(g, d) = {}
      BY <2>2, <2>3
    <3> QED
      BY <2>1, <2>3, <3>1, ShownAt, LatestIsKey
  <2>4. CASE KeyDays(f, d) # {}
    <3> DEFINE m == LatestDay(f, d)
    <3>1. m \in KeyDays(f, d) /\ \A k \in KeyDays(f, d) : k <= m
      BY <2>4, LatestIsKey
    <3> HIDE DEF m
    <3>2. m \in Day /\ m <= d /\ f[m] # NoFrame
      BY <3>1 DEF KeyDays
    <3>3. g[m] = f[m]
      <4>1. CASE g[d] # NoFrame
        <5>1. f[d] # NoFrame /\ d <= d
          BY <1>0, <1>1, <4>1
        <5>2. d <= m
          BY <3>1, <5>1 DEF KeyDays
        <5>3. d = m
          BY <1>0, <3>2, <5>2
        <5> QED
          BY <1>1, <4>1, <5>3
      <4>2. CASE Retained(d)
        <5> SUFFICES ASSUME NEW j \in Day, j > m, Month[j] = Month[m], f[j] # NoFrame
                     PROVE  ~(m < Recent)
          BY <1>1, <3>2
        <5>1. ~(j <= d)
          <6> SUFFICES ASSUME j <= d PROVE FALSE
            OBVIOUS
          <6>1. j <= m
            BY <3>1 DEF KeyDays
          <6> QED
            BY <1>0, <3>2, <6>1
        <5>2. d < j /\ Month[m] = Month[j]
          BY <1>0, <5>1
        <5>3. m >= Recent
          BY <3>2, <4>2, <5>2 DEF Retained
        <5> QED
          BY <1>0, <3>2, <5>3, RecalcAssumption
      <4> QED
        BY <1>3, <4>1, <4>2 DEF KeptIn
    <3>4. m \in KeyDays(g, d) /\ \A k \in KeyDays(g, d) : k <= m
      BY <2>2, <3>1, <3>2, <3>3 DEF KeyDays
    <3>5. LatestDay(g, d) = m
      BY <3>4, LatestUnique
    <3> QED
      BY <2>1, <2>4, <3>3, <3>4, <3>5 DEF Shown, m
  <2> QED
    BY <2>3, <2>4
<1> QED
  BY <1>2, <1>3 DEF Thins, g

\* A range that is going to be rewritten hides what was pruned in it.
LEMMA RewriteThins ==
    ASSUME NEW f, NEW g, Thins(g, f), NEW out, NEW s \in Day, out[s] # NoFrame,
           \A k \in Day : k < s => out[k] = NoFrame
    PROVE  Thins(Save(DeleteFrom(g, s), out), Save(DeleteFrom(f, s), out))
<1> DEFINE wf == Save(DeleteFrom(f, s), out)
           wg == Save(DeleteFrom(g, s), out)
<1>0. s \in Int /\ \A k \in Day : k \in Int
  BY RecalcAssumption DEF Day
<1>1. \A k \in Day : /\ wf[k] = IF k < s THEN f[k] ELSE out[k]
                     /\ wg[k] = IF k < s THEN g[k] ELSE out[k]
  BY <1>0 DEF Save, DeleteFrom
<1>2. ASSUME NEW d \in Day
      PROVE  /\ d < s => /\ KeyDays(wf, d) = KeyDays(f, d) /\ KeyDays(wg, d) = KeyDays(g, d)
                         /\ \A none : /\ Shown(wf, d, none) = Shown(f, d, none)
                                       /\ Shown(wg, d, none) = Shown(g, d, none)
             /\ d >= s => /\ KeyDays(wf, d) # {} /\ KeyDays(wg, d) # {}
                          /\ LatestDay(wf, d) = LatestDay(wg, d)
                          /\ \A none : Shown(wf, d, none) = Shown(wg, d, none)
  BY RewriteShows
<1> HIDE DEF wf, wg
<1>3. ASSUME NEW d \in Day, KeptIn(wg, d)
      PROVE  /\ KeptIn(wf, d)
             /\ \A none : Shown(wg, d, none) = Shown(wf, d, none)
             /\ KeyDays(wg, d) = {} <=> KeyDays(wf, d) = {}
             /\ LatestDay(wg, d) = LatestDay(wf, d)
  <2>1. CASE d < s
    <3>1. KeptIn(g, d)
      BY <1>1, <1>3, <2>1 DEF KeptIn
    <3>2. /\ KeptIn(f, d) /\ \A none : Shown(g, d, none) = Shown(f, d, none)
          /\ KeyDays(g, d) = {} <=> KeyDays(f, d) = {}
          /\ LatestDay(g, d) = LatestDay(f, d)
      BY <3>1 DEF Thins
    <3>3. KeptIn(wf, d)
      BY <1>1, <2>1, <3>2 DEF KeptIn
    <3>4. /\ KeyDays(wf, d) = KeyDays(f, d) /\ KeyDays(wg, d) = KeyDays(g, d)
          /\ \A none : /\ Shown(wf, d, none) = Shown(f, d, none)
                        /\ Shown(wg, d, none) = Shown(g, d, none)
      BY <1>2, <2>1
    <3>5. LatestDay(wg, d) = LatestDay(g, d)
      BY <3>4 DEF LatestDay
    <3>6. LatestDay(wf, d) = LatestDay(f, d)
      BY <3>4 DEF LatestDay
    <3> QED
      BY <3>2, <3>3, <3>4, <3>5, <3>6
  <2>2. CASE d >= s
    <3>1. wf[d] = wg[d]
      BY <1>0, <1>1, <2>2
    <3> QED
      BY <1>2, <1>3, <2>2, <3>1 DEF KeptIn
  <2> QED
    BY <1>0, <2>1, <2>2
<1> QED
  BY <1>3 DEF Thins, wf, wg

-----------------------------------------------------------------------------
(***************************************************************************)
(* What the activities add up to.                                          *)
(***************************************************************************)
\* The days of the activities are days.
LEMMA BookDays ==
    ASSUME NEW acts \in Book, NEW a
    PROVE  /\ \A i \in Of(acts, a) : /\ i \in Activity /\ acts[i] \in Record
                                     /\ acts[i].day \in Day /\ acts[i].account = a
           /\ DaysOf(acts, a) \subseteq Day
           /\ SplitDays(acts, a) \subseteq DaysOf(acts, a)
<1>1. \A i \in Of(acts, a) : /\ i \in Activity /\ acts[i] \in Record
                             /\ acts[i].day \in Day /\ acts[i].account = a
  BY DEF Book, Of, Record
<1> QED
  BY <1>1 DEF DaysOf, SplitDays

\* Quantities are integers.
LEMMA QuantityTyped ==
    ASSUME NEW acts \in Book, NEW a, NEW i
    PROVE  Quantity(acts, a, i) \in Int
<1> DEFINE S == {s \in SplitDays(acts, a) : s > acts[i].day}
<1>1. S \subseteq 1..Today
  BY BookDays DEF Day
<1>2. IsFiniteSet(1..Today)
  <2>1. 1 \in Int /\ Today \in Int
    BY RecalcAssumption
  <2> QED
    BY <2>1, FS_Interval
<1>3. IsFiniteSet(S)
  BY <1>1, <1>2, FS_Subset
<1> HIDE DEF S
<1>4. Cardinality(S) \in Nat
  BY <1>3, FS_CardinalityType
<1>5. \A n \in Nat : 2 ^ n \in Int
  BY SMT
<1> QED
  BY <1>4, <1>5 DEF Quantity, S

\* Traded and Plus give amounts.
LEMMA TradedTyped ==
    ASSUME NEW acts \in Book, NEW a, NEW from, NEW to
    PROVE  /\ Traded(acts, a, from, to) \in Amounts
           /\ Empty \in Amounts
           /\ \A h, g \in Amounts : Plus(h, g) \in Amounts
<1>1. \A i \in Activity : Quantity(acts, a, i) \in Int
  BY QuantityTyped
<1>2. Traded(acts, a, from, to) \in Amounts
  BY <1>1 DEF Traded, Amounts
<1> QED
  BY <1>2 DEF Plus, Empty, Amounts

\* An account without trades up to a day shows nothing.
LEMMA NothingHeld ==
    ASSUME NEW acts \in Book, NEW a, NEW d \in Day, Held(acts, a, d) = {}, NEW s \in Int
    PROVE  Traded(acts, a, s, d) = Empty /\ Replay(acts, a, d) = Empty
<1>1. Today \in Int /\ d \in Int
  BY RecalcAssumption DEF Day
<1>2. ASSUME NEW i \in Activity, i \in Of(acts, a), acts[i].kind = "trade", NEW m \in Int
      PROVE  acts[i].day \notin m..d
  <2>1. acts[i].day \in Int
    BY <1>1, <1>2, BookDays DEF Day
  <2>2. ~(acts[i].day <= d)
    BY <1>2 DEF Held
  <2> QED
    BY <1>1, <2>1, <2>2
<1>3. \A m \in Int : Traded(acts, a, m, d) = Empty
  BY <1>2 DEF Traded, Empty
<1> QED
  BY <1>3 DEF Replay

\* The history up to a day splits at any earlier day.
LEMMA ReplaySplits ==
    ASSUME NEW acts \in Book, NEW a, NEW d \in Day, NEW s \in Day, s <= d
    PROVE  /\ s # 1 => Plus(Replay(acts, a, s - 1), Traded(acts, a, s, d)) = Replay(acts, a, d)
           /\ s = 1 => Plus(Empty, Traded(acts, a, s, d)) = Replay(acts, a, d)
<1>0. Today \in Nat /\ s \in Int /\ d \in Int /\ 1 <= s
  BY RecalcAssumption DEF Day
<1>1. ASSUME NEW i \in Activity
      PROVE  /\ Replay(acts, a, s - 1)[i] + Traded(acts, a, s, d)[i] = Replay(acts, a, d)[i]
             /\ s = 1 => Traded(acts, a, s, d)[i] = Replay(acts, a, d)[i]
             /\ Traded(acts, a, s, d)[i] \in Int
  <2>0. Quantity(acts, a, i) \in Int
    BY QuantityTyped
  <2> DEFINE q == Quantity(acts, a, i)
  <2>1. Traded(acts, a, s, d)[i] = IF /\ i \in Of(acts, a) /\ acts[i].kind = "trade"
                                      /\ acts[i].day \in s..d
                                   THEN q ELSE 0
    BY DEF Traded
  <2>2. Replay(acts, a, s - 1)[i] = IF /\ i \in Of(acts, a) /\ acts[i].kind = "trade"
                                       /\ acts[i].day \in 1..(s - 1)
                                    THEN q ELSE 0
    BY DEF Traded, Replay
  <2>3. Replay(acts, a, d)[i] = IF /\ i \in Of(acts, a) /\ acts[i].kind = "trade"
                                   /\ acts[i].day \in 1..d
                                THEN q ELSE 0
    BY DEF Traded, Replay
  <2>4. i \in Of(acts, a) => acts[i].day \in Int /\ 1 <= acts[i].day
    BY <1>0, BookDays DEF Day
  <2>5. q \in Int
    BY <2>0
  <2> HIDE DEF q
  <2> QED
    BY <1>0, <2>1, <2>2, <2>3, <2>4, <2>5
<1>2. /\ Replay(acts, a, d) = [i \in Activity |-> Replay(acts, a, d)[i]]
      /\ DOMAIN Replay(acts, a, d) = Activity
  BY DEF Replay, Traded
<1>3. Plus(Replay(acts, a, s - 1), Traded(acts, a, s, d)) = Replay(acts, a, d)
  BY <1>1, <1>2 DEF Plus
<1>4. s = 1 => Plus(Empty, Traded(acts, a, s, d)) = Replay(acts, a, d)
  BY <1>1, <1>2 DEF Plus, Empty
<1> QED
  BY <1>3, <1>4

\* Nothing added changes nothing.
LEMMA PlusEmpty ==
    ASSUME NEW h \in Amounts
    PROVE  Plus(h, Empty) = h /\ Plus(Empty, h) = h
BY DEF Plus, Empty, Amounts

\* The keyframes of a calculation are amounts, and begin on its first day.
LEMMA CalculateTyped ==
    ASSUME NEW acts \in Book, NEW a, NEW s \in Day, NEW seed \in Amounts
    PROVE  /\ Calculate(acts, a, s, seed) \in Keyframes
           /\ Calculate(acts, a, s, seed)[s] # NoFrame
           /\ \A k \in Day : k < s => Calculate(acts, a, s, seed)[k] = NoFrame
<1>0. \A k \in Day : k \in Int
  BY RecalcAssumption DEF Day
<1>1. \A k \in Day : Plus(seed, Traded(acts, a, s, k)) \in Amounts
  BY TradedTyped
<1>2. \A h \in Amounts : h # NoFrame
  BY RecalcAssumption DEF Amounts
<1> QED
  BY <1>0, <1>1, <1>2 DEF Calculate, Keyframes

\* From its first day on a calculation shows the seed and what was traded since:
\* a day without a keyframe is a day without activities.
LEMMA CalculateShows ==
    ASSUME NEW acts \in Book, NEW a, NEW s \in Day, NEW seed \in Amounts,
           NEW d \in Day, s <= d, NEW none
    PROVE  Shown(Calculate(acts, a, s, seed), d, none) = Plus(seed, Traded(acts, a, s, d))
<1> DEFINE f == Calculate(acts, a, s, seed)
           m == LatestDay(f, d)
<1>0. \A k \in Day : k \in Int
  BY RecalcAssumption DEF Day
<1>1. \A k \in Day : f[k] = IF k = s \/ (k > s /\ k \in DaysOf(acts, a))
                            THEN Plus(seed, Traded(acts, a, s, k)) ELSE NoFrame
  BY DEF Calculate
<1>2. \A k \in Day : Plus(seed, Traded(acts, a, s, k)) # NoFrame
  <2>1. \A k \in Day : Plus(seed, Traded(acts, a, s, k)) \in Amounts
    BY TradedTyped
  <2> QED
    BY <2>1, RecalcAssumption DEF Amounts
<1>3. f[s] # NoFrame
  BY CalculateTyped
<1> HIDE DEF f
<1>4. s \in KeyDays(f, d)
  BY <1>3 DEF KeyDays
<1>5. m \in KeyDays(f, d) /\ \A k \in KeyDays(f, d) : k <= m
  BY <1>4, LatestIsKey
<1>6. m \in Day /\ m <= d /\ f[m] # NoFrame /\ s <= m
  BY <1>4, <1>5 DEF KeyDays
<1>7. Shown(f, d, none) = f[m]
  BY <1>4, ShownAt
<1> HIDE DEF m
<1>8. f[m] = Plus(seed, Traded(acts, a, s, m))
  BY <1>1, <1>6
<1>9. Traded(acts, a, s, m) = Traded(acts, a, s, d)
  <2>1. ASSUME NEW i \in Activity, i \in Of(acts, a)
        PROVE  acts[i].day \in s..m <=> acts[i].day \in s..d
    <3> DEFINE k == acts[i].day
    <3>1. k \in Day /\ k \in DaysOf(acts, a)
      BY <2>1, BookDays DEF DaysOf
    <3> HIDE DEF k
    <3>2. k \in Int /\ m \in Int /\ d \in Int /\ s \in Int
      BY <1>0, <1>6, <3>1
    <3>3. ASSUME k > m, k <= d PROVE FALSE
      <4>1. k > s
        BY <1>6, <3>2, <3>3
      <4>2. f[k] # NoFrame
        BY <1>1, <1>2, <3>1, <4>1
      <4>3. k \in KeyDays(f, d)
        BY <3>1, <3>3, <4>2 DEF KeyDays
      <4>4. k <= m
        BY <1>5, <4>3
      <4> QED
        BY <3>2, <3>3, <4>4
    <3>4. k \in s..m <=> k \in s..d
      BY <1>6, <3>2, <3>3
    <3> QED
      BY <3>4 DEF k
  <2> QED
    BY <2>1 DEF Traded
<1> QED
  BY <1>7, <1>8, <1>9 DEF f

\* The first day of the activities of an account.
LEMMA FirstIsFirst ==
    ASSUME NEW acts \in Book, NEW a, Of(acts, a) # {}
    PROVE  First(acts, a) \in Day /\ \A i \in Of(acts, a) : First(acts, a) <= acts[i].day
<1>1. DaysOf(acts, a) \subseteq Day /\ DaysOf(acts, a) # {}
  BY BookDays DEF DaysOf
<1>2. DaysOf(acts, a) \in SUBSET Nat
  BY <1>1, RecalcAssumption DEF Day
<1>3. \E m \in DaysOf(acts, a) : \A k \in DaysOf(acts, a) : m <= k
  BY <1>1, <1>2, LeastExists
<1>4. First(acts, a) \in DaysOf(acts, a) /\ \A k \in DaysOf(acts, a) : First(acts, a) <= k
  BY <1>3 DEF First
<1> QED
  BY <1>1, <1>4 DEF DaysOf

\* Nothing is held before the first activity, and a replay may begin there.
LEMMA ReplayBegins ==
    ASSUME NEW acts \in Book, NEW a, NEW s \in Day, NEW d \in Day,
           \A i \in Of(acts, a) : s <= acts[i].day
    PROVE  /\ d < s => Held(acts, a, d) = {}
           /\ s <= d => Plus(Empty, Traded(acts, a, s, d)) = Replay(acts, a, d)
<1>0. /\ \A k \in Day : k \in Int /\ 1 <= k /\ k <= Today
      /\ Today \in Int
  BY RecalcAssumption DEF Day
<1>1. ASSUME NEW i \in Of(acts, a) PROVE acts[i].day \in Int /\ s <= acts[i].day /\ 1 <= acts[i].day
  BY <1>0, BookDays
<1>2. d < s => Held(acts, a, d) = {}
  <2> SUFFICES ASSUME d < s, NEW i \in Of(acts, a) PROVE ~(acts[i].day <= d)
    BY DEF Held
  <2>1. d \in Int /\ s \in Int
    BY <1>0
  <2> QED
    BY <1>1, <2>1
<1>3. s <= d => Plus(Empty, Traded(acts, a, s, d)) = Replay(acts, a, d)
  <2>1. \A i \in Of(acts, a) : acts[i].day \in s..d <=> acts[i].day \in 1..d
    <3> SUFFICES ASSUME NEW i \in Of(acts, a)
                 PROVE  acts[i].day \in s..d <=> acts[i].day \in 1..d
      OBVIOUS
    <3>1. d \in Int /\ s \in Int
      BY <1>0
    <3> QED
      BY <1>1, <3>1
  <2>2. Traded(acts, a, s, d) = Replay(acts, a, d)
    BY <2>1 DEF Traded, Replay
  <2>3. Replay(acts, a, d) \in Amounts
    BY TradedTyped DEF Replay
  <2> QED
    BY <2>2, <2>3, PlusEmpty
<1> QED
  BY <1>2, <1>3

\* How a calculation begins: with the first activity (or earlier) from nothing,
\* at the day asked for with no keyframe before it, or on top of what the
\* keyframes show of the day before, which then stays as the splits have it.
FromScratch(acts, j, f, a, s) ==
    /\ Computed(acts, j, f, a) = Calculate(acts, a, s, Empty)
    /\ \A i \in Of(acts, a) : s <= acts[i].day
FromNoKeyframe(acts, j, f, a, s) ==
    /\ Computed(acts, j, f, a) = Calculate(acts, a, s, Empty)
    /\ j.mode = "since" /\ s = j.since
    /\ KeyDays(f, s - 1) = {}
FromDayBefore(acts, j, f, a, s) ==
    /\ Computed(acts, j, f, a) = Calculate(acts, a, s, Shown(f, s - 1, Empty))
    /\ s # 1 /\ KeyDays(f, s - 1) # {} /\ j.mode # "full"
    /\ j.mode # "since" => f[s - 1] # NoFrame
    /\ j.mode = "since" =>
        /\ s = j.since
        /\ \/ \A k \in SplitDays(acts, a) : ~(k >= s)
           \/ \A i \in Of(acts, a) : s <= acts[i].day

LEMMA StartKinds ==
    ASSUME NEW acts \in Book, NEW a, NEW f, NEW j,
           j.mode \in {"full", "since", "incremental"}, j.mode = "since" => j.since \in Day,
           StartDay(acts, j, f, a) # Never
    PROVE  LET s == StartDay(acts, j, f, a)
           IN /\ s \in Day
              /\ \/ FromScratch(acts, j, f, a, s)
                 \/ FromNoKeyframe(acts, j, f, a, s)
                 \/ FromDayBefore(acts, j, f, a, s)
<1> DEFINE s == StartDay(acts, j, f, a)
           seed == SeedDay(j, f)
           resume == ResumeDay(acts, j, f, a)
           restarts == RestartsForSplit(acts, j, f, a)
<1>0. /\ Today \in Nat /\ 1 <= Today /\ Never = Today + 1 /\ Today \in Day
      /\ \A k \in Day : k \in Int /\ 1 <= k /\ k <= Today
      /\ \A k \in Int : 1 <= k /\ k <= Today => k \in Day
  BY RecalcAssumption DEF Day, Never
<1>1. Of(acts, a) # {} => /\ First(acts, a) \in Day
                          /\ \A i \in Of(acts, a) : First(acts, a) <= acts[i].day
  BY FirstIsFirst
<1>2. FirstOrToday(acts, a) \in Day /\ \A i \in Of(acts, a) : FirstOrToday(acts, a) <= acts[i].day
  BY <1>0, <1>1 DEF FirstOrToday
<1>3. Of(acts, a) # {} \/ j.mode = "full"
  BY DEF StartDay
<1>4. s = IF restarts THEN First(acts, a) ELSE resume
  BY <1>3 DEF StartDay
<1>5. Computed(acts, j, f, a) = Calculate(acts, a, s,
                                             IF seed = 0 \/ restarts THEN Empty ELSE f[seed])
  BY DEF Computed
<1>6. CASE j.mode = "full"
  <2>1. seed = 0 /\ resume = FirstOrToday(acts, a)
    BY <1>6 DEF SeedDay, ResumeDay
  <2>2. ~restarts
    BY <2>1 DEF RestartsForSplit
  <2> HIDE DEF seed, resume, restarts, s
  <2> QED
    BY <1>2, <1>4, <1>5, <2>1, <2>2 DEF FromScratch, s
<1>7. CASE j.mode # "full" /\ restarts
  <2>1. Of(acts, a) # {}
    BY <1>3, <1>7
  <2> HIDE DEF seed, resume, restarts, s
  <2> QED
    BY <1>1, <1>4, <1>5, <1>7, <2>1 DEF FromScratch, s
<1>8. CASE j.mode = "since" /\ ~restarts
  <2>1. seed = LatestDay(f, j.since - 1) /\ resume = j.since /\ j.since \in Day
    BY <1>8 DEF SeedDay, ResumeDay
  <2>2. s = j.since
    BY <1>4, <1>8, <2>1
  <2>3. CASE seed = 0
    <3>1. KeyDays(f, s - 1) = {}
      BY <2>1, <2>2, <2>3, ShownAt
    <3>2. Computed(acts, j, f, a) = Calculate(acts, a, s, Empty)
      BY <1>5, <2>3
    <3> HIDE DEF seed, resume, restarts, s
    <3> QED
      BY <1>8, <2>1, <2>2, <3>1, <3>2 DEF FromNoKeyframe, s
  <2>4. CASE seed # 0
    <3>1. KeyDays(f, s - 1) # {}
      <4>1. seed = LatestDay(f, s - 1)
        BY <2>1, <2>2
      <4> QED
        BY <2>4, <4>1, LatestIsKey
    <3>2. Shown(f, s - 1, Empty) = f[seed]
      BY <2>1, <2>2, <3>1, ShownAt
    <3>3. Computed(acts, j, f, a) = Calculate(acts, a, s, Shown(f, s - 1, Empty))
      BY <1>5, <1>8, <2>4, <3>2
    <3>4. s # 1
      <4>1. PICK k \in Day : k <= s - 1
        BY <3>1 DEF KeyDays
      <4>2. k \in Int /\ 1 <= k
        BY <1>0
      <4> HIDE DEF s
      <4> QED
        BY <4>1, <4>2
    <3>5. (\A k \in SplitDays(acts, a) : ~(k >= s)) \/ ~(First(acts, a) < s)
      BY <1>8, <2>1, <2>2, <2>4 DEF RestartsForSplit
    <3>6. Of(acts, a) # {} /\ s \in Day
      BY <1>3, <1>8, <2>1, <2>2
    <3>7. ~(First(acts, a) < s) => \A i \in Of(acts, a) : s <= acts[i].day
      <4> SUFFICES ASSUME ~(First(acts, a) < s), NEW i \in Of(acts, a) PROVE s <= acts[i].day
        OBVIOUS
      <4>1. acts[i].day \in Int /\ s \in Int /\ First(acts, a) \in Int
        BY <1>0, <1>1, <3>6, BookDays
      <4>2. First(acts, a) <= acts[i].day
        BY <1>1, <3>6
      <4> QED
        BY <4>1, <4>2
    <3> HIDE DEF seed, resume, restarts, s
    <3> QED
      BY <1>8, <2>2, <3>1, <3>3, <3>4, <3>5, <3>6, <3>7 DEF FromDayBefore, s
  <2> QED
    BY <2>3, <2>4
<1>9. CASE j.mode = "incremental" /\ ~restarts
  <2>1. /\ seed = LatestDay(f, Today)
        /\ resume = IF seed = 0 THEN FirstOrToday(acts, a) ELSE seed + 1
    BY <1>9 DEF SeedDay, ResumeDay
  <2>2. CASE seed = 0
    <3>1. s = FirstOrToday(acts, a) /\ Computed(acts, j, f, a) = Calculate(acts, a, s, Empty)
      BY <1>4, <1>5, <1>9, <2>1, <2>2
    <3> HIDE DEF seed, resume, restarts, s
    <3> QED
      BY <1>2, <3>1 DEF FromScratch, s
  <2>3. CASE seed # 0
    <3>1. s = seed + 1
      BY <1>4, <1>9, <2>1, <2>3
    <3>2. seed \in KeyDays(f, Today)
      BY <2>1, <2>3, LatestIsKey
    <3>3. seed \in Day /\ s \in Day /\ s # 1 /\ s - 1 = seed
      <4>1. seed \in Day
        BY <3>2 DEF KeyDays
      <4> HIDE DEF seed
      <4>2. s # Never
        OBVIOUS
      <4> HIDE DEF s
      <4> QED
        BY <1>0, <3>1, <4>1, <4>2
    <3>4. seed \in KeyDays(f, s - 1)
      <4>1. seed \in Day /\ f[seed] # NoFrame /\ seed <= s - 1
        <5>1. f[seed] # NoFrame
          BY <3>2 DEF KeyDays
        <5>2. seed \in Int /\ s - 1 = seed
          BY <1>0, <3>3
        <5> HIDE DEF seed
        <5> QED
          BY <3>3, <5>1, <5>2
      <4> QED
        BY <4>1 DEF KeyDays
    <3>5. \A k \in KeyDays(f, s - 1) : k <= seed
      BY <3>3 DEF KeyDays
    <3>6. LatestDay(f, s - 1) = seed
      BY <3>4, <3>5, LatestUnique
    <3>7. Shown(f, s - 1, Empty) = f[seed]
      BY <3>4, <3>6, ShownAt
    <3>8. Computed(acts, j, f, a) = Calculate(acts, a, s, Shown(f, s - 1, Empty))
      BY <1>5, <1>9, <2>3, <3>7
    <3>9. f[s - 1] # NoFrame
      BY <3>2, <3>3 DEF KeyDays
    <3> HIDE DEF seed, resume, restarts, s
    <3> QED
      BY <1>9, <3>3, <3>4, <3>8, <3>9 DEF FromDayBefore, s
  <2> QED
    BY <2>2, <2>3
<1> QED
  BY <1>6, <1>7, <1>8, <1>9

-----------------------------------------------------------------------------
(***************************************************************************)
(* Edits: what is not asked for is as it was.                              *)
(***************************************************************************)
\* An event covers an edit: what changed is of its accounts, from its day on.
Covers(e) ==
    \A i \in Activity : activities'[i] # activities[i] =>
        \A rec \in {activities[i], activities'[i]} :
            rec # NoActivity => rec.account \in e.accounts /\ rec.day >= e.since

\* The accounts an event names trade.
Trading(acts, e) == \A a \in e.accounts : Of(acts, a) # {}

\* An update that is being prepared has read what is stored.
UpdatesCurrent ==
    \A u \in updating : /\ activities[u.id] # NoActivity
                        /\ activities[u.id].account = u.account
                        /\ activities[u.id].day = u.day

CoveredEdit ==
    \E e \in Event :
        /\ Commits(e) /\ Dated(e) /\ Covers(e)
        /\ Admitted(activities', e.since) /\ Trading(activities', e)

\* The days a day is asked for by its date, whatever the splits.
Directly(s, d) == s = 0 \/ d >= s
DirectlyOwed ==
    {c \in Cell : \E e \in InFlight : /\ e.accounts = {} \/ c[1] \in e.accounts
                                      /\ Directly(e.since, c[2])}

\* An edit that meets its event half-way: what it holds besides the changed
\* activities is what was stored.
LEMMA CoveredBy ==
    ASSUME Cases = {}, TypeInv, NEW acts \in Book, NEW accounts \in SUBSET Account,
           NEW since \in Day, NEW rec \in Record,
           Commit(acts, ActivitiesChanged(accounts, since)), Admitted(acts, since),
           updating' \subseteq updating, accounts # {},
           \A a \in accounts : Of(activities, a) # {} \/ Of(acts, a) # {},
           \A i \in Activity : acts[i] # activities[i] =>
              /\ acts[i] # NoActivity => acts[i].account \in accounts /\ acts[i].day >= since
              /\ activities[i] # NoActivity => /\ activities[i].account \in accounts
                                               /\ activities[i].day >= since
    PROVE  CoveredEdit
<1> DEFINE e == ActivitiesChanged(accounts, since)
<1>1. e \in Event /\ e.accounts = accounts /\ e.since = since
  BY EventTyped
<1>2. activities' = acts /\ Commits(e)
  BY DEF Commit, Commits, Book
<1> HIDE DEF e
<1>3. Dated(e) /\ Covers(e)
  BY <1>1, <1>2 DEF Dated, Covers
<1>4. \A a \in Account : Of(activities, a) # {} => Of(acts, a) # {}
  BY DEF Admitted
<1>5. Trading(activities', e)
  BY <1>1, <1>2, <1>4 DEF Trading
<1> QED
  BY <1>1, <1>2, <1>3, <1>5 DEF CoveredEdit

\* Every edit is covered by the event it sends, or is a pull, or only reads.
LEMMA EditCovered ==
    ASSUME Cases = {}, TypeInv, UpdatesCurrent, Edit
    PROVE  /\ frames' = frames
           /\ UpdatesCurrent'
           /\ \/ CoveredEdit
              \/ Pulled
              \/ UNCHANGED <<activities, unsent, channel, pending, jobs, missed>>
<1>0. /\ activities \in Book
      /\ \A i \in Present : /\ i \in Activity /\ activities[i] \in Record
                            /\ activities[i].account \in Account /\ activities[i].day \in Day
                            /\ i \in Of(activities, activities[i].account)
      /\ \A rec \in Record : /\ rec.account \in Account /\ rec.day \in Day
                             /\ rec # NoActivity
      /\ \A u \in updating : u.id \in Activity /\ u.account \in Account /\ u.day \in Day
      /\ \A d \in Day : d \in Int /\ d <= d
  <2>1. activities \in Book
    BY DEF TypeInv, Book
  <2>2. \A i \in Present : i \in Activity /\ activities[i] \in Record
    BY <2>1 DEF Book, Present
  <2>3. \A rec \in Record : rec.account \in Account /\ rec.day \in Day /\ rec # NoActivity
    BY InitialAssumption DEF Record
  <2>4. \A u \in updating : u.id \in Activity /\ u.account \in Account /\ u.day \in Day
    BY DEF TypeInv, Update
  <2>5. \A d \in Day : d \in Int /\ d <= d
    BY RecalcAssumption DEF Day
  <2>6. \A i \in Present : i \in Of(activities, activities[i].account)
    BY DEF Present, Of
  <2> QED
    BY <2>1, <2>2, <2>3, <2>4, <2>5, <2>6
<1>1. ASSUME NEW i \in Activity, NEW rec \in Record \union {NoActivity}
      PROVE  /\ With(i, rec) \in Book /\ With(i, rec)[i] = rec
             /\ \A k \in Activity : k # i => With(i, rec)[k] = activities[k]
             /\ rec # NoActivity => i \in Of(With(i, rec), rec.account)
  BY <1>0 DEF With, Book, Of
<1>2. ASSUME NEW i \in Activity, NEW rec \in Record \union {NoActivity}, Alone(i),
             activities' = With(i, rec), updating' \subseteq updating
      PROVE  UpdatesCurrent'
  <2>1. \A u \in updating' : u \in updating /\ u.id # i /\ u.id \in Activity
    BY <1>0, <1>2 DEF Alone
  <2>2. \A u \in updating' : activities'[u.id] = activities[u.id]
    BY <1>1, <1>2, <2>1
  <2> QED
    BY <2>1, <2>2 DEF UpdatesCurrent
<1>3. ASSUME NEW i \in Activity, NEW rec \in Record, CreateActivity(i, rec)
      PROVE  frames' = frames /\ UpdatesCurrent' /\ CoveredEdit
  <2>1. /\ i \notin Present /\ Alone(i) /\ Admitted(With(i, rec), rec.day) /\ updating' = updating
        /\ Commit(With(i, rec), ActivitiesChanged({rec.account}, rec.day))
    BY <1>3 DEF CreateActivity
  <2>2. activities[i] = NoActivity
    BY <2>1 DEF Present
  <2>3. UpdatesCurrent' /\ frames' = frames
    BY <1>2, <2>1 DEF Commit
  <2>4. {rec.account} \in SUBSET Account /\ {rec.account} # {} /\ rec.day \in Day
    BY <1>0
  <2>5. \A a \in {rec.account} : Of(activities, a) # {} \/ Of(With(i, rec), a) # {}
    BY <1>0, <1>1
  <2>6. \A k \in Activity : With(i, rec)[k] # activities[k] =>
            /\ With(i, rec)[k] # NoActivity => /\ With(i, rec)[k].account \in {rec.account}
                                               /\ With(i, rec)[k].day >= rec.day
            /\ activities[k] # NoActivity => /\ activities[k].account \in {rec.account}
                                             /\ activities[k].day >= rec.day
    BY <1>0, <1>1, <2>2
  <2>7. With(i, rec) \in Book
    BY <1>1
  <2> QED
    BY <2>1, <2>3, <2>4, <2>5, <2>6, <2>7, CoveredBy
<1>4. ASSUME NEW i \in Activity, NEW rec \in Record, UpsertActivity(i, rec)
      PROVE  frames' = frames /\ UpdatesCurrent' /\ CoveredEdit
  <2>1. /\ i \in Present => activities[i].account = rec.account /\ activities[i].day >= rec.day
        /\ Alone(i) /\ Admitted(With(i, rec), rec.day) /\ updating' = updating
        /\ Commit(With(i, rec), ActivitiesChanged({rec.account}, rec.day))
    BY <1>4 DEF UpsertActivity
  <2>3. UpdatesCurrent' /\ frames' = frames
    BY <1>2, <2>1 DEF Commit
  <2>4. {rec.account} \in SUBSET Account /\ {rec.account} # {} /\ rec.day \in Day
    BY <1>0
  <2>5. \A a \in {rec.account} : Of(activities, a) # {} \/ Of(With(i, rec), a) # {}
    BY <1>0, <1>1
  <2>6. \A k \in Activity : With(i, rec)[k] # activities[k] =>
            /\ With(i, rec)[k] # NoActivity => /\ With(i, rec)[k].account \in {rec.account}
                                               /\ With(i, rec)[k].day >= rec.day
            /\ activities[k] # NoActivity => /\ activities[k].account \in {rec.account}
                                             /\ activities[k].day >= rec.day
    BY <1>0, <1>1, <2>1 DEF Present
  <2>7. With(i, rec) \in Book
    BY <1>1
  <2> QED
    BY <2>1, <2>3, <2>4, <2>5, <2>6, <2>7, CoveredBy
<1>5. ASSUME NEW i \in Activity, NEW rec \in Record, NEW gone \in SUBSET Present,
             BulkMutate(i, rec, gone)
      PROVE  frames' = frames /\ UpdatesCurrent' /\ CoveredEdit
  <2> DEFINE acts == [k \in Activity |-> IF k \in gone THEN NoActivity
                                         ELSE IF k = i THEN rec ELSE activities[k]]
             days == {rec.day} \union {activities[k].day : k \in gone}
             since == CHOOSE d \in days : /\ d <= rec.day
                                          /\ \A k \in gone : d <= activities[k].day
             old == {activities[k].account : k \in Present \cap ({i} \union gone)}
             accounts == old \union {rec.account}
  <2>1. acts \in Book
    BY <1>0 DEF Book
  <2>2. since \in Day /\ since <= rec.day /\ \A k \in gone : since <= activities[k].day
    <3>1. days \in SUBSET Nat /\ days # {} /\ days \subseteq Day
      BY <1>0 DEF Day
    <3>2. \E d \in days : \A k \in days : d <= k
      BY <3>1, LeastExists
    <3>3. \E d \in days : d <= rec.day /\ \A k \in gone : d <= activities[k].day
      BY <3>2
    <3> QED
      BY <3>1, <3>3
  <2>3. accounts \in SUBSET Account /\ accounts # {}
    BY <1>0
  <2>4. /\ Commit(acts, ActivitiesChanged(accounts, since))
        /\ Admitted(acts, since) /\ updating' = updating /\ gone \subseteq Present \ {i}
        /\ \A k \in {i} \union gone : Alone(k)
        /\ i \in Present => since <= activities[i].day
    BY <1>5 DEF BulkMutate
  <2>5. \A k \in Activity : /\ k \notin gone /\ k # i => acts[k] = activities[k]
                            /\ k \in gone => acts[k] = NoActivity
                            /\ k = i => acts[k] = rec
    BY <2>4
  <2>6. /\ \A k \in gone : activities[k].account \in accounts
        /\ i \in Present => activities[i].account \in accounts
        /\ rec.account \in accounts
    OBVIOUS
  <2>7. \A a \in accounts : Of(activities, a) # {} \/ Of(acts, a) # {}
    <3>1. i \in Of(acts, rec.account)
      BY <1>0, <2>5 DEF Of
    <3>2. \A a \in old : Of(activities, a) # {}
      BY <1>0
    <3> QED
      BY <3>1, <3>2
  <2> HIDE DEF acts, since, old, accounts
  <2>8. frames' = frames /\ activities' = acts
    BY <2>4 DEF Commit
  <2>9. UpdatesCurrent'
    <3>1. \A u \in updating' : u \in updating /\ u.id \notin {i} \union gone /\ u.id \in Activity
      BY <1>0, <2>4 DEF Alone
    <3>2. \A u \in updating' : activities'[u.id] = activities[u.id]
      BY <2>5, <2>8, <3>1
    <3> QED
      BY <3>1, <3>2 DEF UpdatesCurrent
  <2>10. ASSUME NEW k \in Activity, acts[k] # activities[k]
         PROVE  /\ acts[k] # NoActivity => acts[k].account \in accounts /\ acts[k].day >= since
                /\ activities[k] # NoActivity => /\ activities[k].account \in accounts
                                                 /\ activities[k].day >= since
    <3>1. k \in gone \/ k = i
      BY <2>5, <2>10
    <3>2. \A m \in Present : activities[m].day \in Int
      BY <1>0
    <3>3. since \in Int /\ rec.day \in Int
      BY <1>0, <2>2
    <3>4. CASE k \in gone
      BY <2>2, <2>5, <2>6, <3>2, <3>3, <3>4
    <3>5. CASE k = i
      <4>1. activities[i] # NoActivity => i \in Present
        BY DEF Present
      <4> QED
        BY <2>2, <2>4, <2>5, <2>6, <3>2, <3>3, <3>5, <4>1
    <3> QED
      BY <3>1, <3>4, <3>5
  <2> QED
    BY <2>1, <2>2, <2>3, <2>4, <2>7, <2>8, <2>9, <2>10, CoveredBy
<1>6. ASSUME NEW i \in Activity, BeginUpdate(i)
      PROVE  /\ frames' = frames /\ UpdatesCurrent'
             /\ UNCHANGED <<activities, unsent, channel, pending, jobs, missed>>
  <2> DEFINE new == [id |-> i, account |-> activities[i].account, day |-> activities[i].day]
  <2>1. /\ updating' = updating \union {new} /\ i \in Present /\ frames' = frames
        /\ UNCHANGED <<activities, unsent, channel, pending, jobs, missed>>
    BY <1>6 DEF BeginUpdate
  <2>2. \A u \in updating' : u \in updating \/ u = new
    BY <2>1
  <2>3. /\ new.id = i /\ new.account = activities[i].account /\ new.day = activities[i].day
        /\ activities[i] # NoActivity
    BY <2>1 DEF Present
  <2> HIDE DEF new
  <2> QED
    BY <2>1, <2>2, <2>3 DEF UpdatesCurrent
<1>7. ASSUME NEW i \in Activity, DeleteActivity(i)
      PROVE  frames' = frames /\ UpdatesCurrent' /\ CoveredEdit
  <2> DEFINE rec == activities[i]
  <2>1. /\ i \in Present /\ Alone(i) /\ Admitted(With(i, NoActivity), rec.day)
        /\ updating' = updating
        /\ Commit(With(i, NoActivity), ActivitiesChanged({rec.account}, rec.day))
    BY <1>7 DEF DeleteActivity
  <2>3. UpdatesCurrent' /\ frames' = frames
    BY <1>2, <2>1 DEF Commit
  <2>4. {rec.account} \in SUBSET Account /\ {rec.account} # {} /\ rec.day \in Day /\ rec \in Record
    BY <1>0, <2>1
  <2>5. \A a \in {rec.account} : Of(activities, a) # {} \/ Of(With(i, NoActivity), a) # {}
    BY <1>0, <2>1
  <2>6. \A k \in Activity : With(i, NoActivity)[k] # activities[k] =>
            /\ With(i, NoActivity)[k] # NoActivity =>
                 /\ With(i, NoActivity)[k].account \in {rec.account}
                 /\ With(i, NoActivity)[k].day >= rec.day
            /\ activities[k] # NoActivity => /\ activities[k].account \in {rec.account}
                                             /\ activities[k].day >= rec.day
    BY <1>0, <1>1, <2>4
  <2>7. With(i, NoActivity) \in Book
    BY <1>1
  <2> HIDE DEF rec
  <2> QED
    BY <2>1, <2>3, <2>4, <2>5, <2>6, <2>7, CoveredBy
<1>8. ASSUME NEW u \in updating, NEW rec \in Record, CommitUpdate(u, rec)
      PROVE  frames' = frames /\ UpdatesCurrent' /\ CoveredEdit
  <2> DEFINE i == u.id
             since == MinDay(u.day, rec.day)
             accounts == {u.account, rec.account}
  <2>1. /\ i \in Present /\ Admitted(With(i, rec), since) /\ updating' = updating \ {u}
        /\ Commit(With(i, rec), ActivitiesChanged(accounts, since))
    BY <1>8 DEF CommitUpdate
  <2>2. /\ i \in Activity /\ activities[i].account = u.account /\ activities[i].day = u.day
        /\ activities[i] # NoActivity
    BY <1>0 DEF UpdatesCurrent
  <2>3. UpdatesCurrent' /\ frames' = frames
    <3>1. \A v \in updating' : v \in updating /\ v # u
      BY <2>1
    <3>2. updating \subseteq Update
      BY DEF TypeInv
    <3>3. ASSUME NEW v \in updating, v.id = i PROVE v = u
      <4>1. v.account = u.account /\ v.day = u.day
        BY <2>2, <3>3 DEF UpdatesCurrent
      <4> QED
        BY <3>2, <3>3, <4>1 DEF Update
    <3>4. \A v \in updating' : v.id # i
      BY <3>1, <3>3
    <3>5. activities' = With(i, rec) /\ frames' = frames
      BY <2>1 DEF Commit
    <3>6. \A v \in updating' : activities'[v.id] = activities[v.id]
      BY <1>0, <1>1, <2>2, <3>1, <3>4, <3>5
    <3> QED
      BY <3>1, <3>5, <3>6 DEF UpdatesCurrent
  <2>4. accounts \in SUBSET Account /\ accounts # {}
    BY <1>0
  <2>5. since \in Day /\ since <= u.day /\ since <= rec.day
    <3>1. u.day \in Day /\ rec.day \in Day
      BY <1>0
    <3>2. u.day \in Int /\ rec.day \in Int
      BY <1>0, <3>1
    <3> QED
      BY <3>1, <3>2 DEF MinDay
  <2>6. \A a \in accounts : Of(activities, a) # {} \/ Of(With(i, rec), a) # {}
    <3>1. Of(activities, u.account) # {}
      BY <1>0, <2>1, <2>2
    <3>2. Of(With(i, rec), rec.account) # {}
      BY <1>0, <1>1, <2>2
    <3> QED
      BY <3>1, <3>2
  <2>7. With(i, rec) \in Book
    BY <1>1, <2>2
  <2>8. /\ u.account \in accounts /\ rec.account \in accounts
        /\ u.day \in Int /\ since \in Int /\ rec.day \in Int
    BY <1>0, <2>5
  <2> HIDE DEF since, accounts
  <2>9. \A k \in Activity : With(i, rec)[k] # activities[k] =>
            /\ With(i, rec)[k] # NoActivity => /\ With(i, rec)[k].account \in accounts
                                               /\ With(i, rec)[k].day >= since
            /\ activities[k] # NoActivity => /\ activities[k].account \in accounts
                                             /\ activities[k].day >= since
    <3>1. \A k \in Activity : With(i, rec)[k] # activities[k] => k = i /\ With(i, rec)[k] = rec
      BY <1>1, <2>2
    <3>2. u.day >= since /\ rec.day >= since
      BY <2>5, <2>8
    <3> QED
      BY <2>2, <2>8, <3>1, <3>2
  <2> QED
    BY <2>1, <2>3, <2>4, <2>5, <2>6, <2>7, <2>9, CoveredBy
<1>9. ASSUME NEW i \in Activity, NEW rec \in Record \union {NoActivity}, Pull(i, rec)
      PROVE  frames' = frames /\ UpdatesCurrent' /\ Pulled
  <2>1. With(i, rec) \in [Activity -> Record \union {NoActivity}]
    BY <1>1 DEF Book
  <2>2. updating' = {} /\ frames' = frames
    BY <1>9 DEF Pull, Commit
  <2> QED
    BY <1>9, <2>1, <2>2 DEF Pull, Pulled, Commits, Commit, UpdatesCurrent
<1> QED
  BY <1>3, <1>4, <1>5, <1>6, <1>7, <1>8, <1>9 DEF Edit

\* A day an edit does not ask for keeps its trades, and its replay.
LEMMA EditKeeps ==
    ASSUME Cases = {}, TypeInv, NEW e \in Event, Commits(e), Dated(e), Covers(e),
           Admitted(activities', e.since), NEW a \in Account, NEW d \in Day
    PROVE  /\ <<a, d>> \notin DirectlyOwed' =>
                Held(activities', a, d) = Held(activities, a, d)
           /\ <<a, d>> \notin Owed' =>
                Replay(activities', a, d) = Replay(activities, a, d)
<1>0. /\ activities \in Book /\ activities' \in Book /\ e \in InFlight'
      /\ \A k \in Day : k \in Int /\ 1 <= k
      /\ 0 \notin Day
      /\ <<a, d>> \in Cell
  <2>1. activities \in Book /\ activities' \in Book
    BY DEF TypeInv, Commits, Book
  <2>2. e \in InFlight'
    BY DEF Commits, InFlight
  <2>3. (\A k \in Day : k \in Int /\ 1 <= k) /\ 0 \notin Day
    BY RecalcAssumption DEF Day
  <2> QED
    BY <2>1, <2>2, <2>3 DEF Cell
<1>1. e.since \in Day /\ e.since # 0 /\ e.accounts # {} /\ e.since \in Int /\ d \in Int
  BY <1>0 DEF Dated
<1>2. ASSUME NEW i \in Activity, activities'[i] # activities[i]
      PROVE  /\ i \in Of(activities, a) => a \in e.accounts /\ activities[i].day >= e.since
             /\ i \in Of(activities', a) => a \in e.accounts /\ activities'[i].day >= e.since
  BY <1>2 DEF Covers, Of
<1>3. ASSUME a \notin e.accounts \/ d < e.since
      PROVE  \A i \in Activity :
                /\ i \in Of(activities, a) /\ activities[i].day <= d
                    => i \in Of(activities', a) /\ activities'[i] = activities[i]
                /\ i \in Of(activities', a) /\ activities'[i].day <= d
                    => i \in Of(activities, a) /\ activities'[i] = activities[i]
  <2> TAKE i \in Activity
  <2>1. CASE activities'[i] = activities[i]
    BY <2>1 DEF Of
  <2>2. CASE activities'[i] # activities[i]
    <3>1. /\ i \in Of(activities, a) => activities[i].day \in Int
          /\ i \in Of(activities', a) => activities'[i].day \in Int
      BY <1>0, BookDays
    <3>2. /\ i \in Of(activities, a) => a \in e.accounts /\ activities[i].day >= e.since
          /\ i \in Of(activities', a) => a \in e.accounts /\ activities'[i].day >= e.since
      BY <1>2, <2>2
    <3>3. /\ i \in Of(activities, a) => ~(activities[i].day <= d)
          /\ i \in Of(activities', a) => ~(activities'[i].day <= d)
      BY <1>1, <1>3, <3>1, <3>2
    <3> QED
      BY <3>3
  <2> QED
    BY <2>1, <2>2
<1>4. ASSUME <<a, d>> \notin DirectlyOwed'
      PROVE  Held(activities', a, d) = Held(activities, a, d)
  <2>1. ~(a \in e.accounts /\ d >= e.since)
    BY <1>0, <1>4 DEF DirectlyOwed, Directly
  <2>2. a \notin e.accounts \/ d < e.since
    BY <1>1, <2>1
  <2>3. \A i \in Activity : i \in Held(activities, a, d) <=> i \in Held(activities', a, d)
    BY <1>3, <2>2 DEF Held
  <2> QED
    BY <2>3 DEF Held, Of
<1>5. ASSUME <<a, d>> \notin Owed'
      PROVE  Replay(activities', a, d) = Replay(activities, a, d)
  <2>1. ~Asks(activities', e, <<a, d>>)
    BY <1>0, <1>5 DEF Owed
  <2>2. a \notin e.accounts \/ (d < e.since /\ \A k \in SplitDays(activities', a) : ~(k >= e.since))
    BY <1>1, <2>1 DEF Asks, Reaches
  <2>3. SplitDays(activities', a) = SplitDays(activities, a)
    <3>1. ASSUME NEW i \in Activity, i \in Of(activities, a), activities[i].kind = "split"
          PROVE  i \in Of(activities', a) /\ activities'[i] = activities[i]
      BY <3>1 DEF Admitted, Present, Of
    <3>2. ASSUME NEW i \in Activity, i \in Of(activities', a), activities'[i].kind = "split"
          PROVE  i \in Of(activities, a) /\ activities'[i] = activities[i]
      <4>1. CASE activities'[i] = activities[i]
        BY <3>2, <4>1 DEF Of
      <4>2. CASE activities'[i] # activities[i]
        <5>1. a \in e.accounts /\ activities'[i].day >= e.since
          BY <1>2, <3>2, <4>2
        <5>2. activities'[i].day \in SplitDays(activities', a)
          BY <3>2 DEF SplitDays
        <5> QED
          BY <2>2, <5>1, <5>2
      <4> QED
        BY <4>1, <4>2
    <3> QED
      BY <3>1, <3>2 DEF SplitDays, Of
  <2>4. a \notin e.accounts \/ d < e.since
    BY <2>2
  <2>5. ASSUME NEW i \in Activity
        PROVE  Replay(activities', a, d)[i] = Replay(activities, a, d)[i]
    <3>1. /\ i \in Of(activities, a) /\ activities[i].day <= d
              => i \in Of(activities', a) /\ activities'[i] = activities[i]
          /\ i \in Of(activities', a) /\ activities'[i].day <= d
              => i \in Of(activities, a) /\ activities'[i] = activities[i]
      BY <1>3, <2>4
    <3>2. activities'[i] = activities[i] => Quantity(activities', a, i) = Quantity(activities, a, i)
      BY <2>3 DEF Quantity
    <3>3. /\ i \in Of(activities, a) /\ activities[i].day \in 1..d => activities[i].day <= d
          /\ i \in Of(activities', a) /\ activities'[i].day \in 1..d => activities'[i].day <= d
      BY <1>1
    <3> QED
      BY <3>1, <3>2, <3>3 DEF Replay, Traded
  <2> QED
    BY <2>5 DEF Replay, Traded
<1> QED
  BY <1>4, <1>5

\* After a pull every day is asked for.
LEMMA PulledOwes ==
    ASSUME DeviceSyncPullComplete \in InFlight
    PROVE  Cell \subseteq DirectlyOwed /\ Cell \subseteq Owed
BY DEF DirectlyOwed, Owed, Asks, Reaches, Directly, DeviceSyncPullComplete

\* A day asked for by its date is asked for, and so is every later one.
LEMMA OwedUpwards ==
    ASSUME NEW a \in Account, NEW d \in Day, NEW k \in Day, d <= k,
           InFlight \subseteq Event, activities \in Book
    PROVE  /\ <<a, d>> \in DirectlyOwed => <<a, d>> \in Owed /\ <<a, k>> \in DirectlyOwed
           /\ <<a, d>> \in Owed => <<a, k>> \in Owed
<1>0. d \in Int /\ k \in Int /\ <<a, d>> \in Cell /\ <<a, k>> \in Cell
  BY RecalcAssumption DEF Day, Cell
<1>1. \A e \in InFlight : e.since \in Int
  BY RecalcAssumption DEF Event
<1>2. \A e \in InFlight : d >= e.since => k >= e.since
  BY <1>0, <1>1
<1>3. <<a, d>> \in DirectlyOwed => <<a, d>> \in Owed /\ <<a, k>> \in DirectlyOwed
  BY <1>0, <1>2 DEF DirectlyOwed, Owed, Asks, Reaches, Directly
<1>4. <<a, d>> \in Owed => <<a, k>> \in Owed
  BY <1>0, <1>2 DEF Owed, Asks, Reaches
<1> QED
  BY <1>3, <1>4

-----------------------------------------------------------------------------
(***************************************************************************)
(* The invariant behind SnapshotsAreReplay.  It speaks of the keyframes an *)
(* account will have when the job that runs has written what it has        *)
(* computed; the job's own writes change nothing about those.              *)
(***************************************************************************)
\* A job that has read.
Rewriting(j) == j.stage \in {"write", "prune"}
Busy(j) == Rewriting(j) \/ j.stage \in {"total", "total_append", "total_save", "total_prune"}

\* The keyframes of account a when job j has written it.
Written(j, f, a) ==
    IF j.mode = "full" THEN j.out[a] ELSE Save(DeleteFrom(f, j.start[a]), j.out[a])

ComingIn(js, fs, a) ==
    IF \E r \in Runner : a \in js[r].todo
    THEN Written(js[CHOOSE r \in Runner : a \in js[r].todo], fs[a], a)
    ELSE fs[a]
Coming(a) == ComingIn(jobs, frames, a)

\* What is planned and not yet read.
Waiting == {c \in Answered(Worker) : jobs[Worker].stage = "planned"}
DirectlyWaiting ==
    {c \in Cell : /\ jobs[Worker].stage = "planned"
                  /\ c[1] \in jobs[Worker].accounts
                  /\ Directly(jobs[Worker].since, c[2])}

\* What was lost to a failure, less what the job that runs makes good.
RepairedBy(j, m) ==
    {c \in m :
        /\ c[1] \in j.accounts /\ ~j.failed
        /\ \/ j.mode = "full"
           \/ /\ j.mode = "since"
              /\ \A d \in Day : <<c[1], d>> \in m => d >= j.start[c[1]]}
LostIn(js, m) == {c \in m : \A r \in Runner : Busy(js[r]) => c \notin RepairedBy(js[r], m)}
Lost == LostIn(jobs, missed)

Pulling == DeviceSyncPullComplete \in InFlight

OneJob == \A q, r \in Runner : jobs[q].stage # "idle" /\ jobs[r].stage # "idle" => q = r

\* A recalculation from day s resumes from a day that the prune leaves as it is.
SeedKept(s) == s \in {0, 1} \/ Retained(s - 1)
SeedsKept == \A e \in InFlight : SeedKept(e.since)

\* A job that has not read has nothing to write; one that has writes keyframes
\* that begin on its first day.
JobSane(r, j) ==
    /\ j.accounts \subseteq Account
    /\ j.stage = "idle" => j.mode = "full"
    /\ j.mode = "since" => r = Worker /\ SeedKept(j.since)
    /\ r = Worker => \/ j.mode = "full" /\ j.since = 0
                     \/ j.mode = "since" /\ j.since \in Day
    /\ ~Busy(j) => j.failed = FALSE /\ j.start = [a \in Account |-> Never]
    /\ ~Rewriting(j) => j.todo = {} /\ j.cleanup = {}
    /\ Rewriting(j) => j.failed = FALSE
    /\ j.start \in [Account -> Day \union {Never}]
    /\ \A a \in j.todo :
        /\ j.start[a] \in Day /\ j.out[a] \in Keyframes
        /\ j.out[a][j.start[a]] # NoFrame
        /\ \A k \in Day : k < j.start[a] => j.out[a][k] = NoFrame

\* The accounts that are to be recalculated from a day on trade.
AccountsTrade ==
    /\ \A e \in InFlight : Trading(activities, e)
    /\ jobs[Worker].mode = "since" =>
            Pulling \/ \A a \in jobs[Worker].accounts : Of(activities, a) # {}
    /\ \A r \in Runner : jobs[r].cleanup # {} => Pulling

\* When a day is lost, so are the days after it.
MissedUpwards ==
    \A a \in Account, d, k \in Day : <<a, d>> \in missed /\ d <= k => <<a, k>> \in missed

\* What a job rewrites is on the worklist.
WritesAnswered ==
    \A r \in Runner : \A a \in jobs[r].todo : \A d \in Day :
        d >= jobs[r].start[a] => <<a, d>> \in DirectlyOwed \union Answered(r)

\* An account between the two writes has no keyframe from the first day on.
DeletedFrom ==
    \A r \in Runner : \A a \in jobs[r].saving : \A k \in Day :
        k >= jobs[r].start[a] => frames[a][k] = NoFrame

\* A day nobody is going to recompute will show its replay, unless the keyframes
\* before it are thinned out.
ReplayAt(a, d) ==
    KeptIn(Coming(a), d) /\ <<a, d>> \notin Owed \union Waiting \union Lost =>
        Shown(Coming(a), d, Empty) = Replay(activities, a, d)

\* A day that is asked for because of a split only will show nothing if nothing
\* is held, and has a keyframe otherwise.
HeldAt(a, d) ==
    KeptIn(Coming(a), d) /\ <<a, d>> \notin DirectlyOwed \union DirectlyWaiting \union Lost =>
        IF Held(activities, a, d) = {}
        THEN Shown(Coming(a), d, Empty) = Empty
        ELSE KeyDays(Coming(a), d) # {}

Control ==
    /\ ListInv /\ OneJob /\ UpdatesCurrent /\ SeedsKept
    /\ frames \in [Account -> Keyframes]
    /\ \A r \in Runner : JobSane(r, jobs[r])
    /\ AccountsTrade /\ MissedUpwards

SnapInv ==
    /\ Control /\ WritesAnswered /\ DeletedFrom
    /\ \A a \in Account, d \in Day : ReplayAt(a, d) /\ HeldAt(a, d)

\* The writer's keyframes are those to come.
WritesAlone(js, r) == \A q \in Runner : q # r => js[q].todo = {}

LEMMA ComingIs ==
    ASSUME NEW r \in Runner, NEW js, WritesAlone(js, r), NEW fs, NEW a
    PROVE  /\ a \in js[r].todo => ComingIn(js, fs, a) = Written(js[r], fs[a], a)
           /\ a \notin js[r].todo => ComingIn(js, fs, a) = fs[a]
<1>1. CASE a \in js[r].todo
  <2> DEFINE w == CHOOSE q \in Runner : a \in js[q].todo
  <2>1. w \in Runner /\ a \in js[w].todo
    BY <1>1
  <2>2. w = r
    BY <2>1 DEF WritesAlone
  <2> QED
    BY <1>1, <2>2 DEF ComingIn
<1>2. CASE a \notin js[r].todo
  <2>1. \A q \in Runner : a \notin js[q].todo
    BY <1>2 DEF WritesAlone
  <2> QED
    BY <1>2, <2>1 DEF ComingIn
<1> QED
  BY <1>1, <1>2

\* What the one busy job makes good.
LEMMA LostIs ==
    ASSUME NEW js, NEW m, NEW r \in Runner, \A q \in Runner : q # r => ~Busy(js[q])
    PROVE  LostIn(js, m) = IF Busy(js[r]) THEN m \ RepairedBy(js[r], m) ELSE m
BY DEF LostIn

LEMMA RepairedIs == \A r \in Runner : Repaired(r) = RepairedBy(jobs[r], missed)
BY DEF Repaired, RepairedBy

\* While one job runs the others are idle and have nothing to write.
LEMMA OthersIdle ==
    ASSUME Control, NEW r \in Runner, jobs[r].stage # "idle"
    PROVE  /\ \A q \in Runner : q # r => jobs[q].stage = "idle"
           /\ \A q \in Runner : q # r => /\ jobs[q].todo = {} /\ ~Busy(jobs[q])
                                         /\ Answered(q) = {}
<1>1. \A q \in Runner : q # r => jobs[q].stage = "idle"
  BY DEF Control, OneJob
<1>2. \A q \in Runner : jobs[q].stage = "idle" => /\ jobs[q].todo = {} /\ ~Busy(jobs[q])
                                                 /\ Answered(q) = {}
  BY DEF Control, JobSane, Busy, Rewriting, Answered, Answers
<1> QED
  BY <1>1, <1>2

\* The first snapshots are those of a full job.
LEMMA InitSnap == Init => SnapInv
<1> SUFFICES ASSUME Init PROVE SnapInv
  OBVIOUS
<1>0. /\ ListInv /\ activities \in Book
      /\ InFlight = {} /\ missed = {} /\ updating = {}
      /\ \A r \in Runner : jobs[r] = IdleJob
      /\ Worker \in Runner
  <2>1. ListInv
    BY InitTyped, InitImplements DEF ListInv
  <2> QED
    BY <2>1 DEF Init, InFlight, ListInv, TypeInv, Book, Runner
<1>1. /\ IdleJob.stage = "idle" /\ IdleJob.mode = "full" /\ IdleJob.accounts = {}
      /\ IdleJob.since = 0 /\ IdleJob.todo = {} /\ IdleJob.cleanup = {} /\ IdleJob.saving = {}
      /\ IdleJob.failed = FALSE /\ IdleJob.start = [a \in Account |-> Never]
  BY DEF IdleJob
<1>2. ASSUME NEW a \in Account, Of(activities, a) # {}
      PROVE  /\ frames[a] \in Keyframes
             /\ \A d \in Day : Shown(frames[a], d, Empty) = Replay(activities, a, d)
             /\ \A d \in Day : Held(activities, a, d) # {} => KeyDays(frames[a], d) # {}
  <2> DEFINE s == StartDay(activities, IdleJob, NoFrames, a)
  <2>1. s = First(activities, a)
    BY <1>1, <1>2 DEF StartDay, RestartsForSplit, ResumeDay, FirstOrToday, SeedDay
  <2>2. s \in Day /\ \A i \in Of(activities, a) : s <= activities[i].day
    BY <1>0, <1>2, <2>1, FirstIsFirst
  <2>3. Computed(activities, IdleJob, NoFrames, a) = Calculate(activities, a, s, Empty)
    BY <1>1 DEF Computed, SeedDay
  <2>4. frames[a] = Calculate(activities, a, s, Empty)
    BY <1>2, <2>3 DEF Init
  <2> HIDE DEF s
  <2>5. Empty \in Amounts
    BY <1>0, TradedTyped
  <2>6. /\ frames[a] \in Keyframes /\ frames[a][s] # NoFrame
        /\ \A k \in Day : k < s => frames[a][k] = NoFrame
    BY <1>0, <2>2, <2>4, <2>5, CalculateTyped
  <2>7. ASSUME NEW d \in Day
        PROVE  /\ Shown(frames[a], d, Empty) = Replay(activities, a, d)
               /\ Held(activities, a, d) # {} => KeyDays(frames[a], d) # {}
    <3>1. d \in Int /\ s \in Int
      BY <2>2, RecalcAssumption DEF Day
    <3>2. CASE s <= d
      <4>1. Shown(frames[a], d, Empty) = Replay(activities, a, d)
        BY <1>0, <2>2, <2>4, <2>5, <3>2, CalculateShows, ReplayBegins
      <4>2. s \in KeyDays(frames[a], d)
        BY <2>2, <2>6, <3>2 DEF KeyDays
      <4> QED
        BY <4>1, <4>2
    <3>3. CASE d < s
      <4>1. Held(activities, a, d) = {}
        BY <1>0, <2>2, <3>3, ReplayBegins
      <4>2. Replay(activities, a, d) = Empty
        BY <1>0, <3>1, <4>1, NothingHeld
      <4>3. KeyDays(frames[a], d) = {}
        <5> SUFFICES ASSUME NEW k \in KeyDays(frames[a], d) PROVE FALSE
          OBVIOUS
        <5>1. k \in Day /\ k <= d /\ frames[a][k] # NoFrame /\ k \in Int
          BY RecalcAssumption DEF KeyDays, Day
        <5> QED
          BY <2>6, <3>1, <3>3, <5>1
      <4> QED
        BY <4>1, <4>2, <4>3, ShownAt
    <3> QED
      BY <3>1, <3>2, <3>3
  <2> QED
    BY <2>6, <2>7
<1>3. ASSUME NEW a \in Account, Of(activities, a) = {}
      PROVE  /\ frames[a] \in Keyframes
             /\ \A d \in Day : /\ Shown(frames[a], d, Empty) = Replay(activities, a, d)
                               /\ Held(activities, a, d) = {}
  <2>1. frames[a] = NoFrames
    BY <1>3 DEF Init
  <2>2. NoFrames \in Keyframes /\ \A d : KeyDays(NoFrames, d) = {}
    BY DEF NoFrames, Keyframes, KeyDays
  <2>3. \A d \in Day : Held(activities, a, d) = {}
    BY <1>3 DEF Held
  <2>4. \A d \in Day : Replay(activities, a, d) = Empty
    <3>1. 1 \in Int
      OBVIOUS
    <3> QED
      BY <1>0, <2>3, <3>1, NothingHeld
  <2> QED
    BY <2>1, <2>2, <2>3, <2>4, ShownAt
<1>4. \A a \in Account : Coming(a) = frames[a]
  BY <1>0, <1>1 DEF Coming, ComingIn
<1>5. \A a \in Account, d \in Day : ReplayAt(a, d) /\ HeldAt(a, d)
  <2> SUFFICES ASSUME NEW a \in Account, NEW d \in Day PROVE ReplayAt(a, d) /\ HeldAt(a, d)
    OBVIOUS
  <2>1. Shown(frames[a], d, Empty) = Replay(activities, a, d)
    BY <1>2, <1>3
  <2>2. Held(activities, a, d) # {} => KeyDays(frames[a], d) # {}
    BY <1>2, <1>3
  <2>3. Held(activities, a, d) = {} => Replay(activities, a, d) = Empty
    <3>1. 1 \in Int
      OBVIOUS
    <3> QED
      BY <1>0, <3>1, NothingHeld
  <2> QED
    BY <1>4, <2>1, <2>2, <2>3 DEF ReplayAt, HeldAt
<1>6. frames \in [Account -> Keyframes]
  <2>1. frames = [a \in Account |-> frames[a]]
    BY DEF Init
  <2> QED
    BY <1>2, <1>3, <2>1
<1>7. OneJob /\ UpdatesCurrent /\ SeedsKept /\ AccountsTrade /\ MissedUpwards
  BY <1>0, <1>1 DEF OneJob, UpdatesCurrent, SeedsKept, AccountsTrade, MissedUpwards
<1>8. \A r \in Runner : JobSane(r, jobs[r])
  BY <1>0, <1>1 DEF JobSane, Busy, Rewriting
<1> QED
  BY <1>0, <1>1, <1>5, <1>6, <1>7, <1>8 DEF SnapInv, Control, WritesAnswered, DeletedFrom

\* A step that leaves the activities, the events, the jobs, the keyframes and
\* the lost days alone.
LEMMA QuietSnap ==
    ASSUME SnapInv, ListInv', UpdatesCurrent', InFlight' = InFlight,
           UNCHANGED <<activities, jobs, frames, missed>>
    PROVE  SnapInv'
<1>1. \A r \in Runner : Answered(r)' = Answered(r)
  BY DEF Answered
<1>2. Owed' = Owed /\ DirectlyOwed' = DirectlyOwed
  BY DEF Owed, DirectlyOwed
<1>3. Waiting' = Waiting /\ DirectlyWaiting' = DirectlyWaiting /\ Lost' = Lost /\ Pulling' = Pulling
  BY <1>1 DEF Waiting, DirectlyWaiting, Lost, Pulling, Runner
<1>4. \A a : Coming(a)' = Coming(a)
  BY DEF Coming
<1>5. \A a \in Account, d \in Day : ReplayAt(a, d)' /\ HeldAt(a, d)'
  BY <1>2, <1>3, <1>4 DEF SnapInv, ReplayAt, HeldAt
<1>6. /\ OneJob' /\ AccountsTrade' /\ MissedUpwards' /\ \A r \in Runner : JobSane(r, jobs'[r])
      /\ SeedsKept'
  BY <1>3 DEF SnapInv, Control, OneJob, AccountsTrade, MissedUpwards, Trading, SeedsKept
<1>7. WritesAnswered' /\ DeletedFrom'
  BY <1>1, <1>2 DEF SnapInv, WritesAnswered, DeletedFrom
<1> QED
  BY <1>5, <1>6, <1>7 DEF SnapInv, Control

\* An edit asks for the days it changes.
LEMMA EditSnap ==
    ASSUME Cases = {}, SnapInv, ListInv', Edit
    PROVE  SnapInv'
<1>0. TypeInv /\ UpdatesCurrent /\ Plain /\ InFlight \subseteq Event /\ ListInv
  BY DEF SnapInv, Control, ListInv, TypeInv, Plain
<1>1. /\ frames' = frames /\ UpdatesCurrent'
      /\ \/ CoveredEdit
         \/ Pulled
         \/ UNCHANGED <<activities, unsent, channel, pending, jobs, missed>>
  BY <1>0, EditCovered
<1>2. CASE UNCHANGED <<activities, unsent, channel, pending, jobs, missed>>
  BY <1>1, <1>2, QuietSnap DEF InFlight
<1>3. ASSUME CoveredEdit \/ Pulled
      PROVE  /\ jobs' = jobs /\ missed' = missed /\ Lost' = Lost
             /\ \A a : Coming(a)' = Coming(a)
             /\ OneJob' /\ MissedUpwards' /\ DeletedFrom'
             /\ \A r \in Runner : JobSane(r, jobs'[r])
  <2>1. jobs' = jobs /\ missed' = missed
    BY <1>3 DEF CoveredEdit, Pulled, Commits
  <2> QED
    BY <1>1, <2>1 DEF SnapInv, Control, OneJob, MissedUpwards, Coming, Lost, DeletedFrom
<1>4. CASE Pulled
  <2>1. /\ InFlight' = InFlight \union {DeviceSyncPullComplete}
        /\ InFlight \subseteq {DeviceSyncPullComplete}
    BY <1>0, <1>4 DEF Pulled, Commits, InFlight, Plain
  <2>2. DeviceSyncPullComplete \in InFlight'
    BY <2>1
  <2>3. Cell \subseteq DirectlyOwed' /\ Cell \subseteq Owed'
    BY <2>2 DEF DirectlyOwed, Owed, Asks, Reaches, Directly, DeviceSyncPullComplete
  <2>4. Pulling' /\ AccountsTrade' /\ SeedsKept'
    BY <2>1, <2>2 DEF Pulling, AccountsTrade, Trading, DeviceSyncPullComplete, SeedsKept, SeedKept
  <2>5. \A a \in Account, d \in Day : ReplayAt(a, d)' /\ HeldAt(a, d)'
    BY <2>3 DEF ReplayAt, HeldAt, Cell
  <2>6. WritesAnswered'
    <3>1. \A r \in Runner : jobs'[r].todo \subseteq Account
      BY <1>3, <1>4 DEF SnapInv, Control, JobSane, ListInv, TypeInv, JobOK
    <3>2. \A a \in Account, d \in Day : <<a, d>> \in DirectlyOwed'
      BY <2>3 DEF Cell
    <3> QED
      BY <3>1, <3>2 DEF WritesAnswered
  <2> QED
    BY <1>1, <1>3, <1>4, <2>4, <2>5, <2>6 DEF SnapInv, Control
<1>5. CASE CoveredEdit
  <2>1. PICK e \in Event : /\ Commits(e) /\ Dated(e) /\ Covers(e)
                           /\ Admitted(activities', e.since) /\ Trading(activities', e)
    BY <1>5 DEF CoveredEdit
  <2>2. InFlight' = InFlight \union {e} /\ jobs' = jobs
    BY <2>1 DEF Commits, InFlight
  <2>3. ASSUME NEW a, NEW s, NEW d, Reaches(activities, a, s, d) PROVE Reaches(activities', a, s, d)
    BY <1>0, <2>1, <2>3, ReachesGrows
  <2>4. Owed \subseteq Owed'
    BY <2>2, <2>3 DEF Owed, Asks
  <2>5. DirectlyOwed \subseteq DirectlyOwed'
    BY <2>2 DEF DirectlyOwed
  <2>6. \A r \in Runner : Answered(r) \subseteq Answered(r)'
    BY <2>2, <2>3 DEF Answered, Answers
  <2>7. Waiting \subseteq Waiting' /\ DirectlyWaiting' = DirectlyWaiting
    BY <2>2, <2>6 DEF Waiting, DirectlyWaiting, Runner
  <2>8. ASSUME NEW a \in Account, NEW d \in Day PROVE ReplayAt(a, d)' /\ HeldAt(a, d)'
    <3>1. /\ <<a, d>> \notin DirectlyOwed' => Held(activities', a, d) = Held(activities, a, d)
          /\ <<a, d>> \notin Owed' => Replay(activities', a, d) = Replay(activities, a, d)
      BY <1>0, <2>1, EditKeeps
    <3>2. ReplayAt(a, d) /\ HeldAt(a, d)
      BY DEF SnapInv
    <3>3. ReplayAt(a, d)'
      BY <1>3, <1>5, <2>4, <2>7, <3>1, <3>2 DEF ReplayAt
    <3>4. HeldAt(a, d)'
      BY <1>3, <1>5, <2>5, <2>7, <3>1, <3>2 DEF HeldAt
    <3> QED
      BY <3>3, <3>4
  <2>9. WritesAnswered'
    BY <2>2, <2>5, <2>6 DEF SnapInv, WritesAnswered
  <2>10. AccountsTrade'
    <3>1. \A a \in Account : Of(activities, a) # {} => Of(activities', a) # {}
      BY <2>1 DEF Admitted
    <3>2. \A f \in InFlight : f.accounts \subseteq Account
      BY <1>0 DEF Event
    <3>3. \A f \in InFlight' : Trading(activities', f)
      BY <2>1, <2>2, <3>1, <3>2 DEF SnapInv, Control, AccountsTrade, Trading
    <3>4. Pulling => Pulling'
      BY <2>2 DEF Pulling
    <3>5. jobs[Worker].accounts \subseteq Account
      BY DEF SnapInv, Control, JobSane, Runner
    <3> QED
      BY <2>2, <3>1, <3>3, <3>4, <3>5 DEF SnapInv, Control, AccountsTrade
  <2>11. SeedsKept'
    <3>1. SeedKept(e.since)
      BY <2>1 DEF Admitted, SeedKept
    <3> QED
      BY <2>2, <3>1 DEF SnapInv, Control, SeedsKept
  <2> QED
    BY <1>1, <1>3, <1>5, <2>8, <2>9, <2>10, <2>11 DEF SnapInv, Control
<1> QED
  BY <1>1, <1>2, <1>4, <1>5

\* A job that starts while none runs takes up what leaves the queue.
LEMMA StartSnap ==
    ASSUME Cases = {}, SnapInv, ListInv', NEW r \in Runner, NEW k, MayStart(r),
           jobs' = [jobs EXCEPT ![r] = k],
           k.stage = "planned", k.todo = {}, k.cleanup = {}, JobSane(r, k),
           k.mode = "since" => Pulling' \/ \A a \in k.accounts : Of(activities, a) # {},
           InFlight' \subseteq InFlight,
           UNCHANGED <<activities, updating, frames, missed>>,
           Owed \subseteq Owed' \union Waiting',
           DirectlyOwed \subseteq DirectlyOwed' \union DirectlyWaiting'
    PROVE  SnapInv'
<1>0. /\ DOMAIN jobs = Runner /\ Worker \in Runner
      /\ \A q \in Runner : jobs[q].stage = "idle"
      /\ \A q \in Runner : JobSane(q, jobs[q])
  BY DEF MayStart, SnapInv, Control, ListInv, TypeInv, Runner
<1>1. \A q \in Runner : jobs'[q] = IF q = r THEN k ELSE jobs[q]
  BY <1>0
<1>2. \A q \in Runner : /\ jobs[q].todo = {} /\ ~Busy(jobs[q]) /\ jobs[q].cleanup = {}
                        /\ jobs'[q].todo = {} /\ ~Busy(jobs'[q]) /\ jobs'[q].cleanup = {}
  BY <1>0, <1>1 DEF JobSane, Busy, Rewriting
<1>3. \A a : Coming(a) = frames[a] /\ Coming(a)' = frames[a]
  BY <1>2 DEF Coming, ComingIn
<1>4. Lost = missed /\ Lost' = missed
  BY <1>2 DEF Lost, LostIn
<1>5. Waiting = {} /\ DirectlyWaiting = {}
  BY <1>0 DEF Waiting, DirectlyWaiting
<1>6. \A a \in Account, d \in Day : ReplayAt(a, d)' /\ HeldAt(a, d)'
  BY <1>3, <1>4, <1>5 DEF SnapInv, ReplayAt, HeldAt
<1>7. OneJob'
  BY <1>0, <1>1 DEF OneJob
<1>8. \A q \in Runner : JobSane(q, jobs'[q])
  BY <1>0, <1>1
<1>9. AccountsTrade'
  <2>1. \A e \in InFlight' : Trading(activities', e)
    BY DEF SnapInv, Control, AccountsTrade, Trading
  <2>2. CASE r = Worker
    BY <1>0, <1>1, <1>2, <2>1, <2>2 DEF AccountsTrade
  <2>3. CASE r # Worker
    <3>1. jobs'[Worker] = jobs[Worker] /\ jobs[Worker].mode = "full"
      BY <1>0, <1>1, <2>3 DEF JobSane
    <3> QED
      BY <1>2, <2>1, <3>1 DEF AccountsTrade
  <2> QED
    BY <2>2, <2>3
<1>10. UpdatesCurrent' /\ MissedUpwards' /\ frames' \in [Account -> Keyframes] /\ SeedsKept'
  BY DEF SnapInv, Control, UpdatesCurrent, MissedUpwards, SeedsKept
<1>11. WritesAnswered' /\ DeletedFrom'
  <2>1. \A q \in Runner : jobs'[q].saving = {}
    BY <1>2 DEF ListInv, TypeInv, JobOK
  <2> QED
    BY <1>2, <2>1 DEF WritesAnswered, DeletedFrom
<1> QED
  BY <1>6, <1>7, <1>8, <1>9, <1>10, <1>11 DEF SnapInv, Control

LEMMA BatchSnap ==
    ASSUME Cases = {}, SnapInv, ListInv', ProcessBatch
    PROVE  SnapInv'
<1> DEFINE since == PlanSince(pending)
           k == [IdleJob EXCEPT !.stage = "planned",
                            !.mode = IF since = 0 THEN "full" ELSE "since",
                            !.accounts = PlanAccounts(pending),
                            !.since = since]
<1>0. /\ ListInv /\ TypeInv /\ pending \subseteq InFlight /\ pending \in SUBSET Event
      /\ pending # {} /\ Worker \in Runner /\ DOMAIN jobs = Runner
      /\ activities \in Book
      /\ \A a \in Account : SplitDays(activities, a) \subseteq Day
  <2>1. activities \in Book
    BY DEF SnapInv, Control, ListInv, TypeInv, Book
  <2> QED
    BY <2>1, BookDays DEF SnapInv, Control, ListInv, TypeInv, InFlight, ProcessBatch, Runner
<1>1. /\ k.stage = "planned" /\ k.mode = (IF since = 0 THEN "full" ELSE "since")
      /\ k.accounts = PlanAccounts(pending) /\ k.since = since
      /\ k.todo = {} /\ k.cleanup = {} /\ k.saving = {} /\ k.failed = FALSE
      /\ k.start = [a \in Account |-> Never]
  BY DEF IdleJob
<1>2. /\ jobs' = [jobs EXCEPT ![Worker] = k] /\ MayStart(Worker)
      /\ InFlight' \subseteq InFlight /\ InFlight \subseteq InFlight' \union pending
      /\ UNCHANGED <<activities, updating, frames, missed>>
  BY DEF ProcessBatch, InFlight
<1>3. jobs'[Worker] = k
  BY <1>0, <1>2
<1> DEFINE dated == {f.since : f \in pending} \ {0}
<1>4. /\ dated = {} => since = 0
      /\ dated # {} => since \in dated /\ \A d \in dated : since <= d
  BY <1>0, PlanLeast
<1>5. since = 0 \/ since \in Day
  <2>1. \A f \in pending : f.since \in 0..Today
    BY <1>0 DEF Event
  <2>2. dated \subseteq Day
    BY <2>1, RecalcAssumption DEF Day
  <2> QED
    BY <1>4, <2>2
<1>6. PlanAccounts(pending) \subseteq Account
  <2>1. \A e \in pending : e.accounts \subseteq Account
    BY <1>0 DEF Event
  <2>2. UNION {e.accounts : e \in pending} \subseteq Account
    BY <2>1
  <2> QED
    BY <2>2 DEF PlanAccounts
<1>13. SeedKept(since)
  <2>1. \A f \in pending : SeedKept(f.since)
    BY <1>0 DEF SnapInv, Control, SeedsKept
  <2>2. SeedKept(0)
    BY DEF SeedKept
  <2> QED
    BY <1>4, <2>1, <2>2
<1> HIDE DEF k, since
<1>7. JobSane(Worker, k)
  BY <1>1, <1>5, <1>6, <1>13 DEF JobSane, Busy, Rewriting
<1>8. \A e \in pending : e.accounts = {} => e.since = 0 /\ since = 0
  <2> SUFFICES ASSUME NEW e \in pending, e.accounts = {} PROVE e.since = 0 /\ since = 0
    OBVIOUS
  <2>1. InFlight \subseteq {DeviceSyncPullComplete}
    BY <1>0 DEF ListInv, Unmixed, Dated
  <2>2. \A f \in pending : f.since = 0
    BY <1>0, <2>1 DEF DeviceSyncPullComplete
  <2> QED
    BY <1>4, <2>2
<1>9. k.mode = "since" => \A a \in k.accounts : Of(activities, a) # {}
  <2> SUFFICES ASSUME k.mode = "since", NEW a \in PlanAccounts(pending)
               PROVE  Of(activities, a) # {}
    BY <1>1
  <2>1. \A e \in pending : e.accounts # {}
    BY <1>1, <1>8
  <2>2. PICK e \in pending : a \in e.accounts
    BY <1>0, <2>1 DEF PlanAccounts
  <2> QED
    BY <1>0, <2>2 DEF SnapInv, Control, AccountsTrade, Trading
<1>10. ASSUME NEW e \in pending, NEW a \in Account, NEW d \in Day,
              e.accounts = {} \/ a \in e.accounts
       PROVE  /\ a \in k.accounts
              /\ since = 0 \/ (since \in Int /\ e.since \in Int /\ since <= e.since /\ e.since # 0)
  <2>1. CASE e.accounts = {}
    <3>1. InFlight \subseteq {DeviceSyncPullComplete}
      BY <1>0, <2>1 DEF ListInv, Unmixed, Dated
    <3>2. UNION {f.accounts : f \in pending} = {}
      BY <1>0, <3>1 DEF DeviceSyncPullComplete
    <3> QED
      BY <1>1, <1>8, <2>1, <3>2 DEF PlanAccounts
  <2>2. CASE e.accounts # {}
    <3>1. a \in k.accounts
      BY <1>1, <1>10, <2>2 DEF PlanAccounts
    <3>2. ~(InFlight \subseteq {DeviceSyncPullComplete})
      BY <1>0, <2>2 DEF DeviceSyncPullComplete
    <3>3. Dated(e)
      BY <1>0, <3>2 DEF ListInv, Unmixed
    <3>4. e.since \in Day /\ e.since \in Int /\ e.since # 0
      BY <3>3, RecalcAssumption DEF Dated, Day
    <3>5. since <= e.since /\ since \in dated
      BY <1>4, <3>4
    <3>6. since \in Int
      BY <1>5, RecalcAssumption DEF Day
    <3> QED
      BY <3>1, <3>4, <3>5, <3>6
  <2> QED
    BY <2>1, <2>2
<1>11. Owed \subseteq Owed' \union Waiting'
  <2> SUFFICES ASSUME NEW c \in Owed, c \notin Owed' PROVE c \in Waiting'
    OBVIOUS
  <2>1. PICK e \in InFlight : Asks(activities, e, c)
    BY DEF Owed
  <2>2. c \in Cell /\ c[1] \in Account /\ c[2] \in Day
    BY DEF Owed, Cell
  <2>3. e \in pending
    BY <1>2, <2>1, <2>2 DEF Owed
  <2>4. c[1] \in PlanAccounts(pending) /\ Reaches(activities, c[1], PlanSince(pending), c[2])
    BY <1>0, <2>1, <2>2, <2>3, BatchCovers
  <2>5. Answers(activities, Worker, k, c)
    BY <1>1, <2>4 DEF Answers, since
  <2>6. jobs'[Worker] = k /\ activities' = activities
    BY <1>2, <1>3
  <2> QED
    BY <1>1, <2>2, <2>5, <2>6 DEF Waiting, Answered
<1>12. DirectlyOwed \subseteq DirectlyOwed' \union DirectlyWaiting'
  <2> SUFFICES ASSUME NEW c \in DirectlyOwed, c \notin DirectlyOwed' PROVE c \in DirectlyWaiting'
    OBVIOUS
  <2>1. PICK e \in InFlight : (e.accounts = {} \/ c[1] \in e.accounts) /\ Directly(e.since, c[2])
    BY DEF DirectlyOwed
  <2>2. c \in Cell /\ c[1] \in Account /\ c[2] \in Day /\ c[2] \in Int
    BY RecalcAssumption DEF DirectlyOwed, Cell, Day
  <2>3. e \in pending
    BY <1>2, <2>1, <2>2 DEF DirectlyOwed
  <2>4. /\ c[1] \in k.accounts
        /\ since = 0 \/ (since \in Int /\ e.since \in Int /\ since <= e.since /\ e.since # 0)
    BY <1>10, <2>1, <2>2, <2>3
  <2>5. Directly(since, c[2])
    BY <2>1, <2>2, <2>4 DEF Directly
  <2> QED
    BY <1>1, <1>3, <2>2, <2>4, <2>5 DEF DirectlyWaiting
<1> QED
  BY <1>0, <1>1, <1>2, <1>7, <1>9, <1>11, <1>12, StartSnap

LEMMA CallSnap ==
    ASSUME Cases = {}, SnapInv, ListInv', NEW c \in Caller, NEW accounts \in SUBSET Account,
           NEW mode \in {"full", "incremental"}, StartCall(c, mode, accounts), c # Worker
    PROVE  SnapInv'
<1> DEFINE k == [IdleJob EXCEPT !.stage = "planned", !.mode = mode, !.accounts = accounts]
<1>1. /\ k.stage = "planned" /\ k.mode = mode /\ k.accounts = accounts
      /\ k.todo = {} /\ k.cleanup = {} /\ k.failed = FALSE
      /\ k.start = [a \in Account |-> Never]
  BY DEF IdleJob
<1>2. /\ jobs' = [jobs EXCEPT ![c] = k] /\ MayStart(c) /\ c \in Runner
      /\ InFlight' = InFlight /\ UNCHANGED <<activities, updating, frames, missed>>
  BY DEF StartCall, InFlight, Runner
<1> HIDE DEF k
<1>3. JobSane(c, k)
  BY <1>1 DEF JobSane, Busy, Rewriting
<1>4. Owed' = Owed /\ DirectlyOwed' = DirectlyOwed
  BY <1>2 DEF Owed, DirectlyOwed
<1> QED
  BY <1>1, <1>2, <1>3, <1>4, StartSnap

-----------------------------------------------------------------------------
(***************************************************************************)
(* The read of a job.                                                      *)
(***************************************************************************)
\* Before it nothing is being written, and only the worker's plan is waited for.
LEMMA BeforeRead ==
    ASSUME SnapInv, NEW r \in Runner, jobs[r].stage = "planned"
    PROVE  /\ \A a : Coming(a) = frames[a]
           /\ Lost = missed
           /\ Waiting \subseteq Answered(r)
           /\ r # Worker => Waiting = {} /\ DirectlyWaiting = {}
           /\ \A c \in DirectlyWaiting : /\ c[1] \in jobs[r].accounts
                                         /\ Directly(jobs[r].since, c[2])
<1>1. Control /\ Worker \in Runner /\ jobs[r].stage # "idle"
  BY DEF SnapInv, Runner
<1>2. \A q \in Runner : q # r => jobs[q].stage = "idle" /\ jobs[q].todo = {} /\ ~Busy(jobs[q])
  BY <1>1, OthersIdle
<1>3. jobs[r].todo = {} /\ ~Busy(jobs[r])
  BY <1>1 DEF Control, JobSane, Busy, Rewriting
<1>4. \A q \in Runner : jobs[q].todo = {} /\ ~Busy(jobs[q])
  BY <1>2, <1>3
<1>5. \A a : Coming(a) = frames[a]
  BY <1>4 DEF Coming, ComingIn
<1>6. Lost = missed
  BY <1>4 DEF Lost, LostIn
<1>7. r # Worker => jobs[Worker].stage = "idle"
  BY <1>1, <1>2
<1>8. /\ r # Worker => Waiting = {} /\ DirectlyWaiting = {}
      /\ r = Worker => Waiting \subseteq Answered(r)
      /\ \A c \in DirectlyWaiting : r = Worker =>
            c[1] \in jobs[r].accounts /\ Directly(jobs[r].since, c[2])
  BY <1>7 DEF Waiting, DirectlyWaiting
<1> QED
  BY <1>5, <1>6, <1>8

\* Where a recalculation from a day on starts, and how far back it reaches.
LEMMA SinceStarts ==
    ASSUME NEW acts \in Book, NEW a, NEW f, NEW j, j.mode = "since", j.since \in Day
    PROVE  /\ Of(acts, a) # {} => StartDay(acts, j, f, a) # Never
           /\ Of(acts, a) # {} => StartDay(acts, j, f, a) <= j.since
           /\ Of(acts, a) # {} /\ StartDay(acts, j, f, a) # j.since
                => \E k \in SplitDays(acts, a) : k >= j.since
<1>0. \A k \in Day : k \in Int /\ k # Never /\ k <= k
  BY RecalcAssumption DEF Day, Never
<1>1. ResumeDay(acts, j, f, a) = j.since
  BY DEF ResumeDay
<1> SUFFICES ASSUME Of(acts, a) # {}
             PROVE  /\ StartDay(acts, j, f, a) # Never
                    /\ StartDay(acts, j, f, a) <= j.since
                    /\ StartDay(acts, j, f, a) # j.since
                        => \E k \in SplitDays(acts, a) : k >= j.since
  OBVIOUS
<1>2. First(acts, a) \in Day
  BY FirstIsFirst
<1>3. CASE RestartsForSplit(acts, j, f, a)
  <2>1. /\ StartDay(acts, j, f, a) = First(acts, a)
        /\ First(acts, a) < j.since
        /\ \E k \in SplitDays(acts, a) : k >= j.since
    BY <1>1, <1>3 DEF StartDay, RestartsForSplit
  <2> QED
    BY <1>0, <1>2, <2>1
<1>4. CASE ~RestartsForSplit(acts, j, f, a)
  BY <1>0, <1>1, <1>4 DEF StartDay
<1> QED
  BY <1>3, <1>4

\* A calculation of a full job leaves nothing before its first day.
LEMMA NothingBefore ==
    ASSUME NEW out, NEW s \in Day, NEW d \in Day, d < s,
           \A k \in Day : k < s => out[k] = NoFrame
    PROVE  KeyDays(out, d) = {} /\ Shown(out, d, Empty) = Empty
<1>0. \A k \in Day : k \in Int
  BY RecalcAssumption DEF Day
<1>1. \A k \in Day : k <= d => out[k] = NoFrame
  <2> SUFFICES ASSUME NEW k \in Day, k <= d PROVE k < s
    OBVIOUS
  <2>1. k \in Int /\ d \in Int /\ s \in Int
    BY <1>0
  <2> QED
    BY <2>1
<1>2. KeyDays(out, d) = {}
  BY <1>1 DEF KeyDays
<1> QED
  BY <1>2, ShownAt

\* The read of a job for an account: where it begins, from what, and that the
\* keyframes computed begin there too.
LEMMA ReadBegins ==
    ASSUME SnapInv, NEW r \in Runner, jobs[r].stage = "planned", NEW a \in Account,
           NEW s, s = StartDay(activities, jobs[r], frames[a], a), s # Never,
           NEW out, out = Computed(activities, jobs[r], frames[a], a),
           NEW seed, seed = IF FromDayBefore(activities, jobs[r], frames[a], a, s)
                            THEN Shown(frames[a], s - 1, Empty) ELSE Empty
    PROVE  /\ s \in Day /\ s \in Int
           /\ \/ FromScratch(activities, jobs[r], frames[a], a, s)
              \/ FromNoKeyframe(activities, jobs[r], frames[a], a, s)
              \/ FromDayBefore(activities, jobs[r], frames[a], a, s)
           /\ seed \in Amounts /\ out = Calculate(activities, a, s, seed)
           /\ out \in Keyframes /\ out[s] # NoFrame
           /\ \A k \in Day : k < s => out[k] = NoFrame
<1> DEFINE j == jobs[r]
           f == frames[a]
<1>0. /\ activities \in Book /\ f \in Keyframes
      /\ j.mode \in {"full", "since", "incremental"}
      /\ j.mode = "since" => j.since \in Day
      /\ \A k \in Day : k \in Int
  <2>1. \A k \in Day : k \in Int
    BY RecalcAssumption DEF Day
  <2>2. JobSane(r, j) /\ JobOK(j) /\ activities \in Book /\ f \in Keyframes
    BY DEF SnapInv, Control, ListInv, TypeInv, Book
  <2> QED
    BY <2>1, <2>2 DEF JobOK, JobSane
<1>1. s = StartDay(activities, j, f, a) /\ out = Computed(activities, j, f, a)
      /\ seed = IF FromDayBefore(activities, j, f, a, s) THEN Shown(f, s - 1, Empty) ELSE Empty
  OBVIOUS
<1> SUFFICES /\ s \in Day
             /\ \/ FromScratch(activities, j, f, a, s)
                \/ FromNoKeyframe(activities, j, f, a, s)
                \/ FromDayBefore(activities, j, f, a, s)
             /\ seed \in Amounts /\ out = Calculate(activities, a, s, seed)
             /\ out \in Keyframes /\ out[s] # NoFrame
             /\ \A k \in Day : k < s => out[k] = NoFrame
  BY <1>0
<1> HIDE DEF j, f
<1>2. /\ s \in Day
      /\ \/ FromScratch(activities, j, f, a, s)
         \/ FromNoKeyframe(activities, j, f, a, s)
         \/ FromDayBefore(activities, j, f, a, s)
  BY <1>0, <1>1, StartKinds
<1>3. out = Calculate(activities, a, s, seed)
  BY <1>1, <1>2 DEF FromScratch, FromNoKeyframe, FromDayBefore
<1>4. seed \in Amounts
  <2>1. CASE FromDayBefore(activities, j, f, a, s)
    <3>1. /\ Shown(f, s - 1, Empty) = f[LatestDay(f, s - 1)]
          /\ LatestDay(f, s - 1) \in Day /\ f[LatestDay(f, s - 1)] # NoFrame
      BY <2>1, ShownAt DEF FromDayBefore
    <3> QED
      BY <1>0, <1>1, <2>1, <3>1 DEF Keyframes
  <2>2. CASE ~FromDayBefore(activities, j, f, a, s)
    BY <1>0, <1>1, <2>2, TradedTyped
  <2> QED
    BY <2>1, <2>2
<1>5. out \in Keyframes /\ out[s] # NoFrame /\ \A k \in Day : k < s => out[k] = NoFrame
  BY <1>0, <1>2, <1>3, <1>4, CalculateTyped
<1> QED
  BY <1>2, <1>3, <1>4, <1>5

\* What a job has read and computed for an account is right for every day that
\* is not asked for again and not lost for good, and leaves the account with a
\* keyframe for what it holds.
LEMMA ReadRight ==
    ASSUME SnapInv, NEW r \in Runner, jobs[r].stage = "planned",
           NEW a \in Account, a \in jobs[r].accounts, NEW d \in Day,
           NEW s, s = StartDay(activities, jobs[r], frames[a], a), s # Never,
           NEW out, out = Computed(activities, jobs[r], frames[a], a),
           NEW g, g = IF jobs[r].mode = "full" THEN out ELSE Save(DeleteFrom(frames[a], s), out),
           \/ <<a, d>> \notin missed
           \/ jobs[r].mode = "full"
           \/ jobs[r].mode = "since" /\ \A b \in Day : <<a, b>> \in missed => b >= s
    PROVE  /\ s \in Day /\ out \in Keyframes /\ out[s] # NoFrame
           /\ \A k \in Day : k < s => out[k] = NoFrame
           /\ KeptIn(g, d) /\ <<a, d>> \notin Owed =>
                Shown(g, d, Empty) = Replay(activities, a, d)
           /\ KeptIn(g, d) /\ <<a, d>> \notin DirectlyOwed =>
                IF Held(activities, a, d) = {}
                THEN Shown(g, d, Empty) = Empty
                ELSE KeyDays(g, d) # {}
<1> DEFINE j == jobs[r]
           f == frames[a]
           c == <<a, d>>
           b == <<a, s - 1>>
<1>0. /\ Control /\ activities \in Book /\ InFlight \subseteq Event /\ f \in Keyframes
      /\ JobSane(r, j) /\ JobOK(j)
      /\ \A k \in Day : k \in Int /\ 1 <= k
      /\ d \in Int
  <2>1. \A k \in Day : k \in Int /\ 1 <= k
    BY RecalcAssumption DEF Day
  <2> QED
    BY <2>1 DEF SnapInv, Control, ListInv, TypeInv, Book
<1>1. /\ Coming(a) = f /\ Lost = missed
      /\ Waiting \subseteq Answered(r)
      /\ r # Worker => Waiting = {} /\ DirectlyWaiting = {}
      /\ \A e \in DirectlyWaiting : Directly(j.since, e[2])
  BY BeforeRead
<1>2. /\ j.mode \in {"full", "since", "incremental"}
      /\ j.mode = "since" => r = Worker /\ j.since \in Day /\ j.since # 0
      /\ j.mode = "incremental" => r # Worker
  BY <1>0 DEF JobOK, JobSane
<1> DEFINE seed == IF FromDayBefore(activities, j, f, a, s) THEN Shown(f, s - 1, Empty) ELSE Empty
<1>3. /\ s \in Day /\ s \in Int
      /\ \/ FromScratch(activities, j, f, a, s)
         \/ FromNoKeyframe(activities, j, f, a, s)
         \/ FromDayBefore(activities, j, f, a, s)
  BY ReadBegins
<1>5. seed \in Amounts /\ out = Calculate(activities, a, s, seed)
  BY ReadBegins
<1>6. out \in Keyframes /\ out[s] # NoFrame /\ \A k \in Day : k < s => out[k] = NoFrame
  BY ReadBegins
<1>4. j.mode = "since" => s <= j.since /\ j.since \in Int
  <2> SUFFICES ASSUME j.mode = "since" PROVE s <= j.since /\ j.since \in Int
    OBVIOUS
  <2>1. Of(activities, a) # {}
    BY DEF StartDay
  <2> QED
    BY <1>0, <1>2, <2>1, SinceStarts
<1> HIDE DEF seed
<1>7. /\ d >= s => /\ KeyDays(g, d) # {}
                   /\ Shown(g, d, Empty) = Plus(seed, Traded(activities, a, s, d))
      /\ d < s /\ j.mode # "full" => /\ KeyDays(g, d) = KeyDays(f, d)
                                     /\ Shown(g, d, Empty) = Shown(f, d, Empty)
      /\ d < s /\ j.mode = "full" => Shown(g, d, Empty) = Empty
  <2>1. d >= s => Shown(out, d, Empty) = Plus(seed, Traded(activities, a, s, d))
    <3>1. d >= s => s <= d
      BY <1>0, <1>3
    <3> QED
      BY <1>0, <1>3, <1>5, <3>1, CalculateShows
  <2>2. CASE j.mode = "full"
    <3>1. d >= s => s \in KeyDays(out, d)
      BY <1>0, <1>3, <1>6 DEF KeyDays
    <3>2. d < s => Shown(out, d, Empty) = Empty
      BY <1>3, <1>6, NothingBefore
    <3> QED
      BY <2>1, <2>2, <3>1, <3>2
  <2>3. CASE j.mode # "full"
    <3>1. g = Save(DeleteFrom(f, s), out)
      BY <2>3
    <3> HIDE DEF f, j
    <3>2. /\ d < s => /\ KeyDays(g, d) = KeyDays(f, d)
                      /\ \A none : Shown(g, d, none) = Shown(f, d, none)
          /\ d >= s => /\ KeyDays(g, d) # {}
                       /\ \A none : Shown(g, d, none) = Shown(out, d, none)
      BY <1>3, <1>6, <3>1, RewriteShows
    <3> QED
      BY <2>1, <2>3, <3>2
  <2> QED
    BY <2>2, <2>3
<1>8. ReplayAt(a, d) /\ HeldAt(a, d)
  BY DEF SnapInv
<1>21. d < s /\ j.mode # "full" /\ KeptIn(g, d) => KeptIn(f, d)
  <2>1. d < s /\ j.mode # "full" => g[d] = f[d]
    <3> SUFFICES ASSUME d < s, j.mode # "full" PROVE g[d] = f[d]
      OBVIOUS
    <3>1. g = Save(DeleteFrom(f, s), out) /\ out[d] = NoFrame
      BY <1>6
    <3> HIDE DEF f, j
    <3> QED
      BY <3>1 DEF Save, DeleteFrom
  <2> QED
    BY <2>1 DEF KeptIn
\* The day a calculation resumes from is one the prune leaves as it is.
<1>22. ASSUME s # 1, \/ FromNoKeyframe(activities, j, f, a, s)
                      \/ FromDayBefore(activities, j, f, a, s)
       PROVE  KeptIn(f, s - 1)
  <2>1. CASE j.mode = "since"
    <3>1. s = j.since /\ SeedKept(j.since)
      BY <1>0, <1>22, <2>1 DEF FromNoKeyframe, FromDayBefore, JobSane
    <3>2. s # 0
      BY <1>3, RecalcAssumption DEF Day
    <3> QED
      BY <1>22, <3>1, <3>2 DEF SeedKept, KeptIn
  <2>2. CASE j.mode # "since"
    BY <1>2, <1>22, <2>2 DEF FromNoKeyframe, FromDayBefore, KeptIn
  <2> QED
    BY <2>1, <2>2
\* The day before the first: nothing is wrong with it that is not wrong with d.
<1>9. ASSUME s # 1, s <= d, j.mode # "full"
      PROVE  /\ s - 1 \in Day /\ s - 1 \in Int
             /\ c \notin Owed => b \notin Owed
             /\ c \notin DirectlyOwed => b \notin DirectlyOwed
             /\ b \notin missed /\ b \notin DirectlyWaiting
             /\ ReplayAt(a, s - 1) /\ HeldAt(a, s - 1)
  <2>1. s - 1 \in Day /\ s - 1 \in Int /\ s - 1 <= d
    BY <1>0, <1>3, <1>9, RecalcAssumption DEF Day
  <2>2. /\ c \notin Owed => b \notin Owed
        /\ c \notin DirectlyOwed => b \notin DirectlyOwed
    BY <1>0, <2>1, OwedUpwards
  <2>3. b \notin missed
    <3> SUFFICES ASSUME b \in missed PROVE FALSE
      OBVIOUS
    <3>1. c \in missed
      BY <1>0, <2>1 DEF Control, MissedUpwards
    <3>2. \A x \in Day : <<a, x>> \in missed => x >= s
      BY <1>9, <3>1
    <3>3. s - 1 >= s
      BY <2>1, <3>2
    <3> QED
      BY <1>3, <3>3
  <2>4. b \notin DirectlyWaiting
    <3> SUFFICES ASSUME b \in DirectlyWaiting PROVE FALSE
      OBVIOUS
    <3>1. r = Worker /\ Directly(j.since, s - 1)
      BY <1>1
    <3>2. j.mode = "since"
      BY <1>2, <1>9, <3>1
    <3>3. s - 1 >= j.since /\ s <= j.since /\ j.since \in Int
      BY <1>2, <1>4, <3>1, <3>2 DEF Directly
    <3> QED
      BY <1>3, <3>3
  <2>5. ReplayAt(a, s - 1) /\ HeldAt(a, s - 1)
    BY <2>1 DEF SnapInv
  <2> QED
    BY <2>1, <2>2, <2>3, <2>4, <2>5
<1>10. ASSUME NEW x \in Day, Held(activities, a, x) = {}
       PROVE  /\ Traded(activities, a, s, x) = Empty
              /\ Replay(activities, a, x) = Empty
  BY <1>0, <1>3, <1>10, NothingHeld
<1>11. FromScratch(activities, j, f, a, s) \/ j.mode # "full"
  BY <1>3 DEF FromNoKeyframe, FromDayBefore
\* The days from s on.
<1>12. ASSUME d >= s, c \notin Owed
       PROVE  Plus(seed, Traded(activities, a, s, d)) = Replay(activities, a, d)
  <2>0. s <= d
    BY <1>0, <1>3, <1>12
  <2>1. CASE FromScratch(activities, j, f, a, s) /\ ~FromDayBefore(activities, j, f, a, s)
    <3>1. seed = Empty
      BY <2>1 DEF seed
    <3>2. \A i \in Of(activities, a) : s <= activities[i].day
      BY <2>1 DEF FromScratch
    <3> QED
      BY <1>0, <1>3, <2>0, <3>1, <3>2, ReplayBegins
  <2>2. CASE FromNoKeyframe(activities, j, f, a, s) /\ ~FromDayBefore(activities, j, f, a, s)
    <3>1. seed = Empty
      BY <2>2 DEF seed
    <3>2. CASE s = 1
      BY <1>0, <1>3, <2>0, <3>1, <3>2, ReplaySplits
    <3>3. CASE s # 1
      <4>1. b \notin DirectlyOwed /\ b \notin DirectlyWaiting /\ b \notin Lost /\ HeldAt(a, s - 1)
            /\ s - 1 \in Day
        <5>1. c \notin DirectlyOwed
          BY <1>0, <1>12, OwedUpwards
        <5>2. j.mode # "full"
          BY <2>2 DEF FromNoKeyframe
        <5> QED
          BY <1>1, <1>9, <2>0, <3>3, <5>1, <5>2
      <4>2. KeyDays(f, s - 1) = {}
        BY <2>2 DEF FromNoKeyframe
      <4>3. Held(activities, a, s - 1) = {}
        BY <1>1, <1>22, <2>2, <3>3, <4>1, <4>2 DEF HeldAt
      <4>4. Replay(activities, a, s - 1) = Empty
        BY <1>10, <4>1, <4>3
      <4> QED
        BY <1>0, <1>3, <2>0, <3>1, <3>3, <4>4, ReplaySplits
    <3> QED
      BY <3>2, <3>3
  <2>3. CASE FromDayBefore(activities, j, f, a, s)
    <3>1. seed = Shown(f, s - 1, Empty) /\ s # 1 /\ j.mode # "full"
      BY <2>3 DEF seed, FromDayBefore
    <3>2. /\ s - 1 \in Day /\ b \notin Owed /\ b \notin DirectlyOwed /\ b \notin DirectlyWaiting
          /\ b \notin Lost /\ ReplayAt(a, s - 1) /\ HeldAt(a, s - 1)
      <4>1. c \notin DirectlyOwed
        BY <1>0, <1>12, OwedUpwards
      <4> QED
        BY <1>1, <1>9, <1>12, <2>0, <3>1, <4>1
    <3>3. ASSUME b \notin Waiting
          PROVE  Plus(seed, Traded(activities, a, s, d)) = Replay(activities, a, d)
      <4>1. Shown(f, s - 1, Empty) = Replay(activities, a, s - 1)
        BY <1>1, <1>22, <2>3, <3>1, <3>2, <3>3 DEF ReplayAt
      <4> QED
        BY <1>0, <1>3, <2>0, <3>1, <4>1, ReplaySplits
    <3>4. CASE b \in Waiting
      <4>1. r = Worker /\ b \in Answered(r)
        BY <1>1, <3>4
      <4>2. j.mode = "since"
        BY <1>2, <3>1, <4>1
      <4>3. Reaches(activities, a, j.since, s - 1)
        BY <4>1 DEF Answered, Answers
      <4>4. /\ s = j.since
            /\ \/ \A k \in SplitDays(activities, a) : ~(k >= s)
               \/ \A i \in Of(activities, a) : s <= activities[i].day
        BY <2>3, <4>2 DEF FromDayBefore
      <4>5. ~(s - 1 >= s)
        BY <1>3
      <4>6. \A i \in Of(activities, a) : s <= activities[i].day
        BY <1>2, <4>2, <4>3, <4>4, <4>5 DEF Reaches
      <4>7. Held(activities, a, s - 1) = {}
        <5>1. s - 1 < s
          BY <1>3
        <5> QED
          BY <1>0, <1>3, <3>2, <4>6, <5>1, ReplayBegins
      <4>8. seed = Empty
        BY <1>1, <1>22, <2>3, <3>1, <3>2, <4>7 DEF HeldAt
      <4> QED
        BY <1>0, <1>3, <2>0, <4>6, <4>8, ReplayBegins
    <3> QED
      BY <3>3, <3>4
  <2> QED
    BY <1>3, <2>1, <2>2, <2>3
<1>13. ASSUME d >= s, c \notin DirectlyOwed, Held(activities, a, d) = {}
       PROVE  Plus(seed, Traded(activities, a, s, d)) = Empty
  <2>0. s <= d
    BY <1>0, <1>3, <1>13
  <2>1. Traded(activities, a, s, d) = Empty
    BY <1>10, <1>13
  <2>2. seed = Empty
    <3>1. CASE ~FromDayBefore(activities, j, f, a, s)
      BY <3>1 DEF seed
    <3>2. CASE FromDayBefore(activities, j, f, a, s)
      <4>1. seed = Shown(f, s - 1, Empty) /\ s # 1 /\ j.mode # "full"
        BY <3>2 DEF seed, FromDayBefore
      <4>2. /\ s - 1 \in Day /\ s - 1 \in Int /\ b \notin DirectlyOwed /\ b \notin DirectlyWaiting
            /\ b \notin Lost /\ HeldAt(a, s - 1)
        BY <1>1, <1>9, <1>13, <2>0, <4>1
      <4>3. Held(activities, a, s - 1) = {}
        <5> SUFFICES ASSUME NEW i \in Held(activities, a, s - 1) PROVE i \in Held(activities, a, d)
          BY <1>13
        <5>1. /\ i \in Of(activities, a) /\ activities[i].kind = "trade"
              /\ activities[i].day <= s - 1
              /\ activities[i].day \in Int
          BY <1>0, BookDays DEF Held
        <5>2. activities[i].day <= d
          BY <1>0, <1>3, <2>0, <5>1
        <5> QED
          BY <5>1, <5>2 DEF Held
      <4> QED
        BY <1>1, <1>22, <3>2, <4>1, <4>2, <4>3 DEF HeldAt
    <3> QED
      BY <3>1, <3>2
  <2>3. Empty \in Amounts
    BY <1>0, TradedTyped
  <2> QED
    BY <2>1, <2>2, <2>3, PlusEmpty
\* The days before s.
<1>14. ASSUME d < s, j.mode = "full"
       PROVE  Held(activities, a, d) = {}
  BY <1>0, <1>3, <1>11, <1>14, ReplayBegins DEF FromScratch
<1>15. ASSUME d < s, j.mode # "full"
       PROVE  c \notin Lost /\ c \notin DirectlyWaiting
  <2>1. c \notin missed
    <3> SUFFICES ASSUME c \in missed PROVE FALSE
      OBVIOUS
    <3>1. d >= s
      BY <1>15
    <3> QED
      BY <1>0, <1>3, <1>15, <3>1
  <2>2. c \notin DirectlyWaiting
    <3> SUFFICES ASSUME c \in DirectlyWaiting PROVE FALSE
      OBVIOUS
    <3>1. r = Worker /\ Directly(j.since, d)
      BY <1>1
    <3>2. j.mode = "since"
      BY <1>2, <1>15, <3>1
    <3>3. d >= j.since /\ s <= j.since /\ j.since \in Int
      BY <1>2, <1>4, <3>1, <3>2 DEF Directly
    <3> QED
      BY <1>0, <1>3, <1>15, <3>3
  <2> QED
    BY <1>1, <2>1, <2>2
<1>16. ASSUME d < s, j.mode # "full", c \notin Owed, KeptIn(f, d)
       PROVE  Shown(f, d, Empty) = Replay(activities, a, d)
  <2>1. c \notin DirectlyOwed
    BY <1>0, <1>16, OwedUpwards
  <2>2. CASE c \notin Waiting
    BY <1>1, <1>8, <1>15, <1>16, <2>2 DEF ReplayAt
  <2>3. CASE c \in Waiting
    <3>1. r = Worker /\ c \in Answered(r)
      BY <1>1, <2>3
    <3>2. j.mode = "since"
      BY <1>2, <1>16, <3>1
    <3>3. Reaches(activities, a, j.since, d)
      BY <3>1 DEF Answered, Answers
    <3>4. IF Held(activities, a, d) = {} THEN Shown(f, d, Empty) = Empty ELSE KeyDays(f, d) # {}
      BY <1>1, <1>8, <1>15, <1>16, <2>1 DEF HeldAt
    <3>5. Held(activities, a, d) = {}
      <4>1. ASSUME \A i \in Of(activities, a) : s <= activities[i].day
            PROVE  Held(activities, a, d) = {}
        BY <1>0, <1>3, <1>16, <4>1, ReplayBegins
      <4>2. CASE FromScratch(activities, j, f, a, s)
        BY <4>1, <4>2 DEF FromScratch
      <4>3. CASE FromNoKeyframe(activities, j, f, a, s)
        <5>1. KeyDays(f, s - 1) = {}
          BY <4>3 DEF FromNoKeyframe
        <5>2. KeyDays(f, d) = {}
          <6> SUFFICES ASSUME NEW k \in KeyDays(f, d) PROVE k \in KeyDays(f, s - 1)
            BY <5>1
          <6>1. k \in Day /\ k <= d /\ f[k] # NoFrame /\ k \in Int
            BY <1>0 DEF KeyDays
          <6>2. k <= s - 1
            BY <1>0, <1>3, <1>16, <6>1
          <6> QED
            BY <6>1, <6>2 DEF KeyDays
        <5> QED
          BY <3>4, <5>2
      <4>4. CASE FromDayBefore(activities, j, f, a, s)
        <5>1. /\ s = j.since
              /\ \/ \A k \in SplitDays(activities, a) : ~(k >= s)
                 \/ \A i \in Of(activities, a) : s <= activities[i].day
          BY <3>2, <4>4 DEF FromDayBefore
        <5>2. ~(d >= s)
          BY <1>0, <1>3, <1>16
        <5>3. \A i \in Of(activities, a) : s <= activities[i].day
          BY <1>2, <3>2, <3>3, <5>1, <5>2 DEF Reaches
        <5> QED
          BY <4>1, <5>3
      <4> QED
        BY <1>3, <4>2, <4>3, <4>4
    <3> QED
      BY <1>10, <3>4, <3>5
  <2> QED
    BY <2>2, <2>3
<1>17. ASSUME d < s, j.mode # "full", c \notin DirectlyOwed, KeptIn(f, d)
       PROVE  IF Held(activities, a, d) = {} THEN Shown(f, d, Empty) = Empty ELSE KeyDays(f, d) # {}
  BY <1>1, <1>8, <1>15, <1>17 DEF HeldAt
<1>18. d >= s \/ d < s
  BY <1>0, <1>3
<1>19. KeptIn(g, d) /\ c \notin Owed => Shown(g, d, Empty) = Replay(activities, a, d)
  BY <1>7, <1>10, <1>12, <1>14, <1>16, <1>18, <1>21
<1>20. KeptIn(g, d) /\ c \notin DirectlyOwed =>
            IF Held(activities, a, d) = {} THEN Shown(g, d, Empty) = Empty ELSE KeyDays(g, d) # {}
  BY <1>7, <1>13, <1>14, <1>17, <1>18, <1>21
<1> QED
  BY <1>3, <1>6, <1>19, <1>20

-----------------------------------------------------------------------------
(***************************************************************************)
(* The steps of a job.                                                     *)
(***************************************************************************)
\* The keyframes of account a to come when job k runs and the others are idle,
\* and what is lost then.
FramesWith(k, fs, a) == IF a \in k.todo THEN Written(k, fs[a], a) ELSE fs[a]
LostWith(k, m) == IF Busy(k) THEN m \ RepairedBy(k, m) ELSE m

\* Keyframes g of account a are as HeldAt wants them on day d.
Stocked(g, a, d) ==
    IF Held(activities, a, d) = {} THEN Shown(g, d, Empty) = Empty ELSE KeyDays(g, d) # {}

\* Where no rewrite is due the keyframes show what they will show.
LEMMA InFront ==
    ASSUME SnapInv, NEW a \in Account, NEW d \in Day,
           <<a, d>> \notin DirectlyOwed \union Running
    PROVE  /\ KeyDays(Coming(a), d) = KeyDays(frames[a], d)
           /\ Shown(Coming(a), d, Empty) = Shown(frames[a], d, Empty)
           /\ Coming(a)[d] = frames[a][d]
<1>1. CASE \A r \in Runner : a \notin jobs[r].todo
  BY <1>1 DEF Coming, ComingIn
<1>2. CASE \E r \in Runner : a \in jobs[r].todo
  <2>1. PICK r \in Runner : a \in jobs[r].todo
    BY <1>2
  <2>2. /\ JobSane(r, jobs[r]) /\ JobOK(jobs[r])
        /\ jobs[r].stage # "idle" /\ jobs[r].stage # "planned"
    BY <2>1 DEF SnapInv, Control, JobSane, Rewriting, ListInv, TypeInv
  <2>3. \A q \in Runner : q # r => jobs[q].todo = {}
    BY <2>2, OthersIdle DEF SnapInv
  <2>4. Coming(a) = Written(jobs[r], frames[a], a)
    BY <2>1, <2>3, ComingIs DEF Coming, WritesAlone
  <2>5. <<a, d>> \notin Answered(r)
    BY DEF Running
  <2>6. ~(d >= jobs[r].start[a])
    BY <2>1, <2>5 DEF SnapInv, WritesAnswered
  <2>7. jobs[r].start[a] \in Day /\ jobs[r].start[a] \in Int /\ d \in Int
    BY <2>1, <2>2, RecalcAssumption DEF JobSane, Day
  <2>8. d < jobs[r].start[a]
    BY <2>6, <2>7
  <2>9. jobs[r].mode # "full"
    <3> SUFFICES ASSUME jobs[r].mode = "full" PROVE FALSE
      OBVIOUS
    <3>1. <<a, d>> \in Cell /\ a \in jobs[r].accounts
      BY <2>1, <2>2 DEF JobOK, Cell
    <3>2. r = Worker => jobs[r].since = 0
      BY <2>2, RecalcAssumption DEF JobSane, Day
    <3>3. Answers(activities, r, jobs[r], <<a, d>>)
      BY <2>2, <3>1, <3>2 DEF Answers, Reaches
    <3> QED
      BY <2>5, <3>1, <3>3 DEF Answered
  <2>10. /\ jobs[r].out[a][jobs[r].start[a]] # NoFrame
         /\ \A k \in Day : k < jobs[r].start[a] => jobs[r].out[a][k] = NoFrame
    BY <2>1, <2>2 DEF JobSane
  <2>11. Coming(a) = Save(DeleteFrom(frames[a], jobs[r].start[a]), jobs[r].out[a])
    BY <2>4, <2>9 DEF Written
  <2>12. Coming(a)[d] = frames[a][d]
    BY <2>8, <2>10, <2>11 DEF Save, DeleteFrom
  <2> QED
    BY <2>7, <2>8, <2>10, <2>11, <2>12, RewriteShows
<1> QED
  BY <1>1, <1>2

\* A day on no list shows what it should, now and not only to come.
LEMMA Settled ==
    ASSUME SnapInv, NEW a \in Account, NEW d \in Day,
           <<a, d>> \notin DirectlyOwed \union Running \union missed
    PROVE  KeptIn(frames[a], d) =>
            /\ <<a, d>> \notin Owed => Shown(frames[a], d, Empty) = Replay(activities, a, d)
            /\ Stocked(frames[a], a, d)
<1>1. /\ KeyDays(Coming(a), d) = KeyDays(frames[a], d)
      /\ Shown(Coming(a), d, Empty) = Shown(frames[a], d, Empty)
      /\ Coming(a)[d] = frames[a][d]
  BY InFront
<1>2. <<a, d>> \notin Waiting /\ <<a, d>> \notin Lost
  BY DEF Waiting, Lost, LostIn, Running, Runner
<1>3. <<a, d>> \notin DirectlyWaiting
  <2>1. DirectlyWaiting \subseteq Waiting
    <3> SUFFICES ASSUME NEW c \in DirectlyWaiting PROVE c \in Waiting
      OBVIOUS
    <3>1. Answers(activities, Worker, jobs[Worker], c)
      BY DEF DirectlyWaiting, Directly, Answers, Reaches
    <3> QED
      BY <3>1 DEF DirectlyWaiting, Waiting, Answered
  <2> QED
    BY <1>2, <2>1
<1>4. ReplayAt(a, d) /\ HeldAt(a, d)
  BY DEF SnapInv
<1> QED
  BY <1>1, <1>2, <1>3, <1>4 DEF ReplayAt, HeldAt, Stocked, KeptIn

\* The invariant gives the property.
LEMMA SnapImplies == SnapInv => SnapshotsAreReplay
<1> SUFFICES ASSUME SnapInv, NEW a \in Account, NEW d \in Day, Retained(d), <<a, d>> \notin Due
             PROVE  Shown(frames[a], d, Empty) = Replay(activities, a, d)
  BY DEF SnapshotsAreReplay
<1>1. InFlight \subseteq Event /\ activities \in Book /\ d <= d
  BY RecalcAssumption DEF SnapInv, Control, ListInv, TypeInv, Book, Day
<1>2. <<a, d>> \notin DirectlyOwed
  BY <1>1, OwedUpwards DEF Due
<1> QED
  BY <1>2, Settled DEF Due, KeptIn

\* What is to come and what is lost after a step that makes k of job r.
LEMMA ComingNext ==
    ASSUME NEW r \in Runner, NEW k, jobs'[r] = k, NEW a,
           \A q \in Runner : q # r => jobs'[q].todo = {} /\ ~Busy(jobs'[q])
    PROVE  Coming(a)' = FramesWith(k, frames', a) /\ Lost' = LostWith(k, missed')
<1>1. WritesAlone(jobs', r) /\ \A q \in Runner : q # r => ~Busy(jobs'[q])
  BY DEF WritesAlone
<1>2. Lost' = LostIn(jobs', missed') /\ Coming(a)' = ComingIn(jobs', frames', a)
  BY DEF Lost, Coming
<1>3. LostIn(jobs', missed') = IF Busy(jobs'[r]) THEN missed' \ RepairedBy(jobs'[r], missed')
                               ELSE missed'
  BY <1>1, LostIs
<1>4. /\ a \in jobs'[r].todo => ComingIn(jobs', frames', a) = Written(jobs'[r], frames'[a], a)
      /\ a \notin jobs'[r].todo => ComingIn(jobs', frames', a) = frames'[a]
  BY <1>1, ComingIs
<1> QED
  BY <1>2, <1>3, <1>4 DEF FramesWith, LostWith

\* A step that makes k of the one job that runs keeps the invariant if what it
\* writes and what it leaves to be written are right.
LEMMA JobSnap ==
    ASSUME SnapInv, ListInv', NEW r \in Runner, jobs[r].stage # "idle",
           NEW k, jobs' = [jobs EXCEPT ![r] = k], k.stage # "planned", Apart,
           frames' \in [Account -> Keyframes], MissedUpwards',
           JobSane(r, k), k.cleanup # {} => Pulling,
           k.mode = "since" => jobs[r].mode = "since" /\ k.accounts = jobs[r].accounts,
           \A a \in k.todo, d \in Day :
                d >= k.start[a] => <<a, d>> \in DirectlyOwed \/ Answers(activities, r, k, <<a, d>>),
           \A a \in k.saving, d \in Day : d >= k.start[a] => frames'[a][d] = NoFrame,
           \A a \in Account, d \in Day :
              KeptIn(FramesWith(k, frames', a), d) /\ <<a, d>> \notin LostWith(k, missed') =>
                /\ <<a, d>> \notin Owed =>
                        Shown(FramesWith(k, frames', a), d, Empty) = Replay(activities, a, d)
                /\ <<a, d>> \notin DirectlyOwed => Stocked(FramesWith(k, frames', a), a, d)
    PROVE  SnapInv'
<1>0. /\ activities' = activities /\ InFlight' = InFlight /\ updating' = updating
      /\ DOMAIN jobs = Runner /\ Control /\ Worker \in Runner
  BY DEF Apart, InFlight, SnapInv, Control, ListInv, TypeInv, Runner
<1>1. /\ jobs'[r] = k /\ \A q \in Runner : q # r => jobs'[q] = jobs[q]
  BY <1>0
<1>2. /\ \A q \in Runner : q # r => /\ jobs'[q].stage = "idle" /\ jobs'[q].todo = {}
                                    /\ jobs'[q].saving = {} /\ jobs'[q].cleanup = {}
                                    /\ jobs'[q].mode = "full" /\ ~Busy(jobs'[q])
                                    /\ JobSane(q, jobs'[q])
  <2>1. \A q \in Runner : q # r => /\ jobs[q].stage = "idle" /\ JobOK(jobs[q])
                                   /\ JobSane(q, jobs[q])
    BY <1>0, OthersIdle DEF Control, ListInv, TypeInv
  <2> QED
    BY <1>1, <2>1 DEF JobSane, JobOK, Busy, Rewriting
<1>3. DirectlyOwed' = DirectlyOwed /\ Owed' = Owed /\ Pulling' = Pulling
  BY <1>0 DEF DirectlyOwed, Owed, Pulling
<1>4. /\ \A a : Coming(a)' = FramesWith(k, frames', a)
      /\ Lost' = LostWith(k, missed')
  <2>1. \A q \in Runner : q # r => jobs'[q].todo = {} /\ ~Busy(jobs'[q])
    BY <1>2
  <2> QED
    BY <1>1, <2>1, ComingNext
<1>5. Waiting' = {} /\ DirectlyWaiting' = {}
  <2>1. jobs'[Worker].stage # "planned"
    BY <1>0, <1>1, <1>2
  <2> QED
    BY <2>1 DEF Waiting, DirectlyWaiting
<1>6. Control'
  <2>1. OneJob'
    BY <1>2 DEF OneJob
  <2>2. UpdatesCurrent'
    BY <1>0 DEF Control, UpdatesCurrent
  <2>3. \A q \in Runner : JobSane(q, jobs[q])'
    BY <1>1, <1>2 DEF JobSane, Busy, Rewriting
  <2>5. SeedsKept'
    BY <1>0 DEF Control, SeedsKept
  <2>4. AccountsTrade'
    <3>1. \A e \in InFlight' : Trading(activities', e)
      BY <1>0 DEF Control, AccountsTrade
    <3>2. jobs'[Worker].mode = "since" =>
            Pulling' \/ \A a \in jobs'[Worker].accounts : Of(activities', a) # {}
      BY <1>0, <1>1, <1>2, <1>3 DEF Control, AccountsTrade
    <3>3. \A q \in Runner : jobs'[q].cleanup # {} => Pulling'
      BY <1>1, <1>2, <1>3
    <3> QED
      BY <3>1, <3>2, <3>3 DEF AccountsTrade, Trading
  <2> QED
    BY <2>1, <2>2, <2>3, <2>4, <2>5 DEF Control
<1>7. WritesAnswered'
  <2> SUFFICES ASSUME NEW q \in Runner, NEW a \in jobs'[q].todo, NEW d \in Day,
                      d >= jobs'[q].start[a]
               PROVE  <<a, d>> \in DirectlyOwed' \union Answered(q)'
    BY DEF WritesAnswered
  <2>1. q = r /\ a \in k.todo /\ d >= k.start[a]
    BY <1>1, <1>2
  <2>2. a \in Account
    <3>1. JobOK(k)
      BY <1>1 DEF ListInv, TypeInv
    <3> QED
      BY <2>1, <3>1 DEF JobOK, JobSane
  <2>3. <<a, d>> \in Cell
    BY <2>2 DEF Cell
  <2> QED
    BY <1>0, <1>1, <1>3, <2>1, <2>3 DEF Answered
<1>8. DeletedFrom'
  BY <1>1, <1>2 DEF DeletedFrom
<1>9. ASSUME NEW a \in Account, NEW d \in Day
      PROVE  (ReplayAt(a, d) /\ HeldAt(a, d))'
  <2>1. ReplayAt(a, d)'
    BY <1>0, <1>3, <1>4, <1>9 DEF ReplayAt
  <2>2. HeldAt(a, d)'
    BY <1>0, <1>3, <1>4, <1>9 DEF HeldAt, Stocked
  <2> QED
    BY <2>1, <2>2
<1> QED
  BY <1>6, <1>7, <1>8, <1>9 DEF SnapInv

\* The read of a job that finds no activity in any of its accounts.
ReadsNothing(r) ==
    /\ jobs[r].stage = "planned"
    /\ \A a \in jobs[r].accounts : Of(activities, a) = {}
    /\ frames' = [a \in Account |->
            IF jobs[r].mode = "full" /\ a \in jobs[r].accounts THEN NoFrames ELSE frames[a]]
    /\ jobs' = [jobs EXCEPT ![r].stage = "total"]
    /\ UNCHANGED <<Edits, total, missed, used>>

LEMMA NothingSnap ==
    ASSUME SnapInv, ListInv', NEW r \in Runner, ReadsNothing(r)
    PROVE  SnapInv'
<1> DEFINE j == jobs[r]
           k == [j EXCEPT !.stage = "total"]
<1>0. /\ Control /\ j.stage = "planned" /\ JobSane(r, j) /\ JobOK(j) /\ DOMAIN jobs = Runner
      /\ activities \in Book /\ frames \in [Account -> Keyframes] /\ missed \subseteq Cell
  BY DEF SnapInv, Control, ListInv, TypeInv, Book, ReadsNothing
<1>1. /\ k.stage = "total"
      /\ k.mode = j.mode /\ k.accounts = j.accounts /\ k.since = j.since /\ k.start = j.start
      /\ k.failed = j.failed /\ k.todo = j.todo /\ k.cleanup = j.cleanup /\ k.saving = j.saving
      /\ k.out = j.out
  BY <1>0 DEF JobOK, JobFields
<1>2. jobs' = [jobs EXCEPT ![r] = k]
  BY DEF ReadsNothing
<1> HIDE DEF k
<1>3. /\ j.todo = {} /\ j.cleanup = {} /\ j.saving = {} /\ j.failed = FALSE
      /\ j.start = [a \in Account |-> Never]
  BY <1>0 DEF JobSane, JobOK, Busy, Rewriting
<1>4. /\ Apart /\ missed' = missed
      /\ \A a \in Account : frames'[a] = IF j.mode = "full" /\ a \in j.accounts THEN NoFrames
                                         ELSE frames[a]
  BY DEF ReadsNothing, Apart, Edits
<1>5. frames' \in [Account -> Keyframes]
  <2>1. NoFrames \in Keyframes
    BY DEF NoFrames, Keyframes
  <2> QED
    BY <1>0, <2>1 DEF ReadsNothing
<1>6. MissedUpwards'
  BY <1>0, <1>4 DEF Control, MissedUpwards
<1>7. JobSane(r, k)
  <2>1. k.start \in [Account -> Day \union {Never}]
    BY <1>1, <1>3
  <2> QED
    BY <1>0, <1>1, <1>3, <2>1 DEF JobSane, Busy, Rewriting
<1>8. /\ Lost = missed
      /\ \A a \in Account : Coming(a) = frames[a]
      /\ r # Worker => Waiting = {} /\ DirectlyWaiting = {}
      /\ \A c \in Waiting \union DirectlyWaiting : c[1] \in j.accounts
  <2>1. \A c \in Answered(r) : c[1] \in j.accounts
    BY DEF Answered, Answers
  <2> QED
    BY <1>0, <2>1, BeforeRead
\* An account without activities shows and holds nothing.
<1>9. ASSUME NEW a \in Account, NEW d \in Day, j.mode = "full", a \in j.accounts
      PROVE  /\ Shown(FramesWith(k, frames', a), d, Empty) = Replay(activities, a, d)
             /\ Stocked(FramesWith(k, frames', a), a, d)
  <2>1. FramesWith(k, frames', a) = NoFrames
    BY <1>1, <1>3, <1>4, <1>9 DEF FramesWith
  <2>2. Held(activities, a, d) = {}
    BY <1>9 DEF Held, ReadsNothing
  <2>3. Replay(activities, a, d) = Empty
    <3>1. 1 \in Int
      OBVIOUS
    <3> QED
      BY <1>0, <2>2, <3>1, NothingHeld
  <2>4. KeyDays(NoFrames, d) = {}
    BY DEF KeyDays, NoFrames
  <2>5. Shown(NoFrames, d, Empty) = Empty
    BY <2>4, ShownAt
  <2> QED
    BY <2>1, <2>2, <2>3, <2>5 DEF Stocked
\* The others are as they were.
<1>10. ASSUME NEW a \in Account, NEW d \in Day, ~(j.mode = "full" /\ a \in j.accounts),
              KeptIn(FramesWith(k, frames', a), d), <<a, d>> \notin LostWith(k, missed')
       PROVE  /\ <<a, d>> \notin Owed =>
                    Shown(FramesWith(k, frames', a), d, Empty) = Replay(activities, a, d)
              /\ <<a, d>> \notin DirectlyOwed => Stocked(FramesWith(k, frames', a), a, d)
  <2>1. FramesWith(k, frames', a) = frames[a]
    BY <1>1, <1>3, <1>4, <1>10 DEF FramesWith
  <2>2. <<a, d>> \notin missed
    <3>1. <<a, d>> \notin RepairedBy(k, missed)
      <4> SUFFICES ASSUME <<a, d>> \in RepairedBy(k, missed) PROVE FALSE
        OBVIOUS
      <4>1. j.mode = "since" /\ <<a, d>> \in missed /\ d >= j.start[a]
        BY <1>1, <1>10 DEF RepairedBy
      <4>2. d >= Today + 1
        BY <1>3, <4>1 DEF Never
      <4> QED
        BY <4>2, RecalcAssumption DEF Day
    <3> QED
      BY <1>1, <1>4, <1>10, <3>1 DEF LostWith, Busy
  <2>3. CASE Pulling
    <3>1. <<a, d>> \in Owed /\ <<a, d>> \in DirectlyOwed
      BY <2>3, PulledOwes DEF Pulling, Cell
    <3> QED
      BY <3>1
  <2>4. CASE ~Pulling
    <3>1. <<a, d>> \notin Waiting /\ <<a, d>> \notin DirectlyWaiting
      <4>1. CASE r # Worker
        BY <1>8, <4>1
      <4>2. CASE r = Worker /\ j.mode = "full"
        BY <1>8, <1>10, <4>2
      <4>3. CASE r = Worker /\ j.mode = "since"
        <5>1. \A b \in j.accounts : Of(activities, b) # {}
          BY <1>0, <2>4, <4>3 DEF Control, AccountsTrade
        <5>2. a \notin j.accounts
          BY <5>1 DEF ReadsNothing
        <5> QED
          BY <1>8, <5>2
      <4> QED
        BY <1>0, <4>1, <4>2, <4>3 DEF JobSane
    <3>2. ReplayAt(a, d) /\ HeldAt(a, d)
      BY DEF SnapInv
    <3> QED
      BY <1>8, <1>10, <2>1, <2>2, <3>1, <3>2 DEF ReplayAt, HeldAt, Stocked
  <2> QED
    BY <2>3, <2>4
<1>11. \A a \in Account, d \in Day :
              KeptIn(FramesWith(k, frames', a), d) /\ <<a, d>> \notin LostWith(k, missed') =>
                /\ <<a, d>> \notin Owed =>
                        Shown(FramesWith(k, frames', a), d, Empty) = Replay(activities, a, d)
                /\ <<a, d>> \notin DirectlyOwed => Stocked(FramesWith(k, frames', a), a, d)
  BY <1>9, <1>10
<1>12. /\ k.todo = {} /\ k.saving = {} /\ k.cleanup = {} /\ k.stage # "planned"
       /\ j.stage # "idle" /\ k.mode = j.mode /\ k.accounts = j.accounts
  BY <1>0, <1>1, <1>3
<1> QED
  BY <1>2, <1>4, <1>5, <1>6, <1>7, <1>11, <1>12, JobSnap

\* The read of a job that computes keyframes, and what it makes of the job.
Begin(j) ==
    [a \in Account |-> IF a \in j.accounts THEN StartDay(activities, j, frames[a], a) ELSE Never]
Processed(j) == {a \in Account : Begin(j)[a] # Never}
Cleaned(j) ==
    IF j.mode = "since" /\ Processed(j) # {} THEN j.accounts \ Processed(j) ELSE {}
HasRead(j) ==
    [j EXCEPT !.stage = "write", !.todo = Processed(j), !.cleanup = Cleaned(j),
              !.start = [a \in Account |-> IF a \in Cleaned(j) THEN j.since ELSE Begin(j)[a]],
              !.out = [a \in Account |-> IF a \in Processed(j)
                                         THEN Computed(activities, j, frames[a], a)
                                         ELSE NoFrames]]
ReadsSomething(r) ==
    /\ jobs[r].stage = "planned"
    /\ frames' = frames
    /\ jobs' = [jobs EXCEPT ![r] = Step(HasRead(jobs[r]))]
    /\ UNCHANGED <<Edits, total, missed, used>>

LEMMA ReadIs ==
    ASSUME NEW r \in Runner, Read(r)
    PROVE  ReadsNothing(r) \/ ReadsSomething(r)
BY DEF Read, ReadsNothing, ReadsSomething, HasRead, Begin, Processed, Cleaned

\* The accounts a job leaves out.
LEMMA LeftOut ==
    ASSUME SnapInv, NEW r \in Runner, jobs[r].stage = "planned",
           NEW a \in Account, a \in jobs[r].accounts,
           StartDay(activities, jobs[r], frames[a], a) = Never
    PROVE  \/ jobs[r].mode = "incremental"
           \/ jobs[r].mode = "since" /\ Pulling
<1> DEFINE j == jobs[r]
<1>0. /\ Control /\ JobSane(r, j) /\ JobOK(j) /\ activities \in Book
      /\ \A k \in Day : k # Never
  <2>1. \A k \in Day : k # Never
    BY RecalcAssumption DEF Day, Never
  <2> QED
    BY <2>1 DEF SnapInv, Control, ListInv, TypeInv, Book
<1>1. CASE j.mode = "full"
  <2>1. ~RestartsForSplit(activities, j, frames[a], a)
    BY <1>1 DEF RestartsForSplit, SeedDay
  <2>2. ResumeDay(activities, j, frames[a], a) = FirstOrToday(activities, a)
    BY <1>1 DEF ResumeDay
  <2>3. FirstOrToday(activities, a) \in Day
    <3>1. Today \in Day
      BY RecalcAssumption DEF Day
    <3> QED
      BY <1>0, <3>1, FirstIsFirst DEF FirstOrToday
  <2>4. StartDay(activities, j, frames[a], a) = FirstOrToday(activities, a)
    BY <1>1, <2>1, <2>2 DEF StartDay
  <2> QED
    BY <1>0, <2>3, <2>4
<1>2. CASE j.mode = "since"
  <2>1. r = Worker /\ j.since \in Day
    BY <1>0, <1>2, RecalcAssumption DEF JobSane
  <2>2. Of(activities, a) = {}
    BY <1>0, <1>2, <2>1, SinceStarts
  <2> QED
    BY <1>0, <1>2, <2>1, <2>2 DEF Control, AccountsTrade
<1> QED
  BY <1>0, <1>1, <1>2 DEF JobOK

\* What job r holds after its read.
ReadInto(r, k) ==
    LET j == jobs[r] IN
    /\ k.stage = IF k.todo \union k.cleanup = {} THEN "total" ELSE "write"
    /\ k.mode = j.mode /\ k.accounts = j.accounts /\ k.since = j.since
    /\ k.failed = FALSE /\ k.saving = {}
    /\ k.todo = Processed(j) /\ k.cleanup = Cleaned(j)
    /\ k.start \in [Account -> Day \union {Never}]
    /\ \A a \in k.todo :
        /\ a \in Account /\ a \in j.accounts
        /\ StartDay(activities, j, frames[a], a) # Never
        /\ k.start[a] = StartDay(activities, j, frames[a], a)
        /\ k.out[a] = Computed(activities, j, frames[a], a)
    /\ k.cleanup # {} => Pulling

LEMMA HasReadIs ==
    ASSUME SnapInv, NEW r \in Runner, jobs[r].stage = "planned",
           NEW k, k = Step(HasRead(jobs[r]))
    PROVE  ReadInto(r, k)
<1> DEFINE j == jobs[r]
           h == HasRead(j)
<1>0. JobSane(r, j) /\ JobOK(j) /\ DOMAIN j = JobFields
  BY DEF SnapInv, Control, ListInv, TypeInv, JobOK
<1>1. j.todo = {} /\ j.saving = {} /\ j.failed = FALSE
  BY <1>0 DEF JobSane, JobOK, Busy, Rewriting
<1>2. /\ DOMAIN h = JobFields /\ h.stage = "write"
      /\ h.mode = j.mode /\ h.accounts = j.accounts /\ h.since = j.since
      /\ h.failed = j.failed /\ h.saving = j.saving
      /\ h.todo = Processed(j) /\ h.cleanup = Cleaned(j)
      /\ h.start = [a \in Account |-> IF a \in Cleaned(j) THEN j.since ELSE Begin(j)[a]]
      /\ h.out = [a \in Account |-> IF a \in Processed(j)
                                    THEN Computed(activities, j, frames[a], a) ELSE NoFrames]
  BY <1>0 DEF HasRead, JobFields
<1>3. /\ \A f \in JobFields \ {"stage"} : k[f] = h[f]
      /\ k.stage = IF h.todo \union h.cleanup = {} THEN "total" ELSE h.stage
  <2> HIDE DEF h
  <2>1. k = Step(h)
    BY DEF h
  <2> QED
    BY <1>2, <2>1, StepKeeps
<1>4. /\ k.mode = h.mode /\ k.accounts = h.accounts /\ k.since = h.since /\ k.failed = h.failed
      /\ k.saving = h.saving /\ k.todo = h.todo /\ k.cleanup = h.cleanup /\ k.start = h.start
      /\ k.out = h.out
  BY <1>3 DEF JobFields
<1> HIDE DEF h
<1>5. ASSUME NEW a \in Processed(j)
      PROVE  /\ a \in Account /\ a \in j.accounts /\ a \notin Cleaned(j)
             /\ StartDay(activities, j, frames[a], a) # Never
             /\ Begin(j)[a] = StartDay(activities, j, frames[a], a)
  BY DEF Processed, Begin, Cleaned
<1>6. k.start \in [Account -> Day \union {Never}]
  <2> SUFFICES ASSUME NEW a \in Account
               PROVE  (IF a \in Cleaned(j) THEN j.since ELSE Begin(j)[a]) \in Day \union {Never}
    BY <1>2, <1>4
  <2>1. CASE a \in Cleaned(j)
    BY <1>0, <2>1, RecalcAssumption DEF Cleaned, JobSane
  <2>2. CASE a \notin Cleaned(j) /\ Begin(j)[a] # Never
    <3>1. a \in Processed(j)
      BY <2>2 DEF Processed
    <3> DEFINE s == StartDay(activities, j, frames[a], a)
               out == Computed(activities, j, frames[a], a)
               seed == IF FromDayBefore(activities, jobs[r], frames[a], a, s)
                       THEN Shown(frames[a], s - 1, Empty) ELSE Empty
    <3>2. s # Never /\ Begin(j)[a] = s
      BY <1>5, <3>1
    <3>3. s \in Day
      BY <3>2, ReadBegins
    <3> QED
      BY <2>2, <3>2, <3>3
  <2> QED
    BY <2>1, <2>2
<1>7. k.cleanup # {} => Pulling
  <2> SUFFICES ASSUME NEW a \in Cleaned(j) PROVE Pulling
    BY <1>2, <1>4
  <2>1. /\ j.mode = "since" /\ a \in j.accounts /\ a \notin Processed(j) /\ a \in Account
    BY <1>0 DEF Cleaned, JobSane
  <2>2. StartDay(activities, j, frames[a], a) = Never
    BY <2>1 DEF Processed, Begin
  <2> QED
    BY <2>1, <2>2, LeftOut
<1> QED
  BY <1>1, <1>2, <1>3, <1>4, <1>5, <1>6, <1>7 DEF ReadInto

LEMMA SomethingSnap ==
    ASSUME SnapInv, ListInv', NEW r \in Runner, ReadsSomething(r)
    PROVE  SnapInv'
<1> DEFINE j == jobs[r]
           k == Step(HasRead(j))
<1>0. /\ Control /\ j.stage = "planned" /\ JobSane(r, j) /\ JobOK(j)
      /\ activities \in Book /\ frames \in [Account -> Keyframes] /\ missed \subseteq Cell
      /\ jobs' = [jobs EXCEPT ![r] = k] /\ frames' = frames
  BY DEF SnapInv, Control, ListInv, TypeInv, Book, ReadsSomething
<1>1. /\ k.stage = IF k.todo \union k.cleanup = {} THEN "total" ELSE "write"
      /\ k.mode = j.mode /\ k.accounts = j.accounts /\ k.since = j.since
      /\ k.failed = FALSE /\ k.saving = {}
      /\ k.todo = Processed(j)
      /\ k.start \in [Account -> Day \union {Never}]
      /\ \A a \in k.todo :
                /\ a \in Account /\ a \in j.accounts
                /\ StartDay(activities, j, frames[a], a) # Never
                /\ k.start[a] = StartDay(activities, j, frames[a], a)
                /\ k.out[a] = Computed(activities, j, frames[a], a)
      /\ k.cleanup # {} => Pulling
  <2>1. k = Step(HasRead(jobs[r])) /\ jobs[r].stage = "planned"
    BY <1>0
  <2> HIDE DEF k
  <2>2. ReadInto(r, k)
    BY <2>1, HasReadIs
  <2> QED
    BY <2>2 DEF ReadInto
<1> HIDE DEF k
<1>2. Apart /\ missed' = missed
  BY DEF ReadsSomething, Apart, Edits
<1>3. MissedUpwards'
  BY <1>0, <1>2 DEF Control, MissedUpwards
<1>4. ASSUME NEW a \in k.todo
      PROVE  /\ k.start[a] \in Day /\ k.start[a] \in Int /\ k.out[a] \in Keyframes
             /\ k.out[a][k.start[a]] # NoFrame
             /\ \A d \in Day : d < k.start[a] => k.out[a][d] = NoFrame
  <2> DEFINE s == k.start[a]
             out == k.out[a]
             seed == IF FromDayBefore(activities, jobs[r], frames[a], a, s)
                     THEN Shown(frames[a], s - 1, Empty) ELSE Empty
  <2>1. /\ a \in Account /\ s = StartDay(activities, jobs[r], frames[a], a) /\ s # Never
        /\ out = Computed(activities, jobs[r], frames[a], a)
    BY <1>1, <1>4
  <2> HIDE DEF s, out
  <2>2. s \in Day /\ s \in Int /\ out \in Keyframes /\ out[s] # NoFrame
        /\ \A d \in Day : d < s => out[d] = NoFrame
    BY <1>0, <2>1, ReadBegins
  <2> QED
    BY <2>2 DEF s, out
<1>5. JobSane(r, k)
  <2>1. Busy(k)
    BY <1>1 DEF Busy, Rewriting
  <2>2. ~Rewriting(k) => k.todo = {} /\ k.cleanup = {}
    BY <1>1 DEF Rewriting
  <2>3. /\ k.accounts \subseteq Account /\ k.stage # "idle"
        /\ k.mode = "since" => r = Worker /\ SeedKept(k.since)
        /\ r = Worker => \/ k.mode = "full" /\ k.since = 0
                         \/ k.mode = "since" /\ k.since \in Day
    <3>1. k.accounts \subseteq Account /\ (k.mode = "since" => r = Worker /\ SeedKept(k.since))
      BY <1>0, <1>1 DEF JobSane
    <3>2. r = Worker => \/ j.mode = "full" /\ j.since = 0
                        \/ j.mode = "since" /\ j.since \in Day
      BY <1>0 DEF JobSane
    <3> QED
      BY <1>1, <3>1, <3>2
  <2> QED
    BY <1>1, <1>4, <2>1, <2>2, <2>3 DEF JobSane
\* What will be rewritten is what the job answers for.
<1>6. ASSUME NEW a \in k.todo, NEW d \in Day, d >= k.start[a]
      PROVE  Answers(activities, r, k, <<a, d>>)
  <2>1. /\ a \in j.accounts /\ k.stage # "idle" /\ k.stage # "planned"
        /\ k.start[a] = StartDay(activities, j, frames[a], a)
        /\ StartDay(activities, j, frames[a], a) # Never
    BY <1>1
  <2>2. ASSUME r = Worker PROVE Reaches(activities, a, k.since, d)
    <3>1. CASE j.mode = "full"
      <4>1. j.since = 0
        BY <1>0, <2>2, <3>1 DEF JobSane
      <4> QED
        BY <1>1, <4>1 DEF Reaches
    <3>2. CASE j.mode = "since"
      <4>1. j.since \in Day
        BY <1>0, <2>2, <3>2 DEF JobSane
      <4>2. Of(activities, a) # {}
        BY <2>1, <3>2 DEF StartDay
      <4>3. \/ k.start[a] = j.since
            \/ \E m \in SplitDays(activities, a) : m >= j.since
        BY <1>0, <2>1, <3>2, <4>1, <4>2, SinceStarts
      <4> QED
        BY <1>1, <1>6, <4>3 DEF Reaches
    <3> QED
      BY <1>0, <2>2, <3>1, <3>2 DEF JobSane
  <2> QED
    BY <1>1, <1>6, <2>1, <2>2 DEF Answers
<1>7. /\ Lost = missed
      /\ \A a \in Account : Coming(a) = frames[a]
      /\ r # Worker => Waiting = {} /\ DirectlyWaiting = {}
      /\ \A c \in Waiting \union DirectlyWaiting : c[1] \in j.accounts
  <2>1. \A c \in Answered(r) : c[1] \in j.accounts
    BY DEF Answered, Answers
  <2> QED
    BY <1>0, <2>1, BeforeRead
<1>8. LostWith(k, missed') = missed \ RepairedBy(k, missed)
  BY <1>1, <1>2 DEF LostWith, Busy, Rewriting
<1>9. ASSUME NEW a \in Account, NEW d \in Day, a \in k.todo,
             KeptIn(FramesWith(k, frames', a), d), <<a, d>> \notin LostWith(k, missed')
      PROVE  /\ <<a, d>> \notin Owed =>
                    Shown(FramesWith(k, frames', a), d, Empty) = Replay(activities, a, d)
             /\ <<a, d>> \notin DirectlyOwed => Stocked(FramesWith(k, frames', a), a, d)
  <2> DEFINE s == k.start[a]
             out == k.out[a]
             g == FramesWith(k, frames', a)
  <2>1. /\ a \in j.accounts /\ s = StartDay(activities, j, frames[a], a) /\ s # Never
        /\ out = Computed(activities, j, frames[a], a)
    BY <1>1, <1>9
  <2>2. g = IF j.mode = "full" THEN out ELSE Save(DeleteFrom(frames[a], s), out)
    BY <1>0, <1>1, <1>9 DEF FramesWith, Written
  <2>3. \/ <<a, d>> \notin missed
        \/ j.mode = "full"
        \/ j.mode = "since" /\ \A b \in Day : <<a, b>> \in missed => b >= s
    BY <1>1, <1>8, <1>9 DEF RepairedBy
  <2>5. KeptIn(g, d)
    BY <1>9
  <2> HIDE DEF s, out, g
  <2>4. /\ <<a, d>> \notin Owed => Shown(g, d, Empty) = Replay(activities, a, d)
        /\ <<a, d>> \notin DirectlyOwed =>
                IF Held(activities, a, d) = {}
                THEN Shown(g, d, Empty) = Empty
                ELSE KeyDays(g, d) # {}
    BY <1>0, <2>1, <2>2, <2>3, <2>5, ReadRight
  <2> QED
    BY <2>4 DEF Stocked, g
<1>10. ASSUME NEW a \in Account, NEW d \in Day, a \notin k.todo,
              KeptIn(FramesWith(k, frames', a), d), <<a, d>> \notin LostWith(k, missed')
       PROVE  /\ <<a, d>> \notin Owed =>
                    Shown(FramesWith(k, frames', a), d, Empty) = Replay(activities, a, d)
              /\ <<a, d>> \notin DirectlyOwed => Stocked(FramesWith(k, frames', a), a, d)
  <2>1. FramesWith(k, frames', a) = frames[a]
    BY <1>0, <1>10 DEF FramesWith
  <2>2. CASE Pulling
    <3>1. <<a, d>> \in Owed /\ <<a, d>> \in DirectlyOwed
      BY <2>2, PulledOwes DEF Pulling, Cell
    <3> QED
      BY <3>1
  <2>3. CASE ~Pulling
    <3>1. a \notin j.accounts \/ j.mode = "incremental"
      <4> SUFFICES ASSUME a \in j.accounts PROVE j.mode = "incremental"
        OBVIOUS
      <4>1. StartDay(activities, j, frames[a], a) = Never
        BY <1>1, <1>10 DEF Processed, Begin
      <4> QED
        BY <1>0, <2>3, <4>1, LeftOut
    <3>2. <<a, d>> \notin missed
      <4>1. <<a, d>> \notin RepairedBy(k, missed)
        BY <1>1, <3>1 DEF RepairedBy
      <4> QED
        BY <1>8, <1>10, <4>1
    <3>3. <<a, d>> \notin Waiting /\ <<a, d>> \notin DirectlyWaiting
      <4>1. j.mode = "incremental" => r # Worker
        BY <1>0 DEF JobSane
      <4> QED
        BY <1>7, <3>1, <4>1
    <3>4. ReplayAt(a, d) /\ HeldAt(a, d)
      BY DEF SnapInv
    <3> QED
      BY <1>7, <1>10, <2>1, <3>2, <3>3, <3>4 DEF ReplayAt, HeldAt, Stocked
  <2> QED
    BY <2>2, <2>3
<1>11. \A a \in Account, d \in Day :
              KeptIn(FramesWith(k, frames', a), d) /\ <<a, d>> \notin LostWith(k, missed') =>
                /\ <<a, d>> \notin Owed =>
                        Shown(FramesWith(k, frames', a), d, Empty) = Replay(activities, a, d)
                /\ <<a, d>> \notin DirectlyOwed => Stocked(FramesWith(k, frames', a), a, d)
  BY <1>9, <1>10
<1>12. /\ \A a \in k.todo, d \in Day :
                d >= k.start[a] => <<a, d>> \in DirectlyOwed \/ Answers(activities, r, k, <<a, d>>)
       /\ \A a \in k.saving, d \in Day : d >= k.start[a] => frames'[a][d] = NoFrame
       /\ k.stage # "planned" /\ j.stage # "idle"
       /\ k.cleanup # {} => Pulling
       /\ k.mode = "since" => j.mode = "since" /\ k.accounts = j.accounts
       /\ frames' \in [Account -> Keyframes]
  BY <1>0, <1>1, <1>6
<1> QED
  BY <1>0, <1>2, <1>3, <1>5, <1>11, <1>12, JobSnap

\* The writes of a job.  What is to come of an account stays the same, except
\* that a clean-up may empty an account a pull is going to recompute.
LEMMA WriteSnap ==
    ASSUME SnapInv, ListInv', NEW r \in Runner, Busy(jobs[r]),
           NEW k, jobs' = [jobs EXCEPT ![r] = k], Busy(k), Apart, missed' = missed,
           frames' \in [Account -> Keyframes],
           k.mode = jobs[r].mode, k.accounts = jobs[r].accounts, k.since = jobs[r].since,
           k.start = jobs[r].start, k.out = jobs[r].out, k.failed = jobs[r].failed,
           k.todo \subseteq jobs[r].todo, k.cleanup \subseteq jobs[r].cleanup,
           ~Rewriting(k) => k.todo \union k.cleanup = {},
           Rewriting(k) => Rewriting(jobs[r]),
           \A a \in k.saving, d \in Day : d >= k.start[a] => frames'[a][d] = NoFrame,
           \/ Pulling
           \/ \A a \in Account : Thins(FramesWith(k, frames', a), FramesWith(jobs[r], frames, a))
    PROVE  SnapInv'
<1> DEFINE j == jobs[r]
<1>0. /\ Control /\ JobSane(r, j) /\ JobOK(j) /\ j.stage # "idle" /\ j.stage # "planned"
      /\ k.stage # "idle" /\ k.stage # "planned"
  BY DEF SnapInv, Control, ListInv, TypeInv, Busy, Rewriting
<1>1. MissedUpwards'
  BY <1>0 DEF Control, MissedUpwards
<1>2. JobSane(r, k)
  <2>1. j.start \in [Account -> Day \union {Never}]
    BY <1>0 DEF JobSane
  <2> QED
    BY <1>0, <2>1 DEF JobSane
<1>3. k.cleanup # {} => Pulling
  BY <1>0 DEF Control, AccountsTrade
<1>4. ASSUME NEW a \in k.todo, NEW d \in Day, d >= k.start[a]
      PROVE  <<a, d>> \in DirectlyOwed \/ Answers(activities, r, k, <<a, d>>)
  <2>1. <<a, d>> \in DirectlyOwed \union Answered(r)
    BY <1>4 DEF SnapInv, WritesAnswered
  <2>2. Rewriting(k) /\ Rewriting(j)
    OBVIOUS
  <2>3. Alike(j, k)
    BY <1>0, <2>2 DEF Alike, Rewriting
  <2> QED
    BY <2>1, <2>3, AnswersAlike DEF Answered
<1>5. WritesAlone(jobs, r) /\ \A q \in Runner : q # r => ~Busy(jobs[q])
  BY <1>0, OthersIdle DEF WritesAlone
<1>6. /\ \A a \in Account : Coming(a) = FramesWith(j, frames, a)
      /\ Lost = LostWith(j, missed)
      /\ Waiting = {} /\ DirectlyWaiting = {}
  <2>1. \A a \in Account : Coming(a) = FramesWith(j, frames, a)
    BY <1>5, ComingIs DEF Coming, FramesWith
  <2>2. Lost = LostWith(j, missed)
    <3>1. Lost = IF Busy(jobs[r]) THEN missed \ RepairedBy(jobs[r], missed) ELSE missed
      BY <1>5, LostIs DEF Lost
    <3> QED
      BY <3>1 DEF LostWith
  <2>3. jobs[Worker].stage # "planned"
    <3>1. r # Worker => jobs[Worker].stage = "idle"
      BY <1>0, OthersIdle DEF Runner
    <3> QED
      BY <1>0, <3>1
  <2> QED
    BY <2>1, <2>2, <2>3 DEF Waiting, DirectlyWaiting
<1>7. LostWith(k, missed') = LostWith(j, missed)
  BY DEF LostWith, RepairedBy
<1>8. ASSUME NEW a \in Account, NEW d \in Day,
             KeptIn(FramesWith(k, frames', a), d), <<a, d>> \notin LostWith(k, missed')
      PROVE  /\ <<a, d>> \notin Owed =>
                    Shown(FramesWith(k, frames', a), d, Empty) = Replay(activities, a, d)
             /\ <<a, d>> \notin DirectlyOwed => Stocked(FramesWith(k, frames', a), a, d)
  <2>1. CASE Pulling
    <3>1. <<a, d>> \in Owed /\ <<a, d>> \in DirectlyOwed
      BY <2>1, PulledOwes DEF Pulling, Cell
    <3> QED
      BY <3>1
  <2>2. CASE ~Pulling
    <3>1. Thins(FramesWith(k, frames', a), Coming(a))
      BY <1>6, <2>2
    <3>2. ReplayAt(a, d) /\ HeldAt(a, d)
      BY DEF SnapInv
    <3>3. /\ KeptIn(Coming(a), d)
          /\ Shown(FramesWith(k, frames', a), d, Empty) = Shown(Coming(a), d, Empty)
          /\ KeyDays(FramesWith(k, frames', a), d) = {} <=> KeyDays(Coming(a), d) = {}
      BY <1>8, <3>1 DEF Thins
    <3> QED
      BY <1>6, <1>7, <1>8, <3>2, <3>3 DEF ReplayAt, HeldAt, Stocked
  <2> QED
    BY <2>1, <2>2
<1> QED
  BY <1>0, <1>1, <1>2, <1>3, <1>4, <1>8, JobSnap

\* A write of job r that makes k of it.
WritesAs(r, k) ==
    /\ Busy(jobs[r]) /\ Busy(k)
    /\ jobs' = [jobs EXCEPT ![r] = k] /\ Apart /\ missed' = missed
    /\ frames' \in [Account -> Keyframes]
    /\ k.mode = jobs[r].mode /\ k.accounts = jobs[r].accounts /\ k.since = jobs[r].since
    /\ k.start = jobs[r].start /\ k.out = jobs[r].out /\ k.failed = jobs[r].failed
    /\ k.todo \subseteq jobs[r].todo /\ k.cleanup \subseteq jobs[r].cleanup
    /\ ~Rewriting(k) => k.todo \union k.cleanup = {}
    /\ Rewriting(k) => Rewriting(jobs[r])
    /\ Rewriting(jobs[r]) => Rewriting(k) \/ k.stage = "total"
    /\ \A a \in k.saving, d \in Day : d >= k.start[a] => frames'[a][d] = NoFrame
    /\ \/ Pulling
       \/ \A a \in Account : Thins(FramesWith(k, frames', a), FramesWith(jobs[r], frames, a))

LEMMA WritesSnap ==
    ASSUME SnapInv, ListInv', NEW r \in Runner, NEW k, WritesAs(r, k)
    PROVE  SnapInv'
<1>1. /\ Busy(jobs[r]) /\ Busy(k)
      /\ jobs' = [jobs EXCEPT ![r] = k] /\ Apart /\ missed' = missed
      /\ frames' \in [Account -> Keyframes]
      /\ k.mode = jobs[r].mode /\ k.accounts = jobs[r].accounts /\ k.since = jobs[r].since
      /\ k.start = jobs[r].start /\ k.out = jobs[r].out /\ k.failed = jobs[r].failed
      /\ k.todo \subseteq jobs[r].todo /\ k.cleanup \subseteq jobs[r].cleanup
      /\ ~Rewriting(k) => k.todo \union k.cleanup = {}
      /\ Rewriting(k) => Rewriting(jobs[r])
      /\ \A a \in k.saving, d \in Day : d >= k.start[a] => frames'[a][d] = NoFrame
      /\ \/ Pulling
         \/ \A a \in Account : Thins(FramesWith(k, frames', a), FramesWith(jobs[r], frames, a))
  BY DEF WritesAs
<1> QED
  BY <1>1, WriteSnap

\* Deleting and saving keyframes once more changes nothing.
LEMMA WriteTwice ==
    ASSUME NEW f \in Keyframes, NEW s \in Day, NEW out
    PROVE  /\ DeleteFrom(f, s) \in Keyframes
           /\ out \in Keyframes => Save(f, out) \in Keyframes
           /\ \A k \in Day : k >= s => DeleteFrom(f, s)[k] = NoFrame
           /\ DeleteFrom(DeleteFrom(f, s), s) = DeleteFrom(f, s)
           /\ (\A k \in Day : k >= s => f[k] = NoFrame) => DeleteFrom(f, s) = f
<1>0. \A k \in Day : k \in Int
  BY RecalcAssumption DEF Day
<1>1. \A k \in Day : k >= s => ~(k < s)
  BY <1>0
<1>2. \A k \in Day : k >= s \/ k < s
  BY <1>0
<1>3. /\ f \in [Day -> Amounts \union {NoFrame}]
  BY DEF Keyframes
<1>4. DeleteFrom(f, s) \in Keyframes
  BY <1>3 DEF DeleteFrom, Keyframes
<1>5. out \in Keyframes => Save(f, out) \in Keyframes
  BY <1>3 DEF Save, Keyframes
<1>6. \A k \in Day : DeleteFrom(f, s)[k] = IF k < s THEN f[k] ELSE NoFrame
  BY DEF DeleteFrom
<1>7. DeleteFrom(DeleteFrom(f, s), s) = DeleteFrom(f, s)
  BY <1>6 DEF DeleteFrom
<1>8. ASSUME \A k \in Day : k >= s => f[k] = NoFrame PROVE DeleteFrom(f, s) = f
  <2>1. \A k \in Day : (IF k < s THEN f[k] ELSE NoFrame) = f[k]
    BY <1>2, <1>8
  <2>2. DeleteFrom(f, s) = [k \in Day |-> f[k]]
    BY <2>1 DEF DeleteFrom
  <2> QED
    BY <1>3, <2>2
<1> QED
  BY <1>1, <1>4, <1>5, <1>6, <1>7, <1>8

\* What a write starts from.
LEMMA WritingFrom ==
    ASSUME SnapInv, NEW r \in Runner, Rewriting(jobs[r])
    PROVE  /\ JobOK(jobs[r]) /\ JobSane(r, jobs[r]) /\ Busy(jobs[r])
           /\ DOMAIN jobs = Runner /\ DOMAIN jobs[r] = JobFields
           /\ frames \in [Account -> Keyframes]
           /\ \A a \in jobs[r].todo \union jobs[r].cleanup : a \in Account
           /\ \A a \in jobs[r].todo : /\ jobs[r].start[a] \in Day /\ jobs[r].out[a] \in Keyframes
                                      /\ frames[a] \in Keyframes
           /\ jobs[r].cleanup # {} => Pulling
<1>1. JobOK(jobs[r]) /\ JobSane(r, jobs[r]) /\ DOMAIN jobs = Runner
      /\ frames \in [Account -> Keyframes] /\ AccountsTrade
  BY DEF SnapInv, Control, ListInv, TypeInv
<1>2. \A a \in jobs[r].todo \union jobs[r].cleanup : a \in Account
  BY <1>1 DEF JobOK, JobSane
<1>3. \A a \in jobs[r].todo : jobs[r].start[a] \in Day /\ jobs[r].out[a] \in Keyframes
  BY <1>1 DEF JobSane
<1> QED
  BY <1>1, <1>2, <1>3 DEF JobOK, Busy, AccountsTrade

LEMMA OverwriteWrites ==
    ASSUME SnapInv, NEW r \in Runner, NEW a \in Account, OverwriteAll(r, a)
    PROVE  \E g : WritesAs(r, g)
<1> DEFINE j == jobs[r]
           h == [j EXCEPT !.todo = @ \ {a}]
           k == Step(h)
<1>0. /\ j.stage = "write" /\ j.mode = "full" /\ a \in j.todo
      /\ frames' = [frames EXCEPT ![a] = j.out[a]] /\ jobs' = [jobs EXCEPT ![r] = k]
      /\ Apart /\ missed' = missed
  BY DEF OverwriteAll, Apart, Edits
<1>1. /\ JobOK(j) /\ Busy(j) /\ DOMAIN j = JobFields /\ frames \in [Account -> Keyframes]
      /\ j.out[a] \in Keyframes
  BY <1>0, WritingFrom DEF Rewriting
<1>2. /\ DOMAIN h = JobFields /\ h.todo = j.todo \ {a}
      /\ \A f \in JobFields \ {"todo"} : h[f] = j[f]
  BY <1>1 DEF JobFields
<1> HIDE DEF h
<1>3. /\ \A f \in JobFields \ {"stage"} : k[f] = h[f]
      /\ k.stage = IF h.todo \union h.cleanup = {} THEN "total" ELSE h.stage
  BY <1>2, StepKeeps
<1>4. /\ k.mode = j.mode /\ k.accounts = j.accounts /\ k.since = j.since /\ k.failed = j.failed
      /\ k.saving = j.saving /\ k.todo = j.todo \ {a} /\ k.cleanup = j.cleanup
      /\ k.start = j.start /\ k.out = j.out
      /\ k.stage = IF k.todo \union k.cleanup = {} THEN "total" ELSE "write"
  BY <1>0, <1>2, <1>3 DEF JobFields
<1> HIDE DEF k
<1>5. /\ frames' \in [Account -> Keyframes] /\ frames'[a] = j.out[a]
      /\ \A b \in Account : b # a => frames'[b] = frames[b]
  BY <1>0, <1>1
<1>6. k.saving = {}
  BY <1>0, <1>1, <1>4 DEF JobOK
<1>7. ASSUME NEW b \in Account PROVE FramesWith(k, frames', b) = FramesWith(j, frames, b)
  <2>1. CASE b = a
    BY <1>0, <1>4, <1>5, <2>1 DEF FramesWith, Written
  <2>2. CASE b # a
    BY <1>4, <1>5, <2>2 DEF FramesWith, Written
  <2> QED
    BY <2>1, <2>2
<1>8. /\ Busy(k) /\ (~Rewriting(k) => k.todo \union k.cleanup = {})
      /\ Rewriting(j) /\ (Rewriting(k) \/ k.stage = "total")
  BY <1>0, <1>4 DEF Busy, Rewriting
<1>9. k.todo \subseteq j.todo /\ k.cleanup \subseteq j.cleanup
  BY <1>4
<1>10. WritesAs(r, k)
  BY <1>0, <1>1, <1>4, <1>5, <1>6, <1>7, <1>8, <1>9, ThinsSame DEF WritesAs
<1> QED
  BY <1>10

\* The first of the two writes of a range, of an account computed.
LEMMA DeleteWrites ==
    ASSUME SnapInv, NEW r \in Runner, NEW a \in Account, DeleteRange(r, a),
           a \in jobs[r].todo
    PROVE  \E g : WritesAs(r, g)
<1> DEFINE j == jobs[r]
           k == [j EXCEPT !.saving = {a}]
           s == j.start[a]
<1>0. /\ j.stage = "write" /\ j.mode # "full"
      /\ frames' = [frames EXCEPT ![a] = DeleteFrom(frames[a], s)]
      /\ jobs' = [jobs EXCEPT ![r] = k]
      /\ Apart /\ missed' = missed
  BY DEF DeleteRange, Apart, Edits
<1>1. /\ JobOK(j) /\ Busy(j) /\ DOMAIN j = JobFields /\ frames \in [Account -> Keyframes]
      /\ frames[a] \in Keyframes /\ s \in Day
  BY <1>0, WritingFrom DEF Rewriting
<1>2. /\ k.mode = j.mode /\ k.accounts = j.accounts /\ k.since = j.since /\ k.failed = j.failed
      /\ k.saving = {a} /\ k.todo = j.todo /\ k.cleanup = j.cleanup
      /\ k.start = j.start /\ k.out = j.out /\ k.stage = j.stage
  BY <1>1 DEF JobFields
<1> HIDE DEF k, s
<1>3. /\ DeleteFrom(frames[a], s) \in Keyframes
      /\ \A d \in Day : d >= s => DeleteFrom(frames[a], s)[d] = NoFrame
      /\ DeleteFrom(DeleteFrom(frames[a], s), s) = DeleteFrom(frames[a], s)
  BY <1>1, WriteTwice
<1>4. /\ frames' \in [Account -> Keyframes] /\ frames'[a] = DeleteFrom(frames[a], s)
      /\ \A b \in Account : b # a => frames'[b] = frames[b]
  BY <1>0, <1>1, <1>3
<1>5. ASSUME NEW b \in Account PROVE FramesWith(k, frames', b) = FramesWith(j, frames, b)
  <2>1. CASE b = a
    BY <1>0, <1>2, <1>3, <1>4, <2>1 DEF FramesWith, Written, s
  <2>2. CASE b # a
    BY <1>2, <1>4, <2>2 DEF FramesWith, Written
  <2> QED
    BY <2>1, <2>2
<1>6. \A b \in k.saving, d \in Day : d >= k.start[b] => frames'[b][d] = NoFrame
  BY <1>2, <1>3, <1>4 DEF s
<1>7. /\ Busy(k) /\ (~Rewriting(k) => k.todo \union k.cleanup = {})
      /\ Rewriting(j) /\ Rewriting(k)
  BY <1>0, <1>2 DEF Busy, Rewriting
<1>8. k.todo \subseteq j.todo /\ k.cleanup \subseteq j.cleanup
  BY <1>2
<1>10. WritesAs(r, k)
  BY <1>0, <1>1, <1>2, <1>4, <1>5, <1>6, <1>7, <1>8, ThinsSame DEF WritesAs
<1> QED
  BY <1>10

\* An account without activities is cleaned up: a pull is going to recompute it.
LEMMA CleanWrites ==
    ASSUME SnapInv, NEW r \in Runner, NEW a \in Account, DeleteRange(r, a),
           a \notin jobs[r].todo
    PROVE  \E g : WritesAs(r, g)
<1> DEFINE j == jobs[r]
           h == [j EXCEPT !.cleanup = @ \ {a}]
           k == Step(h)
<1>0. /\ j.stage = "write" /\ j.saving = {} /\ a \in j.cleanup
      /\ frames' = [frames EXCEPT ![a] = DeleteFrom(frames[a], j.start[a])]
      /\ jobs' = [jobs EXCEPT ![r] = k]
      /\ Apart /\ missed' = missed
  BY DEF DeleteRange, Apart, Edits
<1>1. /\ JobOK(j) /\ Busy(j) /\ DOMAIN j = JobFields /\ frames \in [Account -> Keyframes]
      /\ Pulling
  BY <1>0, WritingFrom DEF Rewriting
<1>2. /\ DOMAIN h = JobFields /\ h.cleanup = j.cleanup \ {a}
      /\ \A f \in JobFields \ {"cleanup"} : h[f] = j[f]
  BY <1>1 DEF JobFields
<1> HIDE DEF h
<1>3. /\ \A f \in JobFields \ {"stage"} : k[f] = h[f]
      /\ k.stage = IF h.todo \union h.cleanup = {} THEN "total" ELSE h.stage
  BY <1>2, StepKeeps
<1>4. /\ k.mode = j.mode /\ k.accounts = j.accounts /\ k.since = j.since /\ k.failed = j.failed
      /\ k.saving = j.saving /\ k.todo = j.todo /\ k.cleanup = j.cleanup \ {a}
      /\ k.start = j.start /\ k.out = j.out
      /\ k.stage = IF k.todo \union k.cleanup = {} THEN "total" ELSE "write"
  BY <1>0, <1>2, <1>3 DEF JobFields
<1> HIDE DEF k
<1>5. frames' \in [Account -> Keyframes]
  <2>1. DeleteFrom(frames[a], j.start[a]) \in Keyframes
    <3>1. frames[a] \in Keyframes
      BY <1>1
    <3> QED
      BY <3>1 DEF DeleteFrom, Keyframes
  <2> QED
    BY <1>0, <1>1, <2>1
<1>6. /\ Busy(k) /\ (~Rewriting(k) => k.todo \union k.cleanup = {})
      /\ Rewriting(j) /\ (Rewriting(k) \/ k.stage = "total")
  BY <1>0, <1>4 DEF Busy, Rewriting
<1>7. k.todo \subseteq j.todo /\ k.cleanup \subseteq j.cleanup
  BY <1>4
<1>8. \A b \in k.saving, d \in Day : d >= k.start[b] => frames'[b][d] = NoFrame
  BY <1>0, <1>4
<1>10. WritesAs(r, k)
  BY <1>0, <1>1, <1>4, <1>5, <1>6, <1>7, <1>8 DEF WritesAs
<1> QED
  BY <1>10

\* The second of the two writes.
LEMMA SaveWrites ==
    ASSUME SnapInv, NEW r \in Runner, NEW a \in Account, SaveRange(r, a)
    PROVE  \E g : WritesAs(r, g)
<1> DEFINE j == jobs[r]
           k == [j EXCEPT !.stage = "prune", !.saving = {}, !.todo = @ \ {a}]
           s == j.start[a]
<1>0. /\ j.stage = "write" /\ a \in j.saving
      /\ frames' = [frames EXCEPT ![a] = Save(frames[a], j.out[a])]
      /\ jobs' = [jobs EXCEPT ![r] = k]
      /\ Apart /\ missed' = missed
  BY DEF SaveRange, Apart, Edits
<1>1. /\ JobOK(j) /\ Busy(j) /\ DOMAIN j = JobFields /\ frames \in [Account -> Keyframes]
      /\ frames[a] \in Keyframes /\ s \in Day /\ j.out[a] \in Keyframes
      /\ a \in j.todo /\ j.mode # "full"
  BY <1>0, WritingFrom DEF JobOK, Rewriting
<1>4. /\ k.mode = j.mode /\ k.accounts = j.accounts /\ k.since = j.since /\ k.failed = j.failed
      /\ k.saving = {} /\ k.todo = j.todo \ {a} /\ k.cleanup = j.cleanup
      /\ k.start = j.start /\ k.out = j.out /\ k.stage = "prune"
  BY <1>1 DEF JobFields
<1> HIDE DEF k, s
<1>5. DeleteFrom(frames[a], s) = frames[a] /\ Save(frames[a], j.out[a]) \in Keyframes
  <2>1. \A d \in Day : d >= s => frames[a][d] = NoFrame
    BY <1>0 DEF SnapInv, DeletedFrom, s
  <2> QED
    BY <1>1, <2>1, WriteTwice
<1>6. /\ frames' \in [Account -> Keyframes] /\ frames'[a] = Save(frames[a], j.out[a])
      /\ \A b \in Account : b # a => frames'[b] = frames[b]
  BY <1>0, <1>1, <1>5
<1>7. ASSUME NEW b \in Account PROVE FramesWith(k, frames', b) = FramesWith(j, frames, b)
  <2>1. CASE b = a
    <3>1. FramesWith(k, frames', b) = Save(frames[a], j.out[a])
      BY <1>4, <1>6, <2>1 DEF FramesWith
    <3>2. FramesWith(j, frames, b) = Save(DeleteFrom(frames[a], s), j.out[a])
      BY <1>1, <2>1 DEF FramesWith, Written, s
    <3> QED
      BY <1>5, <3>1, <3>2
  <2>2. CASE b # a
    BY <1>4, <1>6, <2>2 DEF FramesWith, Written
  <2> QED
    BY <2>1, <2>2
<1>8. /\ Busy(k) /\ (~Rewriting(k) => k.todo \union k.cleanup = {})
      /\ Rewriting(j) /\ (Rewriting(k) \/ k.stage = "total")
  BY <1>0, <1>4 DEF Busy, Rewriting
<1>9. k.todo \subseteq j.todo /\ k.cleanup \subseteq j.cleanup
  BY <1>4
<1>10. WritesAs(r, k)
  BY <1>0, <1>1, <1>4, <1>6, <1>7, <1>8, <1>9, ThinsSame DEF WritesAs
<1> QED
  BY <1>10

\* The prune, which may fail, thins out what is stored and nothing of what is
\* to come on the days that are kept.
LEMMA PruneWrites ==
    ASSUME SnapInv, NEW r \in Runner, PrunesOn(r)
    PROVE  \E g : WritesAs(r, g)
<1> DEFINE j == jobs[r]
           h == [j EXCEPT !.stage = "write"]
           k == Step(h)
<1>0. /\ j.stage = "prune" /\ jobs' = [jobs EXCEPT ![r] = k]
      /\ frames' = frames \/ frames' = [a \in Account |-> Prune(frames[a])]
      /\ Apart /\ missed' = missed
  BY DEF PrunesOn, PruneAfterSave, PruneOld, AfterPrune, Fault, InMemory, Apart, Edits
<1>1. /\ JobOK(j) /\ Busy(j) /\ DOMAIN j = JobFields /\ frames \in [Account -> Keyframes]
      /\ JobSane(r, j)
  BY <1>0, WritingFrom DEF Rewriting
<1>2. /\ DOMAIN h = JobFields /\ h.stage = "write"
      /\ \A f \in JobFields \ {"stage"} : h[f] = j[f]
  BY <1>1 DEF JobFields
<1> HIDE DEF h
<1>3. /\ \A f \in JobFields \ {"stage"} : k[f] = h[f]
      /\ k.stage = IF h.todo \union h.cleanup = {} THEN "total" ELSE h.stage
  BY <1>2, StepKeeps
<1>4. /\ k.mode = j.mode /\ k.accounts = j.accounts /\ k.since = j.since /\ k.failed = j.failed
      /\ k.saving = j.saving /\ k.todo = j.todo /\ k.cleanup = j.cleanup
      /\ k.start = j.start /\ k.out = j.out
      /\ k.stage = IF k.todo \union k.cleanup = {} THEN "total" ELSE "write"
  BY <1>2, <1>3 DEF JobFields
<1> HIDE DEF k
<1>5. k.saving = {}
  BY <1>0, <1>1, <1>4 DEF JobOK
<1>6. \A a \in Account : frames'[a] \in Keyframes /\ Thins(frames'[a], frames[a])
  BY <1>0, <1>1, PruneShows, ThinsSame
<1>7. frames' \in [Account -> Keyframes]
  BY <1>0, <1>1, <1>6
<1>8. ASSUME NEW a \in Account PROVE Thins(FramesWith(k, frames', a), FramesWith(j, frames, a))
  <2>1. CASE a \notin j.todo
    BY <1>4, <1>6, <2>1 DEF FramesWith
  <2>2. CASE a \in j.todo /\ j.mode = "full"
    BY <1>4, <2>2, ThinsSame DEF FramesWith, Written
  <2>3. CASE a \in j.todo /\ j.mode # "full"
    <3> DEFINE s == j.start[a]
               out == j.out[a]
    <3>1. s \in Day /\ out[s] # NoFrame /\ \A d \in Day : d < s => out[d] = NoFrame
      BY <1>1, <2>3 DEF JobSane
    <3>2. /\ FramesWith(k, frames', a) = Save(DeleteFrom(frames'[a], s), out)
          /\ FramesWith(j, frames, a) = Save(DeleteFrom(frames[a], s), out)
      BY <1>4, <2>3 DEF FramesWith, Written
    <3> HIDE DEF s, out
    <3>3. Thins(Save(DeleteFrom(frames'[a], s), out), Save(DeleteFrom(frames[a], s), out))
      BY <1>6, <3>1, RewriteThins
    <3> QED
      BY <3>2, <3>3
  <2> QED
    BY <2>1, <2>2, <2>3
<1>9. /\ Busy(k) /\ (~Rewriting(k) => k.todo \union k.cleanup = {})
      /\ Rewriting(j) /\ (Rewriting(k) \/ k.stage = "total")
  BY <1>0, <1>4 DEF Busy, Rewriting
<1>10. k.todo \subseteq j.todo /\ k.cleanup \subseteq j.cleanup
  BY <1>4
<1>11. WritesAs(r, k)
  BY <1>0, <1>1, <1>4, <1>5, <1>7, <1>8, <1>9, <1>10 DEF WritesAs
<1> QED
  BY <1>11

\* The writes of TOTAL that do not end the job.
TotalGoesOn(r) == BeginAppend(r) \/ AppendsOne(r) \/ DeleteTotalRange(r) \/ SaveTotalRange(r)

LEMMA TotalWrites ==
    ASSUME SnapInv, NEW r \in Runner, TotalGoesOn(r)
    PROVE  \E g : WritesAs(r, g)
<1> DEFINE j == jobs[r]
<1>1. /\ JobOK(j) /\ JobSane(r, j) /\ DOMAIN j = JobFields /\ frames \in [Account -> Keyframes]
  BY DEF SnapInv, Control, ListInv, TypeInv, JobOK
<1>2. /\ j.stage \in {"total", "total_append", "total_save"} /\ frames' = frames
      /\ Apart /\ missed' = missed
  BY DEF TotalGoesOn, BeginAppend, AppendsOne, AppendTotal, DeleteTotalRange, SaveTotalRange,
         Apart, Edits
<1>3. PICK k : /\ jobs' = [jobs EXCEPT ![r] = k]
               /\ k.stage \in {"total_append", "total_save", "total_prune"}
               /\ \A f \in JobFields \ {"stage", "totalOut"} : k[f] = j[f]
  <2>1. CASE BeginAppend(r)
    <3> DEFINE k == [j EXCEPT !.stage = "total_append", !.totalOut = TotalComputed(TotalStart(j))]
    <3>1. /\ k.stage = "total_append"
          /\ \A f \in JobFields \ {"stage", "totalOut"} : k[f] = j[f]
      BY <1>1 DEF JobFields
    <3>2. jobs' = [jobs EXCEPT ![r] = k]
      BY <2>1 DEF BeginAppend
    <3> HIDE DEF k
    <3> QED
      BY <3>1, <3>2
  <2>2. CASE AppendsOne(r)
    <3>1. PICK d : jobs' = [jobs EXCEPT ![r].totalOut[d] = NoFrame]
      BY <2>2 DEF AppendsOne
    <3> DEFINE k == [j EXCEPT !.totalOut[d] = NoFrame]
    <3>2. /\ k.stage = j.stage
          /\ \A f \in JobFields \ {"stage", "totalOut"} : k[f] = j[f]
      BY <1>1 DEF JobFields
    <3>3. jobs' = [jobs EXCEPT ![r] = k] /\ j.stage = "total_append"
      BY <2>2, <3>1 DEF AppendsOne, AppendTotal
    <3> HIDE DEF k
    <3> QED
      BY <3>2, <3>3
  <2>3. CASE DeleteTotalRange(r)
    <3> DEFINE k == [j EXCEPT !.stage = "total_save", !.totalOut = TotalComputed(j.since)]
    <3>1. /\ k.stage = "total_save"
          /\ \A f \in JobFields \ {"stage", "totalOut"} : k[f] = j[f]
      BY <1>1 DEF JobFields
    <3>2. jobs' = [jobs EXCEPT ![r] = k]
      BY <2>3 DEF DeleteTotalRange
    <3> HIDE DEF k
    <3> QED
      BY <3>1, <3>2
  <2>4. CASE SaveTotalRange(r)
    <3> DEFINE k == [j EXCEPT !.stage = "total_prune", !.totalOut = NoFrames]
    <3>1. /\ k.stage = "total_prune"
          /\ \A f \in JobFields \ {"stage", "totalOut"} : k[f] = j[f]
      BY <1>1 DEF JobFields
    <3>2. jobs' = [jobs EXCEPT ![r] = k]
      BY <2>4 DEF SaveTotalRange
    <3> HIDE DEF k
    <3> QED
      BY <3>1, <3>2
  <2> QED
    BY <2>1, <2>2, <2>3, <2>4 DEF TotalGoesOn
<1>4. /\ k.mode = j.mode /\ k.accounts = j.accounts /\ k.since = j.since /\ k.failed = j.failed
      /\ k.saving = j.saving /\ k.todo = j.todo /\ k.cleanup = j.cleanup
      /\ k.start = j.start /\ k.out = j.out
  BY <1>3 DEF JobFields
<1>5. j.todo = {} /\ j.cleanup = {} /\ j.saving = {} /\ ~Rewriting(j) /\ ~Rewriting(k)
      /\ Busy(j) /\ Busy(k)
  BY <1>1, <1>2, <1>3 DEF JobSane, JobOK, Busy, Rewriting
<1>6. \A b \in Account : FramesWith(k, frames', b) = FramesWith(j, frames, b)
  BY <1>2, <1>4, <1>5 DEF FramesWith
<1>7. /\ frames' \in [Account -> Keyframes] /\ k.todo \subseteq j.todo
      /\ k.cleanup \subseteq j.cleanup /\ k.todo \union k.cleanup = {}
      /\ \A b \in k.saving, d \in Day : d >= k.start[b] => frames'[b][d] = NoFrame
  BY <1>1, <1>2, <1>4, <1>5
<1>8. WritesAs(r, k)
  BY <1>2, <1>3, <1>4, <1>5, <1>6, <1>7, ThinsSame DEF WritesAs
<1> QED
  BY <1>8

-----------------------------------------------------------------------------
(***************************************************************************)
(* Ends and failures.                                                      *)
(***************************************************************************)
\* What is asked for of a day is asked for of the later ones, by the events and
\* by the jobs.
LEMMA UpwardsAll ==
    ASSUME Control, NEW a \in Account, NEW d \in Day, NEW k \in Day, d <= k
    PROVE  /\ <<a, d>> \in Owed => <<a, k>> \in Owed
           /\ \A r \in Runner : <<a, d>> \in Answered(r) => <<a, k>> \in Answered(r)
<1>0. /\ InFlight \subseteq Event /\ activities \in Book /\ <<a, k>> \in Cell
      /\ \A x \in Day : x \in Int
  <2>1. \A x \in Day : x \in Int
    BY RecalcAssumption DEF Day
  <2> QED
    BY <2>1 DEF Control, ListInv, TypeInv, Book, Cell
<1>1. <<a, d>> \in Owed => <<a, k>> \in Owed
  BY <1>0, OwedUpwards
<1>2. ASSUME NEW r \in Runner, <<a, d>> \in Answered(r)
      PROVE  <<a, k>> \in Answered(r)
  <2> DEFINE j == jobs[r]
  <2>1. /\ Answers(activities, r, j, <<a, d>>) /\ JobSane(r, j)
    BY <1>2 DEF Answered, Control
  <2>2. j.stage # "idle" /\ a \in j.accounts
    BY <2>1 DEF Answers
  <2>3. ASSUME r = Worker, Reaches(activities, a, j.since, d)
        PROVE  Reaches(activities, a, j.since, k)
    <3>1. j.since = 0 \/ j.since \in Day
      BY <2>1, <2>3 DEF JobSane
    <3>2. d >= j.since /\ j.since \in Day => k >= j.since
      BY <1>0
    <3> QED
      BY <2>3, <3>1, <3>2 DEF Reaches
  <2>4. ASSUME d >= j.start[a] PROVE k >= j.start[a]
    <3>1. j.start[a] \in Day \union {Never}
      BY <2>1 DEF JobSane
    <3>2. j.start[a] \in Int
      BY <1>0, <3>1, RecalcAssumption DEF Never
    <3> QED
      BY <1>0, <2>4, <3>2
  <2>5. KeyDays(j.totalOut, d) \subseteq KeyDays(j.totalOut, k)
    BY <1>0 DEF KeyDays
  <2>6. Answers(activities, r, j, <<a, k>>)
    BY <2>1, <2>2, <2>3, <2>4, <2>5 DEF Answers
  <2> QED
    BY <1>0, <2>6 DEF Answered
<1> QED
  BY <1>1, <1>2

\* A failure: what the job answers for is written off, and the keyframes written
\* so far are right elsewhere.
LEMMA FailSnap ==
    ASSUME SnapInv, ListInv', NEW r \in Runner, FailJob(r) \/ FailWrite(r)
    PROVE  SnapInv'
<1> DEFINE j == jobs[r]
           k == IF FailJob(r) THEN IdleJob
                ELSE [j EXCEPT !.stage = "total", !.failed = TRUE, !.todo = {},
                               !.cleanup = {}, !.saving = {}]
<1>0. /\ Control /\ JobOK(j) /\ JobSane(r, j) /\ DOMAIN j = JobFields /\ DOMAIN jobs = Runner
      /\ frames \in [Account -> Keyframes]
  BY DEF SnapInv, Control, ListInv, TypeInv, JobOK
<1>1. /\ j.stage # "idle" /\ jobs' = [jobs EXCEPT ![r] = k]
      /\ missed' = missed \union Answered(r) /\ Apart /\ frames' = frames
  <2>1. CASE FailJob(r)
    BY <2>1 DEF FailJob, Fault, InMemory, Apart
  <2>2. CASE ~FailJob(r)
    BY <2>2 DEF FailWrite, Fault, InMemory, Apart
  <2> QED
    BY <2>1, <2>2
<1>2. /\ k.todo = {} /\ k.cleanup = {} /\ k.saving = {} /\ k.stage # "planned"
      /\ k.mode = "since" => j.mode = "since" /\ k.accounts = j.accounts
      /\ Busy(k) => k.failed = TRUE
      /\ JobSane(r, k)
  <2>1. CASE FailJob(r)
    <3>1. k = IdleJob
      BY <2>1
    <3> HIDE DEF k
    <3>2. /\ k.stage = "idle" /\ k.mode = "full" /\ k.accounts = {}
          /\ k.since = 0 /\ k.todo = {} /\ k.cleanup = {} /\ k.saving = {}
          /\ k.failed = FALSE /\ k.start = [a \in Account |-> Never]
      BY <3>1 DEF IdleJob
    <3>3. k.start \in [Account -> Day \union {Never}]
      BY <3>2
    <3> QED
      BY <3>2, <3>3 DEF JobSane, Busy, Rewriting
  <2>2. CASE ~FailJob(r)
    <3>1. /\ k.stage = "total" /\ k.failed = TRUE /\ k.todo = {} /\ k.cleanup = {}
          /\ k.saving = {} /\ k.mode = j.mode /\ k.accounts = j.accounts /\ k.since = j.since
          /\ k.start = j.start
      BY <1>0, <2>2 DEF JobFields
    <3> HIDE DEF k
    <3> QED
      BY <1>0, <3>1 DEF JobSane, Busy, Rewriting
  <2> QED
    BY <2>1, <2>2
<1> HIDE DEF k
<1>3. MissedUpwards'
  BY <1>0, <1>1, UpwardsAll DEF Control, MissedUpwards
<1>4. LostWith(k, missed') = missed'
  BY <1>2 DEF LostWith, RepairedBy
<1>5. Running = Answered(r)
  <2>1. \A q \in Runner : q # r => Answered(q) = {}
    BY <1>0, <1>1, OthersIdle
  <2> QED
    BY <2>1 DEF Running
<1>6. ASSUME NEW a \in Account, NEW d \in Day,
             KeptIn(FramesWith(k, frames', a), d), <<a, d>> \notin LostWith(k, missed')
      PROVE  /\ <<a, d>> \notin Owed =>
                    Shown(FramesWith(k, frames', a), d, Empty) = Replay(activities, a, d)
             /\ <<a, d>> \notin DirectlyOwed => Stocked(FramesWith(k, frames', a), a, d)
  <2>1. FramesWith(k, frames', a) = frames[a]
    BY <1>1, <1>2 DEF FramesWith
  <2>2. <<a, d>> \notin Running \union missed
    BY <1>1, <1>4, <1>5, <1>6
  <2>3. <<a, d>> \in DirectlyOwed => <<a, d>> \in Owed
    <3>1. InFlight \subseteq Event /\ activities \in Book /\ d <= d
      BY RecalcAssumption DEF SnapInv, Control, ListInv, TypeInv, Book, Day
    <3> QED
      BY <3>1, OwedUpwards
  <2> QED
    BY <1>6, <2>1, <2>2, <2>3, Settled
<1>7. /\ \A a \in k.todo, d \in Day :
                d >= k.start[a] => <<a, d>> \in DirectlyOwed \/ Answers(activities, r, k, <<a, d>>)
      /\ \A a \in k.saving, d \in Day : d >= k.start[a] => frames'[a][d] = NoFrame
      /\ k.cleanup # {} => Pulling
      /\ frames' \in [Account -> Keyframes]
  BY <1>0, <1>1, <1>2
<1> QED
  BY <1>0, <1>1, <1>2, <1>3, <1>6, <1>7, JobSnap

\* The end of a job: everything it has computed is written.
Finishes(r) == ReplaceTotal(r) \/ AppendsLast(r) \/ PrunesLast(r)

LEMMA FinishSnap ==
    ASSUME SnapInv, ListInv', NEW r \in Runner, Finishes(r)
    PROVE  SnapInv'
<1> DEFINE j == jobs[r]
           k == IdleJob
<1>0. /\ Control /\ JobOK(j) /\ JobSane(r, j) /\ DOMAIN jobs = Runner
      /\ frames \in [Account -> Keyframes]
  BY DEF SnapInv, Control, ListInv, TypeInv
<1>1. /\ j.stage \in {"total", "total_append", "total_prune"} /\ jobs' = [jobs EXCEPT ![r] = k]
      /\ missed' = missed \ Repaired(r) /\ Apart
      /\ frames' = frames \/ frames' = [a \in Account |-> Prune(frames[a])]
  BY DEF Finishes, ReplaceTotal, AppendsLast, AppendTotal, PrunesLast, PruneAfterTotal, PruneOld,
         AfterTotalPrune, Fault, InMemory, Finish, Apart, Edits
<1>9. /\ \A a \in Account : frames'[a] \in Keyframes /\ Thins(frames'[a], frames[a])
      /\ frames' \in [Account -> Keyframes]
  <2>1. \A a \in Account : frames'[a] \in Keyframes /\ Thins(frames'[a], frames[a])
    BY <1>0, <1>1, PruneShows, ThinsSame
  <2> QED
    BY <1>0, <1>1, <2>1
<1>2. /\ k.todo = {} /\ k.cleanup = {} /\ k.saving = {} /\ k.stage = "idle" /\ k.mode = "full"
      /\ JobSane(r, k)
  <2>1. /\ k.stage = "idle" /\ k.mode = "full" /\ k.accounts = {}
        /\ k.since = 0 /\ k.todo = {} /\ k.cleanup = {} /\ k.saving = {}
        /\ k.failed = FALSE /\ k.start = [a \in Account |-> Never]
    BY DEF IdleJob
  <2>2. k.start \in [Account -> Day \union {Never}]
    BY <2>1
  <2> HIDE DEF k
  <2> QED
    BY <2>1, <2>2 DEF JobSane, Busy, Rewriting
<1> HIDE DEF k
<1>3. MissedUpwards'
  <2> SUFFICES ASSUME NEW a \in Account, NEW d \in Day, NEW m \in Day, <<a, d>> \in missed', d <= m
               PROVE  <<a, m>> \in missed'
    BY DEF MissedUpwards
  <2>1. <<a, d>> \in missed /\ <<a, m>> \in missed /\ <<a, d>> \notin RepairedBy(j, missed)
    BY <1>0, <1>1, RepairedIs DEF Control, MissedUpwards
  <2>2. <<a, m>> \notin RepairedBy(j, missed)
    BY <2>1 DEF RepairedBy
  <2> QED
    BY <1>1, <2>1, <2>2, RepairedIs
<1>4. WritesAlone(jobs, r) /\ \A q \in Runner : q # r => ~Busy(jobs[q])
  BY <1>0, <1>1, OthersIdle DEF WritesAlone
<1>5. /\ LostWith(k, missed') = Lost
      /\ Waiting = {} /\ DirectlyWaiting = {}
  <2>1. Lost = missed \ Repaired(r)
    <3>1. Lost = IF Busy(jobs[r]) THEN missed \ RepairedBy(jobs[r], missed) ELSE missed
      BY <1>4, LostIs DEF Lost
    <3> QED
      BY <1>1, <3>1, RepairedIs DEF Busy, Rewriting
  <2>2. jobs[Worker].stage # "planned"
    <3>1. r # Worker => jobs[Worker].stage = "idle"
      BY <1>0, <1>1, OthersIdle DEF Runner
    <3> QED
      BY <1>1, <3>1
  <2> QED
    BY <1>1, <1>2, <2>1, <2>2 DEF Waiting, DirectlyWaiting, LostWith, Busy, Rewriting
<1>6. \A a \in Account : Coming(a) = frames[a]
  <2>1. j.todo = {}
    BY <1>0, <1>1 DEF JobSane, Rewriting
  <2> QED
    BY <1>4, <2>1, ComingIs DEF Coming
<1>7. ASSUME NEW a \in Account, NEW d \in Day,
             KeptIn(FramesWith(k, frames', a), d), <<a, d>> \notin LostWith(k, missed')
      PROVE  /\ <<a, d>> \notin Owed =>
                    Shown(FramesWith(k, frames', a), d, Empty) = Replay(activities, a, d)
             /\ <<a, d>> \notin DirectlyOwed => Stocked(FramesWith(k, frames', a), a, d)
  <2>1. FramesWith(k, frames', a) = frames'[a] /\ Coming(a) = frames[a]
    BY <1>1, <1>2, <1>6 DEF FramesWith
  <2>2. ReplayAt(a, d) /\ HeldAt(a, d)
    BY DEF SnapInv
  <2>3. /\ KeptIn(frames[a], d)
        /\ Shown(frames'[a], d, Empty) = Shown(frames[a], d, Empty)
        /\ KeyDays(frames'[a], d) = {} <=> KeyDays(frames[a], d) = {}
    BY <1>7, <1>9, <2>1 DEF Thins
  <2> QED
    BY <1>5, <1>7, <2>1, <2>2, <2>3 DEF ReplayAt, HeldAt, Stocked
<1>8. /\ \A a \in k.todo, d \in Day :
                d >= k.start[a] => <<a, d>> \in DirectlyOwed \/ Answers(activities, r, k, <<a, d>>)
      /\ \A a \in k.saving, d \in Day : d >= k.start[a] => frames'[a][d] = NoFrame
      /\ k.cleanup # {} => Pulling /\ j.stage # "idle" /\ k.stage # "planned"
      /\ k.mode = "since" => j.mode = "since" /\ k.accounts = j.accounts
      /\ frames' \in [Account -> Keyframes]
  BY <1>0, <1>1, <1>2, <1>9
<1> QED
  BY <1>0, <1>1, <1>2, <1>3, <1>7, <1>8, JobSnap

\* A crash forgets what was asked for and what was computed: all of it is lost,
\* and the keyframes stored are right elsewhere.
LEMMA CrashSnap ==
    ASSUME SnapInv, ListInv', Crash
    PROVE  SnapInv'
<1>0. /\ Control /\ frames \in [Account -> Keyframes] /\ activities \in Book
      /\ InFlight \subseteq Event
  BY DEF SnapInv, Control, ListInv, TypeInv, Book
<1>1. /\ InFlight' = {} /\ updating' = {} /\ activities' = activities /\ frames' = frames
      /\ missed' = missed \union Owed \union Running
      /\ \A r \in Runner : jobs'[r] = IdleJob
      /\ Worker \in Runner
  BY DEF Crash, Fault, InFlight, Runner
<1>2. /\ IdleJob.stage = "idle" /\ IdleJob.mode = "full" /\ IdleJob.accounts = {}
      /\ IdleJob.since = 0 /\ IdleJob.todo = {} /\ IdleJob.cleanup = {} /\ IdleJob.saving = {}
      /\ IdleJob.failed = FALSE /\ IdleJob.start = [a \in Account |-> Never]
  BY DEF IdleJob
<1>3. \A r \in Runner : JobSane(r, jobs[r])'
  <2> SUFFICES ASSUME NEW r \in Runner PROVE JobSane(r, jobs[r])'
    OBVIOUS
  <2> DEFINE k == jobs'[r]
  <2>1. /\ k.stage = "idle" /\ k.mode = "full" /\ k.accounts = {}
        /\ k.since = 0 /\ k.todo = {} /\ k.cleanup = {} /\ k.saving = {}
        /\ k.failed = FALSE /\ k.start = [a \in Account |-> Never]
    BY <1>1, <1>2
  <2>2. k.start \in [Account -> Day \union {Never}]
    BY <2>1
  <2> QED
    BY <2>1, <2>2 DEF JobSane, Busy, Rewriting
<1>4. /\ \A r \in Runner : jobs'[r].stage = "idle" /\ jobs'[r].todo = {} /\ jobs'[r].saving = {}
                           /\ jobs'[r].cleanup = {} /\ jobs'[r].mode = "full"
                           /\ ~Busy(jobs'[r])
  BY <1>1, <1>2 DEF Busy, Rewriting
<1>5. MissedUpwards'
  <2> SUFFICES ASSUME NEW a \in Account, NEW d \in Day, NEW m \in Day, <<a, d>> \in missed', d <= m
               PROVE  <<a, m>> \in missed'
    BY DEF MissedUpwards
  <2>1. <<a, d>> \in missed => <<a, m>> \in missed
    BY <1>0 DEF Control, MissedUpwards
  <2>2. /\ <<a, d>> \in Owed => <<a, m>> \in Owed
        /\ <<a, d>> \in Running => <<a, m>> \in Running
    BY <1>0, UpwardsAll DEF Running
  <2> QED
    BY <1>1, <2>1, <2>2
<1>6. Control'
  <2>1. OneJob' /\ UpdatesCurrent' /\ SeedsKept'
    BY <1>1, <1>4 DEF OneJob, UpdatesCurrent, SeedsKept
  <2>2. AccountsTrade'
    BY <1>1, <1>4 DEF AccountsTrade
  <2> QED
    BY <1>0, <1>1, <1>3, <1>5, <2>1, <2>2 DEF Control
<1>7. WritesAnswered' /\ DeletedFrom'
  BY <1>4 DEF WritesAnswered, DeletedFrom
<1>8. \A a \in Account : Coming(a)' = frames[a]
  BY <1>1, <1>4 DEF Coming, ComingIn
<1>9. Lost' = missed'
  BY <1>4 DEF Lost, LostIn
<1>10. ASSUME NEW a \in Account, NEW d \in Day
       PROVE  (ReplayAt(a, d) /\ HeldAt(a, d))'
  <2>1. KeptIn(frames[a], d) /\ <<a, d>> \notin missed' =>
            /\ Shown(frames[a], d, Empty) = Replay(activities, a, d)
            /\ Stocked(frames[a], a, d)
    <3>1. <<a, d>> \in DirectlyOwed => <<a, d>> \in Owed
      <4>1. d <= d
        BY RecalcAssumption DEF Day
      <4> QED
        BY <1>0, <4>1, OwedUpwards
    <3> QED
      BY <1>1, <3>1, Settled
  <2>2. ReplayAt(a, d)'
    BY <1>1, <1>8, <1>9, <2>1 DEF ReplayAt
  <2>3. HeldAt(a, d)'
    BY <1>1, <1>8, <1>9, <2>1 DEF HeldAt, Stocked
  <2> QED
    BY <2>2, <2>3
<1> QED
  BY <1>6, <1>7, <1>10 DEF SnapInv

-----------------------------------------------------------------------------
LEMMA NextSnap ==
    ASSUME Cases = {}
    PROVE  SnapInv /\ [Next]_vars => SnapInv'
<1> SUFFICES ASSUME SnapInv, [Next]_vars PROVE SnapInv'
  OBVIOUS
<1>0. ListInv'
  <2>1. ListInv /\ Plain
    BY DEF SnapInv, Control, Plain
  <2> QED
    BY <2>1, NextTyped, StepImplements DEF ListInv
<1>1. CASE Edit
  BY <1>0, <1>1, EditSnap
<1>2. CASE \E u \in updating : FailUpdate(u)
  <2>1. InFlight' = InFlight /\ UNCHANGED <<activities, jobs, frames, missed>>
        /\ updating' \subseteq updating
    BY <1>2 DEF FailUpdate, InFlight
  <2>2. UpdatesCurrent'
    BY <2>1 DEF SnapInv, Control, UpdatesCurrent
  <2> QED
    BY <1>0, <2>1, <2>2, QuietSnap
<1>3. CASE QueueStep
  <2>1. InFlight' = InFlight /\ UNCHANGED <<activities, updating, jobs, missed>>
    BY <1>3, QueueMoves
  <2>2. frames' = frames
    BY <1>3 DEF QueueStep, Emit, Receive
  <2>3. UpdatesCurrent'
    BY <2>1 DEF SnapInv, Control, UpdatesCurrent
  <2> QED
    BY <1>0, <2>1, <2>2, <2>3, QuietSnap
<1>4. CASE ProcessBatch
  BY <1>0, <1>4, BatchSnap
<1>5. CASE \E c \in Caller, accounts \in (SUBSET Account) \ {{}} :
            StartCall(c, "full", accounts) \/ StartCall(c, "incremental", accounts)
  <2>1. PICK c \in Caller, accounts \in (SUBSET Account) \ {{}}, mode \in {"full", "incremental"} :
          StartCall(c, mode, accounts)
    BY <1>5
  <2>2. accounts \in SUBSET Account /\ c # Worker
    BY RecalcAssumption
  <2> QED
    BY <1>0, <2>1, <2>2, CallSnap
<1>6. CASE \E r \in Runner : JobStep(r) \/ FailJob(r) \/ FailWrite(r) \/ FailPrune(r)
  <2>1. PICK r \in Runner : JobStep(r) \/ FailJob(r) \/ FailWrite(r) \/ FailPrune(r)
    BY <1>6
  <2>2. \/ Read(r) \/ FailJob(r) \/ FailWrite(r) \/ Finishes(r) \/ TotalGoesOn(r) \/ PrunesOn(r)
        \/ \E a \in Account : OverwriteAll(r, a) \/ DeleteRange(r, a) \/ SaveRange(r, a)
    BY <2>1, JobKinds DEF Works, Appends, Ends, Finishes, TotalGoesOn
  <2>3. CASE Read(r)
    BY <1>0, <2>3, ReadIs, NothingSnap, SomethingSnap
  <2>4. CASE FailJob(r) \/ FailWrite(r)
    BY <1>0, <2>4, FailSnap
  <2>5. CASE Finishes(r)
    BY <1>0, <2>5, FinishSnap
  <2>6. CASE TotalGoesOn(r)
    BY <1>0, <2>6, TotalWrites, WritesSnap
  <2>8. CASE PrunesOn(r)
    BY <1>0, <2>8, PruneWrites, WritesSnap
  <2>7. CASE \E a \in Account : OverwriteAll(r, a) \/ DeleteRange(r, a) \/ SaveRange(r, a)
    <3>1. PICK a \in Account : OverwriteAll(r, a) \/ DeleteRange(r, a) \/ SaveRange(r, a)
      BY <2>7
    <3> QED
      BY <1>0, <3>1, OverwriteWrites, DeleteWrites, CleanWrites, SaveWrites, WritesSnap
  <2> QED
    BY <2>2, <2>3, <2>4, <2>5, <2>6, <2>7, <2>8
<1>7. CASE Crash
  BY <1>0, <1>7, CrashSnap
<1>8. CASE UNCHANGED vars
  <2>1. InFlight' = InFlight /\ UNCHANGED <<activities, updating, jobs, frames, missed>>
    BY <1>8 DEF vars, InFlight
  <2>2. UpdatesCurrent'
    BY <2>1 DEF SnapInv, Control, UpdatesCurrent
  <2> QED
    BY <1>0, <2>1, <2>2, QuietSnap
<1> QED
  BY <1>1, <1>2, <1>3, <1>4, <1>5, <1>6, <1>7, <1>8 DEF Next, Queue, QueueStep

\* In the plain situations no edit, no batch, no resumption from an older
\* keyframe, no split, no prune, no failure and no crash leaves the snapshots of
\* a retained day wrong, unless the day is still on a list: whatever the
\* accounts, activities, days, months, callers and bounds.
THEOREM ReplayShown ==
    ASSUME Cases = {}
    PROVE  Spec => []SnapshotsAreReplay
<1>1. Init => SnapInv
  BY InitSnap
<1>2. SnapInv /\ [Next]_vars => SnapInv'
  BY NextSnap
<1>3. SnapInv => SnapshotsAreReplay
  BY SnapImplies
<1> QED
  BY <1>1, <1>2, <1>3, PTL DEF Spec

-----------------------------------------------------------------------------
(***************************************************************************)
(* TOTAL.  On a calm day, one that no account is waiting for and on which  *)
(* no split can reach, TOTAL shows the sum of the replays, once the days   *)
(* computed and not yet appended are written.  A caller's incremental job  *)
(* does not disturb the calm: it only writes again what is shown already.  *)
(***************************************************************************)
Splitting == \E a \in Account : SplitDays(activities, a) # {}
Settling == UNION {Answered(r) : r \in {q \in Runner : jobs[q].mode # "incremental"}}
Calm(d) ==
    ~Splitting /\ \A a \in Account : <<a, d>> \notin Owed \union Settling \union missed

Nothing == [a \in Account |-> Empty]
SumShown(d) == [a \in Account |-> Shown(frames[a], d, Empty)]
SumReplayed(d) == [a \in Account |-> Replay(activities, a, d)]

\* The keyframes of TOTAL when the job that appends to it is done.
TotalComingIn(js, t) ==
    IF \E r \in Runner : js[r].stage = "total_append"
    THEN Save(t, js[CHOOSE r \in Runner : js[r].stage = "total_append"].totalOut)
    ELSE t
TotalComing == TotalComingIn(jobs, total)

TotalAt(d) == Retained(d) /\ Calm(d) => Shown(TotalComing, d, Nothing) = SumReplayed(d)

\* A retained day from s on shows a keyframe of a day from s on.
ShowsFrom(f, s) == \A d \in Day : Retained(d) /\ d >= s => \E k \in KeyDays(f, d) : k >= s

\* A job from a day on starts no account before that day and leaves an account
\* with keyframes of its own from there, or has written its days off.
SinceSound(r) ==
    LET j == jobs[r] IN
    /\ \A a \in j.accounts : j.start[a] >= j.since
    /\ IF j.failed
       THEN \A a \in j.accounts, d \in Day : d >= j.since => <<a, d>> \in missed
       ELSE \E a \in j.accounts : ShowsFrom(Coming(a), j.since)

\* Keyframes t of TOTAL show the sum of the accounts on day d, or no account has
\* a keyframe from day s to day d.
SumOrEarlier(t, s, d) ==
    \/ Shown(t, d, Nothing) = SumShown(d)
    \/ \A n \in AccountDays : ~(s <= n /\ n <= d)

\* What a job has in hand when it comes to TOTAL.
TotalSane(r) ==
    LET j == jobs[r] IN
    /\ j.stage # "idle" => j.accounts # {} \/ (Account = {} /\ j.mode = "full")
    /\ j.stage = "total_append" =>
            /\ j.mode = "incremental"
            /\ DOMAIN j.totalOut = Day /\ KeyDays(j.totalOut, Today) # {}
    /\ j.stage = "total_save" =>
            /\ j.mode = "since" /\ j.totalOut = TotalComputed(j.since)
            /\ \A k \in Day : k >= j.since => total[k] = NoFrame
    /\ j.stage = "total_prune" =>
            /\ j.mode = "since"
            /\ \A d \in Day : Retained(d) => SumOrEarlier(total, j.since, d)
    /\ Busy(j) /\ j.mode = "since" => Pulling \/ Splitting \/ SinceSound(r)

TotalInv ==
    /\ SnapInv
    /\ DOMAIN total = Day
    /\ \A r \in Runner : TotalSane(r)
    /\ \A d \in Day : TotalAt(d)

\* Days without a keyframe in between show the same.
LEMMA ShownAcross ==
    ASSUME NEW f, NEW m \in Day, NEW d \in Day, m <= d,
           \A k \in Day : m < k /\ k <= d => f[k] = NoFrame, NEW none
    PROVE  Shown(f, d, none) = Shown(f, m, none)
<1>0. \A k \in Day : k \in Int
  BY RecalcAssumption DEF Day
<1>1. \A k \in Day : k <= d /\ f[k] # NoFrame <=> k <= m /\ f[k] # NoFrame
  BY <1>0
<1>2. KeyDays(f, d) = KeyDays(f, m)
  BY <1>1 DEF KeyDays
<1>3. LatestDay(f, d) = LatestDay(f, m)
  BY <1>2 DEF LatestDay
<1> QED
  BY <1>3 DEF Shown

\* The sum of what the accounts show is a keyframe of TOTAL.
LEMMA SumTyped ==
    ASSUME frames \in [Account -> Keyframes], NEW d
    PROVE  SumShown(d) # NoFrame
<1>1. ASSUME NEW a \in Account PROVE Shown(frames[a], d, Empty) \in Amounts
  <2>0. frames[a] \in Keyframes
    OBVIOUS
  <2>1. CASE KeyDays(frames[a], d) = {}
    BY <2>1, ShownAt DEF Amounts, Empty
  <2>2. CASE KeyDays(frames[a], d) # {}
    BY <2>0, <2>2, ShownAt DEF Keyframes
  <2> QED
    BY <2>1, <2>2
<1>2. SumShown(d) \in [Account -> Amounts]
  BY <1>1 DEF SumShown
<1> QED
  BY <1>2, RecalcAssumption DEF Amounts

\* The days TOTAL has keyframes on.
LEMMA AccountDaysAre ==
    /\ AccountDays \subseteq Day
    /\ \A a \in Account, k \in Day : k \notin AccountDays => frames[a][k] = NoFrame
    /\ \A k \in AccountDays : \E a \in Account : frames[a][k] # NoFrame
<1>1. \A k \in Day : k <= Today
  BY RecalcAssumption DEF Day
<1> QED
  BY <1>1 DEF AccountDays, KeyDays

LEMMA ComputedIs ==
    ASSUME frames \in [Account -> Keyframes], NEW s, NEW k \in Day
    PROVE  /\ k \in AccountDays /\ k >= s => /\ TotalComputed(s)[k] = SumShown(k)
                                             /\ TotalComputed(s)[k] # NoFrame
           /\ ~(k \in AccountDays /\ k >= s) => TotalComputed(s)[k] = NoFrame
<1>1. TotalComputed(s)[k] = IF k \in AccountDays /\ k >= s THEN SumShown(k) ELSE NoFrame
  BY DEF TotalComputed, SumShown
<1> QED
  BY <1>1, SumTyped

\* From the first keyframe of a computation on, TOTAL shows the sums.
LEMMA ComputedShows ==
    ASSUME frames \in [Account -> Keyframes], NEW T, NEW s \in Day, NEW d \in Day,
           \A k \in Day : k >= s => T[k] = TotalComputed(s)[k],
           NEW n \in AccountDays, s <= n, n <= d
    PROVE  Shown(T, d, Nothing) = SumShown(d)
<1>0. /\ \A k \in Day : k \in Int
      /\ n \in Day
  BY RecalcAssumption, AccountDaysAre DEF Day
<1> DEFINE m == LatestDay(T, d)
<1>1. n \in KeyDays(T, d)
  <2>1. n >= s
    BY <1>0
  <2>2. T[n] # NoFrame
    BY <1>0, <2>1, ComputedIs
  <2> QED
    BY <1>0, <2>2 DEF KeyDays
<1>2. m \in KeyDays(T, d) /\ \A k \in KeyDays(T, d) : k <= m
  BY <1>1, LatestIsKey
<1>3. m \in Day /\ m <= d /\ T[m] # NoFrame /\ n <= m
  BY <1>1, <1>2 DEF KeyDays
<1>4. Shown(T, d, Nothing) = T[m]
  BY <1>1, ShownAt
<1> HIDE DEF m
<1>5. m >= s
  BY <1>0, <1>3
<1>6. T[m] = SumShown(m)
  BY <1>3, <1>5, ComputedIs
<1>7. ASSUME NEW a \in Account, NEW k \in Day, m < k, k <= d PROVE frames[a][k] = NoFrame
  <2>1. ~(k <= m) /\ k >= s
    BY <1>0, <1>3, <1>5, <1>7
  <2>2. k \notin KeyDays(T, d)
    BY <1>2, <2>1
  <2>3. T[k] = NoFrame
    BY <1>7, <2>2 DEF KeyDays
  <2>4. k \notin AccountDays
    BY <2>1, <2>3, ComputedIs
  <2> QED
    BY <2>4, AccountDaysAre
<1>8. ASSUME NEW a \in Account PROVE Shown(frames[a], d, Empty) = Shown(frames[a], m, Empty)
  <2> DEFINE f == frames[a]
  <2>1. \A k \in Day : m < k /\ k <= d => f[k] = NoFrame
    BY <1>7
  <2> HIDE DEF f
  <2>2. Shown(f, d, Empty) = Shown(f, m, Empty)
    BY <1>3, <2>1, ShownAcross
  <2> QED
    BY <2>2 DEF f
<1>9. SumShown(d) = SumShown(m)
  BY <1>8 DEF SumShown
<1> QED
  BY <1>4, <1>6, <1>9

\* A TOTAL computed from the first day on shows the sums of all days.
LEMMA WholeShows ==
    ASSUME frames \in [Account -> Keyframes], NEW d \in Day
    PROVE  Shown(TotalComputed(1), d, Nothing) = SumShown(d)
<1>0. 1 \in Day /\ \A k \in Day : k \in Int /\ 1 <= k /\ k >= 1
  BY RecalcAssumption DEF Day
<1>1. CASE \E n \in AccountDays : n <= d
  <2>1. PICK n \in AccountDays : n <= d
    BY <1>1
  <2>2. 1 <= n
    BY <1>0, AccountDaysAre
  <2> DEFINE T == TotalComputed(1)
  <2>3. \A k \in Day : k >= 1 => T[k] = TotalComputed(1)[k]
    OBVIOUS
  <2> HIDE DEF T
  <2>4. Shown(T, d, Nothing) = SumShown(d)
    BY <1>0, <2>1, <2>2, <2>3, ComputedShows
  <2> QED
    BY <2>4 DEF T
<1>2. CASE \A n \in AccountDays : ~(n <= d)
  <2>1. \A k \in Day : k <= d => TotalComputed(1)[k] = NoFrame
    BY <1>2, ComputedIs
  <2>2. Shown(TotalComputed(1), d, Nothing) = Nothing
    BY <2>1, ShownAt DEF KeyDays
  <2>3. \A a \in Account : \A k \in Day : k <= d => frames[a][k] = NoFrame
    BY <1>2, AccountDaysAre
  <2>4. \A a \in Account : KeyDays(frames[a], d) = {}
    BY <2>3 DEF KeyDays
  <2>5. \A a \in Account : Shown(frames[a], d, Empty) = Empty
    BY <2>4, ShownAt
  <2> QED
    BY <2>2, <2>5 DEF SumShown, Nothing
<1> QED
  BY <1>1, <1>2

\* Saving a computation behind the last keyframe: a day shows the sum, or what
\* it showed, and then no account has a keyframe from the first day on.
LEMMA AppendShows ==
    ASSUME frames \in [Account -> Keyframes], NEW s \in Day, NEW d \in Day,
           \A k \in Day : k >= s => total[k] = NoFrame
    PROVE  LET T == Save(total, TotalComputed(s)) IN
           \/ Shown(T, d, Nothing) = SumShown(d)
           \/ /\ Shown(T, d, Nothing) = Shown(total, d, Nothing)
              /\ \A k \in AccountDays : ~(s <= k /\ k <= d)
<1> DEFINE T == Save(total, TotalComputed(s))
<1>0. \A k \in Day : k \in Int
  BY RecalcAssumption DEF Day
<1>1. ASSUME NEW k \in Day
      PROVE  T[k] = IF TotalComputed(s)[k] = NoFrame THEN total[k] ELSE TotalComputed(s)[k]
  BY DEF Save
<1> HIDE DEF T
<1>2. \A k \in Day : k >= s => T[k] = TotalComputed(s)[k]
  BY <1>1
<1>3. CASE \E n \in AccountDays : s <= n /\ n <= d
  BY <1>2, <1>3, ComputedShows DEF T
<1>4. CASE \A n \in AccountDays : ~(s <= n /\ n <= d)
  <2>1. ASSUME NEW k \in Day, k <= d PROVE T[k] = total[k]
    <3>1. ~(k \in AccountDays /\ k >= s)
      BY <1>0, <1>4, <2>1
    <3> QED
      BY <1>1, <3>1, ComputedIs
  <2>2. Shown(T, d, Nothing) = Shown(total, d, Nothing)
    BY <2>1, ShownBelow
  <2> QED
    BY <1>4, <2>2 DEF T
<1> QED
  BY <1>3, <1>4

\* What is to come of TOTAL is told by the one job that may be appending.
LEMMA TotalComingIs ==
    ASSUME NEW js, NEW t, NEW r \in Runner,
           \A q \in Runner : q # r => js[q].stage # "total_append"
    PROVE  /\ js[r].stage = "total_append" => TotalComingIn(js, t) = Save(t, js[r].totalOut)
           /\ js[r].stage # "total_append" => TotalComingIn(js, t) = t
<1>1. CASE js[r].stage = "total_append"
  <2> DEFINE w == CHOOSE q \in Runner : js[q].stage = "total_append"
  <2>1. w = r
    <3>1. w \in Runner /\ js[w].stage = "total_append"
      BY <1>1
    <3> QED
      BY <3>1
  <2>2. TotalComingIn(js, t) = Save(t, js[w].totalOut)
    BY <1>1 DEF TotalComingIn
  <2> QED
    BY <1>1, <2>1, <2>2
<1>2. CASE js[r].stage # "total_append"
  BY <1>2 DEF TotalComingIn
<1> QED
  BY <1>1, <1>2

LEMMA NoneAppends ==
    ASSUME NEW js, NEW t, \A q \in Runner : js[q].stage # "total_append"
    PROVE  TotalComingIn(js, t) = t
BY DEF TotalComingIn

\* The days to append that are not due show already what they will.
LEMMA ComingShows ==
    ASSUME TotalInv, NEW d \in Day, \A a \in Account : <<a, d>> \notin Running
    PROVE  Shown(TotalComing, d, Nothing) = Shown(total, d, Nothing)
<1>1. CASE \A q \in Runner : jobs[q].stage # "total_append"
  BY <1>1, NoneAppends DEF TotalComing
<1>2. CASE \E q \in Runner : jobs[q].stage = "total_append"
  <2>1. PICK r \in Runner : jobs[r].stage = "total_append"
    BY <1>2
  <2> DEFINE j == jobs[r]
             out == j.totalOut
  <2>2. /\ JobSane(r, j) /\ TotalSane(r) /\ Control
    BY DEF TotalInv, SnapInv, Control
  <2>3. j.mode = "incremental" /\ r # Worker
    BY <2>1, <2>2 DEF TotalSane, JobSane
  <2>4. PICK a \in j.accounts : a \in Account
    BY <2>1, <2>2, <2>3 DEF TotalSane, JobSane
  <2>5. KeyDays(out, d) = {}
    <3>1. <<a, d>> \in Cell /\ <<a, d>> \notin Answered(r)
      BY <2>4 DEF Running, Cell
    <3> QED
      BY <2>1, <2>3, <2>4, <3>1 DEF Answered, Answers
  <2>6. \A q \in Runner : q # r => jobs[q].stage # "total_append"
    BY <2>1, <2>2 DEF Control, OneJob
  <2>7. TotalComing = Save(total, out)
    BY <2>1, <2>6, TotalComingIs DEF TotalComing
  <2>8. \A k \in Day : k <= d => out[k] = NoFrame
    BY <2>5 DEF KeyDays
  <2> HIDE DEF out
  <2>9. \A k \in Day : k <= d => Save(total, out)[k] = total[k]
    BY <2>8 DEF Save
  <2> QED
    BY <2>7, <2>9, ShownBelow
<1> QED
  BY <1>1, <1>2

\* Of keyframes that are thinned out a retained day shows the same day's.
LEMMA ThinShowsFrom ==
    ASSUME NEW g, NEW h, Thins(g, h), NEW s, s \in Int, ShowsFrom(h, s)
    PROVE  ShowsFrom(g, s)
<1> SUFFICES ASSUME NEW d \in Day, Retained(d), d >= s
             PROVE  \E k \in KeyDays(g, d) : k >= s
  BY DEF ShowsFrom
<1>1. /\ KeyDays(g, d) = {} <=> KeyDays(h, d) = {}
      /\ LatestDay(g, d) = LatestDay(h, d)
  BY DEF Thins, KeptIn
<1>2. PICK k \in KeyDays(h, d) : k >= s
  BY DEF ShowsFrom
<1>3. k <= LatestDay(h, d) /\ LatestDay(g, d) \in KeyDays(g, d)
  BY <1>1, <1>2, LatestIsKey
<1>4. k \in Int /\ LatestDay(g, d) \in Int
  BY <1>2, <1>3, RecalcAssumption DEF KeyDays, Day
<1> QED
  BY <1>1, <1>2, <1>3, <1>4

-----------------------------------------------------------------------------
(***************************************************************************)
(* The calm, from step to step.                                            *)
(***************************************************************************)
\* What keeps an account waiting on a day.
Waited == Owed \union Settling \union missed

\* A day that is calm after a step that takes nothing off the lists was calm.
LEMMA CalmBefore ==
    ASSUME Waited \subseteq Waited', Splitting => Splitting', NEW d, Calm(d)'
    PROVE  Calm(d)
BY DEF Calm, Waited

\* Settling is what the one job that runs answers for.
LEMMA SettlingIs ==
    ASSUME NEW r \in Runner, \A q \in Runner : q # r => Answered(q) = {}
    PROVE  Settling = IF jobs[r].mode = "incremental" THEN {} ELSE Answered(r)
<1>1. ASSUME NEW c PROVE c \in Settling <=> c \in Answered(r) /\ jobs[r].mode # "incremental"
  BY DEF Settling
<1> QED
  BY <1>1

LEMMA SettlingThen ==
    ASSUME NEW r \in Runner, NEW k, jobs'[r] = k, activities' = activities,
           \A q \in Runner : q # r => jobs'[q].stage = "idle"
    PROVE  Settling' = IF k.mode = "incremental" THEN {}
                       ELSE {c \in Cell : Answers(activities, r, k, c)}
<1>1. \A q \in Runner : q # r => Answered(q)' = {}
  BY DEF Answered, Answers
<1>2. Answered(r)' = {c \in Cell : Answers(activities, r, k, c)}
  BY DEF Answered
<1>3. ASSUME NEW c PROVE c \in Settling' <=> c \in Answered(r)' /\ k.mode # "incremental"
  BY <1>1 DEF Settling
<1> QED
  BY <1>2, <1>3

\* Nothing is required of an idle job.
LEMMA IdleSane ==
    ASSUME NEW r
    PROVE  /\ jobs[r].stage = "idle" => TotalSane(r)
           /\ jobs'[r].stage = "idle" => TotalSane(r)'
BY DEF TotalSane, Busy, Rewriting

\* What a job has in hand looks at the jobs, the keyframes and the failures.
LEMMA SaneAlike ==
    ASSUME UNCHANGED <<jobs, frames, total, missed>>, Pulling => Pulling',
           Splitting => Splitting', NEW r, TotalSane(r)
    PROVE  TotalSane(r)'
<1>1. \A a : Coming(a)' = Coming(a)
  BY DEF Coming
<1>2. SinceSound(r) => SinceSound(r)'
  BY <1>1 DEF SinceSound
<1>3. /\ \A s : TotalComputed(s)' = TotalComputed(s)
      /\ \A t, s, d : SumOrEarlier(t, s, d)' <=> SumOrEarlier(t, s, d)
  BY DEF TotalComputed, AccountDays, SumOrEarlier, SumShown
<1> QED
  BY <1>2, <1>3 DEF TotalSane

\* A step that leaves what the calm days show of TOTAL, and their replays, alone.
LEMMA TotalKept ==
    ASSUME TotalInv, SnapInv', DOMAIN total' = Day, \A r \in Runner : TotalSane(r)',
           \A d \in Day : Retained(d) /\ Calm(d)' =>
                /\ Calm(d) /\ SumReplayed(d)' = SumReplayed(d)
                /\ Shown(TotalComing', d, Nothing) = Shown(TotalComing, d, Nothing)
    PROVE  TotalInv'
<1>1. \A d \in Day : TotalAt(d)'
  BY DEF TotalInv, TotalAt
<1> QED
  BY <1>1 DEF TotalInv

LEMMA JobTotal ==
    ASSUME TotalInv, SnapInv', DOMAIN total' = Day, activities' = activities,
           \A r \in Runner : TotalSane(r)', Waited \subseteq Waited',
           \A d \in Day : Retained(d) /\ Calm(d) /\ Calm(d)' =>
                Shown(TotalComing', d, Nothing) = Shown(TotalComing, d, Nothing)
    PROVE  TotalInv'
<1>1. Splitting => Splitting'
  BY DEF Splitting
<1>2. \A d \in Day : SumReplayed(d)' = SumReplayed(d)
  BY DEF SumReplayed
<1> QED
  BY <1>1, <1>2, CalmBefore, TotalKept

LEMMA QuietTotal ==
    ASSUME TotalInv, SnapInv', InFlight' = InFlight,
           UNCHANGED <<activities, jobs, frames, total, missed>>
    PROVE  TotalInv'
<1>1. \A r \in Runner : Answered(r)' = Answered(r)
  BY DEF Answered
<1>2. Settling' = Settling /\ Owed' = Owed
  BY <1>1, OwedStays DEF Settling
<1>3. Pulling' = Pulling /\ (Splitting => Splitting')
  BY DEF Pulling, Splitting
<1>4. \A r \in Runner : TotalSane(r)'
  BY <1>3, SaneAlike DEF TotalInv
<1>5. TotalComing' = TotalComing /\ DOMAIN total' = Day
  BY DEF TotalComing, TotalInv
<1> QED
  BY <1>2, <1>4, <1>5, JobTotal DEF Waited

\* Edits do not touch TOTAL.
LEMMA EditApart == Edit => total' = total
<1>1. ASSUME NEW acts, NEW e, Commit(acts, e) PROVE total' = total
  BY <1>1 DEF Commit
<1> QED
  BY <1>1 DEF Edit, CreateActivity, UpsertActivity, Pull, BulkMutate, BeginUpdate,
              DeleteActivity, CommitUpdate

LEMMA EditTotal ==
    ASSUME Cases = {}, TotalInv, SnapInv', Edit
    PROVE  TotalInv'
<1>0. /\ SnapInv /\ Control /\ ListInv /\ TypeInv /\ UpdatesCurrent /\ Plain
      /\ total' = total /\ DOMAIN total' = Day
  BY EditApart DEF TotalInv, SnapInv, Control, ListInv, Plain
<1>1. /\ frames' = frames
      /\ \/ CoveredEdit
         \/ Pulled
         \/ UNCHANGED <<activities, unsent, channel, pending, jobs, missed>>
  BY <1>0, EditCovered
<1>2. CASE CoveredEdit
  <2>1. PICK e \in Event : /\ Commits(e) /\ Dated(e) /\ Covers(e)
                           /\ Admitted(activities', e.since)
    BY <1>2 DEF CoveredEdit
  <2>2. /\ InFlight' = InFlight \union {e} /\ Owed \subseteq Owed'
        /\ \A r \in Runner : Answered(r) \subseteq Answered(r)'
    BY <1>0, <2>1, EditedAdds
  <2>3. jobs' = jobs /\ missed' = missed
    BY <2>1 DEF Commits
  <2>4. Settling \subseteq Settling'
    BY <2>2, <2>3 DEF Settling
  <2>5. Splitting => Splitting'
    <3>1. \A a \in Account : SplitDays(activities, a) \subseteq SplitDays(activities', a)
      BY <1>0, <2>1, SplitsStay
    <3> QED
      BY <3>1 DEF Splitting
  <2>6. \A r \in Runner : TotalSane(r)'
    <3>1. Pulling => Pulling'
      BY <2>2 DEF Pulling
    <3> QED
      BY <1>0, <1>1, <2>3, <2>5, <3>1, SaneAlike DEF TotalInv
  <2>7. ASSUME NEW d \in Day, Calm(d)' PROVE SumReplayed(d)' = SumReplayed(d)
    <3>1. \A a \in Account : <<a, d>> \notin Owed'
      BY <2>7 DEF Calm
    <3>2. \A a \in Account : Replay(activities', a, d) = Replay(activities, a, d)
      BY <1>0, <2>1, <3>1, EditKeeps
    <3> QED
      BY <3>2 DEF SumReplayed
  <2>8. TotalComing' = TotalComing
    BY <1>0, <2>3 DEF TotalComing
  <2>9. \A d \in Day : Calm(d)' => Calm(d)
    BY <2>2, <2>3, <2>4, <2>5, CalmBefore DEF Waited
  <2> QED
    BY <1>0, <2>6, <2>7, <2>8, <2>9, TotalKept
<1>3. CASE Pulled
  <2>1. /\ DeviceSyncPullComplete \in InFlight' /\ InFlight \subseteq InFlight'
        /\ jobs' = jobs /\ missed' = missed
    BY <1>3 DEF Pulled, Commits, InFlight
  <2>2. Pulling'
    BY <2>1 DEF Pulling
  <2>3. ASSUME NEW d \in Day, Calm(d)'
        PROVE  Calm(d) /\ SumReplayed(d)' = SumReplayed(d)
    <3>1. Cell \subseteq Owed'
      BY <2>1 DEF Owed, Asks, Reaches, DeviceSyncPullComplete
    <3>2. Account = {}
      BY <2>3, <3>1 DEF Calm, Cell
    <3> QED
      BY <3>2 DEF Calm, Splitting, SumReplayed
  <2>4. ASSUME NEW r \in Runner PROVE TotalSane(r)'
    <3>1. TotalSane(r)
      BY DEF TotalInv
    <3>2. /\ \A s : TotalComputed(s)' = TotalComputed(s)
          /\ \A t, s, d : SumOrEarlier(t, s, d)' <=> SumOrEarlier(t, s, d)
      BY <1>1 DEF TotalComputed, AccountDays, SumOrEarlier, SumShown
    <3> QED
      BY <1>0, <2>1, <2>2, <3>1, <3>2 DEF TotalSane
  <2>5. TotalComing' = TotalComing
    BY <1>0, <2>1 DEF TotalComing
  <2> QED
    BY <1>0, <2>3, <2>4, <2>5, TotalKept
<1>4. CASE UNCHANGED <<activities, unsent, channel, pending, jobs, missed>>
  BY <1>0, <1>1, <1>4, QuietTotal DEF InFlight
<1> QED
  BY <1>1, <1>2, <1>3, <1>4

-----------------------------------------------------------------------------
(***************************************************************************)
(* The steps that leave TOTAL alone, and the prune.                        *)
(***************************************************************************)
\* The first TOTAL is computed as a whole.
LEMMA InitTotal == Init => TotalInv
<1> SUFFICES ASSUME Init PROVE TotalInv
  OBVIOUS
<1>1. SnapInv /\ SnapshotsAreReplay
  BY InitSnap, SnapImplies
<1>2. /\ \A r \in Runner : jobs[r].stage = "idle"
      /\ InFlight = {} /\ missed = {} /\ total = TotalComputed(1)
  BY IdleOK DEF Init, InFlight
<1>3. \A r \in Runner : TotalSane(r)
  BY <1>2, IdleSane
<1>4. Due = {}
  <2>1. Owed = {}
    BY <1>2 DEF Owed
  <2>2. Running = {}
    BY <1>2 DEF Running, Answered, Answers
  <2> QED
    BY <1>2, <2>1, <2>2 DEF Due
<1>5. TotalComing = total
  BY <1>2, NoneAppends DEF TotalComing
<1>6. ASSUME NEW d \in Day PROVE TotalAt(d)
  <2> SUFFICES ASSUME Retained(d) PROVE Shown(total, d, Nothing) = SumReplayed(d)
    BY <1>5 DEF TotalAt
  <2>1. Shown(total, d, Nothing) = SumShown(d)
    BY <1>1, <1>2, WholeShows DEF SnapInv, Control
  <2>2. \A a \in Account : Shown(frames[a], d, Empty) = Replay(activities, a, d)
    BY <1>1, <1>4 DEF SnapshotsAreReplay
  <2>3. SumShown(d) = SumReplayed(d)
    BY <2>2 DEF SumShown, SumReplayed
  <2> QED
    BY <2>1, <2>3
<1>7. DOMAIN total = Day
  BY <1>2 DEF TotalComputed
<1> QED
  BY <1>1, <1>3, <1>6, <1>7 DEF TotalInv

\* The plan of a batch has accounts, unless there are none at all.
LEMMA PlanHasAccounts ==
    ASSUME ListInv, pending # {}
    PROVE  PlanAccounts(pending) # {} \/ (Account = {} /\ PlanSince(pending) = 0)
<1>1. pending \subseteq InFlight /\ pending \in SUBSET Event
  BY DEF ListInv, TypeInv, InFlight
<1>2. CASE PlanSince(pending) = 0
  BY <1>2 DEF PlanAccounts
<1>3. CASE PlanSince(pending) # 0
  <2>1. PICK e \in pending : e.since # 0
    <3>1. {f.since : f \in pending} \ {0} # {}
      BY <1>3 DEF PlanSince
    <3> QED
      BY <3>1
  <2>2. DeviceSyncPullComplete.since = 0
    BY DEF DeviceSyncPullComplete
  <2>3. Dated(e)
    BY <1>1, <2>1, <2>2 DEF ListInv, Unmixed
  <2>4. UNION {f.accounts : f \in pending} # {}
    BY <2>1, <2>3 DEF Dated
  <2> QED
    BY <2>4 DEF PlanAccounts
<1> QED
  BY <1>2, <1>3

\* A job may start only while none runs.
LEMMA NoneRuns ==
    ASSUME Cases = {}, NEW r \in Runner, MayStart(r)
    PROVE  /\ \A q \in Runner : jobs[q].stage = "idle" /\ Answered(q) = {}
           /\ Settling = {}
<1>1. \A q \in Runner : jobs[q].stage = "idle"
  BY DEF MayStart
<1>2. \A q \in Runner : Answered(q) = {}
  BY <1>1 DEF Answered, Answers
<1> QED
  BY <1>1, <1>2 DEF Settling

LEMMA BatchTotal ==
    ASSUME Cases = {}, TotalInv, SnapInv', ProcessBatch
    PROVE  TotalInv'
<1> DEFINE since == PlanSince(pending)
           k == [IdleJob EXCEPT !.stage = "planned",
                            !.mode = IF since = 0 THEN "full" ELSE "since",
                            !.accounts = PlanAccounts(pending),
                            !.since = since]
<1>0. /\ ListInv /\ pending # {} /\ MayStart(Worker) /\ Worker \in Runner
      /\ jobs' = [jobs EXCEPT ![Worker] = k] /\ DOMAIN jobs = Runner /\ total' = total
  BY DEF ProcessBatch, TotalInv, SnapInv, Control, ListInv, TypeInv, Runner
<1>1. /\ k.stage = "planned" /\ k.accounts = PlanAccounts(pending)
      /\ k.mode = IF since = 0 THEN "full" ELSE "since"
  BY DEF IdleJob
<1> HIDE DEF k
<1>2. /\ jobs'[Worker] = k
      /\ \A q \in Runner : q # Worker => jobs'[q] = jobs[q]
  BY <1>0
<1>3. /\ UNCHANGED <<activities, missed>>
      /\ Owed \subseteq Owed' \union Answered(Worker)'
  BY <1>0, BatchMoves
<1>4. /\ \A q \in Runner : jobs[q].stage = "idle"
      /\ Settling = {}
  BY <1>0, NoneRuns
<1>5. Answered(Worker)' \subseteq Settling'
  BY <1>0, <1>1, <1>2 DEF Settling
<1>6. ASSUME NEW q \in Runner PROVE TotalSane(q)'
  <2>1. CASE q = Worker
    <3>1. k.accounts # {} \/ (Account = {} /\ k.mode = "full")
      BY <1>0, <1>1, PlanHasAccounts
    <3>2. ~Busy(k) /\ k.stage \notin {"total_append", "total_save", "total_prune"}
      BY <1>1 DEF Busy, Rewriting
    <3> QED
      BY <1>2, <2>1, <3>1, <3>2 DEF TotalSane
  <2>2. CASE q # Worker
    BY <1>2, <1>4, <2>2, IdleSane
  <2> QED
    BY <2>1, <2>2
<1>7. TotalComing' = TotalComing /\ DOMAIN total' = Day
  <2>1. \A q \in Runner : jobs[q].stage # "total_append" /\ jobs'[q].stage # "total_append"
    BY <1>1, <1>2, <1>4
  <2> QED
    BY <1>0, <2>1, NoneAppends DEF TotalComing, TotalInv
<1> QED
  BY <1>0, <1>3, <1>4, <1>5, <1>6, <1>7, JobTotal DEF Waited

LEMMA CallTotal ==
    ASSUME Cases = {}, TotalInv, SnapInv', NEW c \in Caller, NEW accounts \in SUBSET Account,
           accounts # {}, NEW mode \in {"full", "incremental"}, StartCall(c, mode, accounts)
    PROVE  TotalInv'
<1> DEFINE k == [IdleJob EXCEPT !.stage = "planned", !.mode = mode, !.accounts = accounts]
<1>0. /\ MayStart(c) /\ c \in Runner /\ DOMAIN jobs = Runner
      /\ jobs' = [jobs EXCEPT ![c] = k]
      /\ UNCHANGED <<activities, missed, total>> /\ InFlight' = InFlight
  BY DEF StartCall, TotalInv, SnapInv, Control, ListInv, TypeInv, Runner, InFlight
<1>1. k.stage = "planned" /\ k.accounts = accounts
  BY DEF IdleJob
<1> HIDE DEF k
<1>2. jobs'[c] = k /\ \A q \in Runner : q # c => jobs'[q] = jobs[q]
  BY <1>0
<1>3. /\ \A q \in Runner : jobs[q].stage = "idle"
      /\ Settling = {}
  BY <1>0, NoneRuns
<1>4. ASSUME NEW q \in Runner PROVE TotalSane(q)'
  <2>1. CASE q = c
    <3>1. ~Busy(k) /\ k.stage \notin {"total_append", "total_save", "total_prune"}
      BY <1>1 DEF Busy, Rewriting
    <3> QED
      BY <1>1, <1>2, <2>1, <3>1 DEF TotalSane
  <2>2. CASE q # c
    BY <1>2, <1>3, <2>2, IdleSane
  <2> QED
    BY <2>1, <2>2
<1>5. Owed' = Owed
  BY <1>0, OwedStays
<1>6. TotalComing' = TotalComing /\ DOMAIN total' = Day
  <2>1. \A q \in Runner : jobs[q].stage # "total_append" /\ jobs'[q].stage # "total_append"
    BY <1>1, <1>2, <1>3
  <2> QED
    BY <1>0, <2>1, NoneAppends DEF TotalComing, TotalInv
<1> QED
  BY <1>0, <1>3, <1>4, <1>5, <1>6, JobTotal DEF Waited

\* The one job that runs goes on as k, or ends and its days are written off.
LEMMA RunTotal ==
    ASSUME TotalInv, SnapInv', NEW r \in Runner, jobs[r].stage # "idle",
           NEW k, jobs' = [jobs EXCEPT ![r] = k], Apart, missed \subseteq missed',
           \/ Answered(r) \subseteq missed'
           \/ k.mode = jobs[r].mode /\ k.mode = "incremental"
           \/ /\ k.mode = jobs[r].mode
              /\ Answered(r) \subseteq {c \in Cell : Answers(activities, r, k, c)},
           TotalSane(r)', DOMAIN total' = Day,
           \A d \in Day : Retained(d) /\ Calm(d) /\ Calm(d)' =>
                Shown(TotalComing', d, Nothing) = Shown(TotalComing, d, Nothing)
    PROVE  TotalInv'
<1>0. /\ activities' = activities /\ InFlight' = InFlight /\ DOMAIN jobs = Runner /\ Control
  BY DEF Apart, InFlight, TotalInv, SnapInv, Control, ListInv, TypeInv
<1>1. /\ jobs'[r] = k /\ \A q \in Runner : q # r => jobs'[q] = jobs[q]
      /\ \A q \in Runner : q # r => jobs[q].stage = "idle" /\ Answered(q) = {}
  BY <1>0, OthersIdle
<1>2. Settling = IF jobs[r].mode = "incremental" THEN {} ELSE Answered(r)
  BY <1>1, SettlingIs
<1>3. Settling' = IF k.mode = "incremental" THEN {}
                  ELSE {c \in Cell : Answers(activities, r, k, c)}
  BY <1>0, <1>1, SettlingThen
<1>4. Waited \subseteq Waited'
  BY <1>0, <1>2, <1>3, OwedStays DEF Waited
<1>5. \A q \in Runner : TotalSane(q)'
  BY <1>1, IdleSane
<1> QED
  BY <1>0, <1>4, <1>5, JobTotal

\* What is to come of TOTAL while the one job that runs does not append.
LEMMA RunComing ==
    ASSUME TotalInv, NEW r \in Runner, jobs[r].stage # "idle", NEW k,
           jobs' = [jobs EXCEPT ![r] = k]
    PROVE  /\ jobs'[r] = k
           /\ jobs[r].stage # "total_append" => TotalComing = total
           /\ k.stage # "total_append" => TotalComing' = total'
           /\ jobs[r].stage = "total_append" => TotalComing = Save(total, jobs[r].totalOut)
           /\ k.stage = "total_append" => TotalComing' = Save(total', k.totalOut)
           /\ Running = Answered(r)
<1>0. /\ DOMAIN jobs = Runner /\ Control
  BY DEF TotalInv, SnapInv, Control, ListInv, TypeInv
<1>1. /\ jobs'[r] = k
      /\ \A q \in Runner : q # r => /\ jobs[q].stage # "total_append" /\ Answered(q) = {}
                                    /\ jobs'[q].stage # "total_append"
  <2>1. \A q \in Runner : q # r => jobs[q].stage = "idle" /\ Answered(q) = {}
    BY <1>0, OthersIdle
  <2>2. jobs'[r] = k /\ \A q \in Runner : q # r => jobs'[q] = jobs[q]
    BY <1>0
  <2> QED
    BY <2>1, <2>2
<1>2. /\ jobs[r].stage = "total_append" => TotalComing = Save(total, jobs[r].totalOut)
      /\ jobs[r].stage # "total_append" => TotalComing = total
  BY <1>1, TotalComingIs DEF TotalComing
<1>3. TotalComing' = TotalComingIn(jobs', total')
  BY DEF TotalComing
<1>4. /\ jobs'[r].stage = "total_append"
           => TotalComingIn(jobs', total') = Save(total', jobs'[r].totalOut)
      /\ jobs'[r].stage # "total_append" => TotalComingIn(jobs', total') = total'
  BY <1>1, TotalComingIs
<1>5. Running = Answered(r)
  BY <1>1 DEF Running
<1> QED
  BY <1>1, <1>2, <1>3, <1>4, <1>5

\* A job that fails: its days are written off.
LEMMA FailTotal ==
    ASSUME TotalInv, SnapInv', NEW r \in Runner, FailJob(r) \/ FailWrite(r)
    PROVE  TotalInv'
<1> DEFINE j == jobs[r]
           k == IF FailJob(r) THEN IdleJob
                ELSE [j EXCEPT !.stage = "total", !.failed = TRUE, !.todo = {},
                               !.cleanup = {}, !.saving = {}]
<1>0. /\ Control /\ JobOK(j) /\ JobSane(r, j) /\ DOMAIN j = JobFields /\ DOMAIN jobs = Runner
      /\ TotalSane(r)
  BY DEF TotalInv, SnapInv, Control, ListInv, TypeInv, JobOK
<1>1. /\ j.stage # "idle" /\ jobs' = [jobs EXCEPT ![r] = k]
      /\ missed' = missed \union Answered(r) /\ Apart /\ total' = total
      /\ DOMAIN total' = Day
  <2>1. CASE FailJob(r)
    BY <2>1 DEF FailJob, Fault, InMemory, Apart, TotalInv
  <2>2. CASE ~FailJob(r)
    BY <2>2 DEF FailWrite, Fault, InMemory, Apart, TotalInv
  <2> QED
    BY <2>1, <2>2
<1>2. jobs'[r] = k
  BY <1>0, <1>1
<1>3. CASE FailJob(r)
  <2>1. k.stage = "idle"
    BY <1>3, IdleOK
  <2>2. TotalComing' = total' /\ Running = Answered(r)
    <3> HIDE DEF k
    <3> QED
      BY <1>1, <2>1, RunComing
  <2>3. ASSUME NEW d \in Day, Calm(d)'
        PROVE  Shown(TotalComing', d, Nothing) = Shown(TotalComing, d, Nothing)
    <3>1. \A a \in Account : <<a, d>> \notin Running
      BY <1>1, <2>2, <2>3 DEF Calm
    <3> QED
      BY <1>1, <2>2, <3>1, ComingShows
  <2>4. TotalSane(r)'
    BY <1>2, <2>1, IdleSane
  <2> HIDE DEF k
  <2> QED
    BY <1>1, <2>3, <2>4, RunTotal
<1>4. CASE ~FailJob(r)
  <2>1. /\ k.stage = "total" /\ k.mode = j.mode /\ k.accounts = j.accounts
        /\ k.since = j.since /\ k.start = j.start /\ k.failed = TRUE
    BY <1>0, <1>4 DEF JobFields
  <2>2. j.stage = "write" /\ Busy(j)
    BY <1>4 DEF FailWrite, Busy, Rewriting
  <2> HIDE DEF k
  <2>3. k.mode = "since" =>
            \A a \in k.accounts, d \in Day : d >= k.since => <<a, d>> \in missed'
    <3> SUFFICES ASSUME k.mode = "since", NEW a \in k.accounts, NEW d \in Day, d >= k.since
                 PROVE  <<a, d>> \in Answered(r)
      BY <1>1
    <3>1. r = Worker /\ a \in Account
      BY <1>0, <2>1 DEF JobSane
    <3> QED
      BY <1>1, <2>1, <3>1 DEF Answered, Answers, Reaches, Cell
  <2>4. UNCHANGED activities /\ Pulling' = Pulling
    BY <1>1 DEF Apart, Pulling, InFlight
  <2>5. TotalSane(r)'
    <3>1. k.mode = "since" => Pulling' \/ Splitting' \/ SinceSound(r)'
      BY <1>0, <1>2, <2>1, <2>2, <2>3, <2>4 DEF TotalSane, SinceSound, Splitting
    <3> QED
      BY <1>0, <1>1, <1>2, <2>1, <3>1 DEF TotalSane
  <2>6. TotalComing' = TotalComing
    BY <1>1, <2>1, <2>2, RunComing
  <2> QED
    BY <1>1, <2>5, <2>6, RunTotal
<1> QED
  BY <1>3, <1>4

LEMMA CrashTotal ==
    ASSUME TotalInv, SnapInv', Crash
    PROVE  TotalInv'
<1>1. /\ UNCHANGED <<activities, total>> /\ missed' = missed \union Owed \union Running
      /\ \A r \in Runner : jobs'[r].stage = "idle"
      /\ DOMAIN total' = Day
  BY IdleOK DEF Crash, Fault, TotalInv
<1>2. \A r \in Runner : TotalSane(r)'
  BY <1>1, IdleSane
<1>3. Settling \subseteq Running
  BY DEF Settling, Running
<1>4. TotalComing' = total
  <2>1. \A q \in Runner : jobs'[q].stage # "total_append"
    BY <1>1
  <2>2. TotalComingIn(jobs', total') = total'
    BY <2>1, NoneAppends
  <2> QED
    BY <1>1, <2>2 DEF TotalComing
<1>5. ASSUME NEW d \in Day, Calm(d)'
      PROVE  Shown(TotalComing', d, Nothing) = Shown(TotalComing, d, Nothing)
  <2>1. \A a \in Account : <<a, d>> \notin Running
    BY <1>1, <1>5 DEF Calm
  <2> QED
    BY <1>4, <2>1, ComingShows
<1> QED
  BY <1>1, <1>2, <1>3, <1>5, JobTotal DEF Waited

\* A read of a job from a day on: it starts on that day and will leave a keyframe
\* there, unless a split or a pull is about.
LEMMA ReadSound ==
    ASSUME TotalInv, NEW r \in Runner, Read(r), jobs[r].mode = "since"
    PROVE  Pulling' \/ Splitting' \/ SinceSound(r)'
<1> DEFINE j == jobs[r]
<1> SUFFICES ASSUME ~Pulling, ~Splitting PROVE SinceSound(r)'
  BY DEF Read, Edits, Pulling, Splitting, InFlight
<1>0. /\ SnapInv /\ Control /\ JobSane(r, j) /\ JobOK(j) /\ activities \in Book
      /\ frames \in [Account -> Keyframes] /\ DOMAIN jobs = Runner
      /\ j.stage = "planned" /\ TotalSane(r) /\ missed' = missed
  BY DEF TotalInv, SnapInv, Control, ListInv, TypeInv, Book, Read
<1>1. r = Worker /\ j.since \in Day /\ j.accounts # {} /\ j.accounts \subseteq Account
  BY <1>0, RecalcAssumption DEF JobSane, TotalSane
<1>2. \A a \in j.accounts : Of(activities, a) # {}
  BY <1>0, <1>1 DEF Control, AccountsTrade
<1>3. ~ReadsNothing(r)
  BY <1>1, <1>2 DEF ReadsNothing
<1>4. ReadsSomething(r)
  BY <1>3, ReadIs
<1> DEFINE k == Step(HasRead(j))
<1>5. ReadInto(r, k)
  BY <1>0, HasReadIs
<1>6. jobs' = [jobs EXCEPT ![r] = k] /\ frames' = frames
  BY <1>4 DEF ReadsSomething
<1> HIDE DEF k
<1>7. /\ k.mode = "since" /\ k.accounts = j.accounts /\ k.since = j.since /\ k.failed = FALSE
      /\ k.todo = Processed(j)
      /\ \A a \in k.todo : /\ a \in Account /\ a \in j.accounts
                           /\ k.start[a] = StartDay(activities, j, frames[a], a)
                           /\ k.out[a] = Computed(activities, j, frames[a], a)
  BY <1>5 DEF ReadInto
<1>8. ASSUME NEW a \in j.accounts
      PROVE  a \in k.todo /\ k.start[a] = j.since
  <2>1. a \in Account /\ SplitDays(activities, a) = {}
    BY <1>1 DEF Splitting
  <2>2. /\ StartDay(activities, j, frames[a], a) # Never
        /\ StartDay(activities, j, frames[a], a) = j.since
    BY <1>0, <1>1, <1>2, <2>1, SinceStarts
  <2>3. a \in Processed(j)
    BY <2>1, <2>2 DEF Processed, Begin
  <2> QED
    BY <1>7, <2>2, <2>3
<1>9. jobs'[r] = k /\ \A q \in Runner : q # r => jobs'[q].todo = {} /\ ~Busy(jobs'[q])
  <2>1. jobs'[r] = k /\ \A q \in Runner : q # r => jobs'[q] = jobs[q]
    BY <1>0, <1>6
  <2> QED
    BY <1>0, <2>1, OthersIdle
<1>10. ASSUME NEW a \in j.accounts PROVE ShowsFrom(Coming(a)', j.since)
  <2> DEFINE s == StartDay(activities, j, frames[a], a)
             out == Computed(activities, j, frames[a], a)
             seed == IF FromDayBefore(activities, j, frames[a], a, s)
                     THEN Shown(frames[a], s - 1, Empty) ELSE Empty
  <2>1. a \in Account /\ a \in k.todo /\ s = j.since /\ s \in Day /\ s # Never
    BY <1>1, <1>7, <1>8, RecalcAssumption DEF Day, Never
  <2>2. out[s] # NoFrame
    <3>1. s = StartDay(activities, jobs[r], frames[a], a)
          /\ out = Computed(activities, jobs[r], frames[a], a)
          /\ seed = IF FromDayBefore(activities, jobs[r], frames[a], a, s)
                    THEN Shown(frames[a], s - 1, Empty) ELSE Empty
      OBVIOUS
    <3> HIDE DEF s, out, seed
    <3> QED
      BY <1>0, <2>1, <3>1, ReadBegins
  <2> HIDE DEF s, out
  <2>3. Coming(a)' = FramesWith(k, frames', a)
    BY <1>9, ComingNext
  <2>4. FramesWith(k, frames', a) = Save(DeleteFrom(frames[a], k.start[a]), k.out[a])
    BY <1>6, <1>7, <2>1 DEF FramesWith, Written
  <2>5. k.out[a] = out
    BY <1>7, <2>1 DEF out
  <2>6. Coming(a)'[s] = out[s]
    BY <2>1, <2>2, <2>3, <2>4, <2>5 DEF Save
  <2>7. ASSUME NEW d \in Day, d >= s PROVE s \in KeyDays(Coming(a)', d)
    <3>1. s <= d /\ Coming(a)'[s] # NoFrame
      BY <2>1, <2>2, <2>6, <2>7, RecalcAssumption DEF Day
    <3> QED
      BY <2>1, <3>1 DEF KeyDays
  <2>8. s >= s
    BY <2>1, RecalcAssumption DEF Day
  <2> QED
    BY <2>1, <2>7, <2>8 DEF ShowsFrom
<1>11. \A a \in j.accounts : k.start[a] >= j.since
  BY <1>1, <1>8, RecalcAssumption DEF Day
<1>12. \E a \in j.accounts : ShowsFrom(Coming(a)', j.since)
  BY <1>1, <1>10
<1> QED
  BY <1>7, <1>9, <1>11, <1>12 DEF SinceSound

LEMMA ReadTotal ==
    ASSUME TotalInv, SnapInv', NEW r \in Runner, Read(r)
    PROVE  TotalInv'
<1> DEFINE j == jobs[r]
<1>0. /\ ListInv /\ DOMAIN jobs = Runner /\ JobOK(j) /\ TotalSane(r) /\ JobSane(r, j)
      /\ j.stage = "planned" /\ total' = total /\ missed' = missed /\ Apart
  BY DEF TotalInv, SnapInv, Control, ListInv, TypeInv, Read, Apart, Edits
<1>1. \E k : /\ jobs' = [jobs EXCEPT ![r] = k] /\ k.stage \in {"write", "total"}
             /\ k.mode = j.mode /\ k.accounts = j.accounts /\ k.since = j.since
  <2>1. CASE ReadsNothing(r)
    <3> DEFINE k == [j EXCEPT !.stage = "total"]
    <3>1. jobs' = [jobs EXCEPT ![r] = k]
      BY <2>1 DEF ReadsNothing
    <3>2. /\ k.stage = "total" /\ k.mode = j.mode /\ k.accounts = j.accounts
          /\ k.since = j.since
      BY <1>0 DEF JobOK, JobFields
    <3> HIDE DEF k
    <3> QED
      BY <3>1, <3>2
  <2>2. CASE ReadsSomething(r)
    <3> DEFINE k == Step(HasRead(j))
    <3>1. jobs' = [jobs EXCEPT ![r] = k]
      BY <2>2 DEF ReadsSomething
    <3>2. ReadInto(r, k)
      BY <1>0, HasReadIs DEF TotalInv
    <3> HIDE DEF k
    <3>3. /\ k.stage \in {"write", "total"} /\ k.mode = j.mode /\ k.accounts = j.accounts
          /\ k.since = j.since
      BY <3>2 DEF ReadInto
    <3> QED
      BY <3>1, <3>3
  <2> QED
    BY <2>1, <2>2, ReadIs
<1>2. PICK k : /\ jobs' = [jobs EXCEPT ![r] = k] /\ k.stage \in {"write", "total"}
               /\ k.mode = j.mode /\ k.accounts = j.accounts /\ k.since = j.since
  BY <1>1
<1>3. \A c \in Cell : Answers(activities, r, j, c) => Answers(activities, r, k, c)
  BY <1>0, <1>2 DEF Answers
<1>4. Answered(r) \subseteq {c \in Cell : Answers(activities, r, k, c)}
  BY <1>3 DEF Answered
<1>5. jobs'[r] = k
  BY <1>0, <1>2
<1>6. TotalSane(r)'
  <2>1. k.mode = "since" => Pulling' \/ Splitting' \/ SinceSound(r)'
    BY <1>2, ReadSound
  <2>2. k.accounts # {} \/ (Account = {} /\ k.mode = "full")
    BY <1>0, <1>2 DEF TotalSane
  <2>3. k.stage \notin {"total_append", "total_save", "total_prune"}
    BY <1>2
  <2> QED
    BY <1>5, <2>1, <2>2, <2>3 DEF TotalSane
<1>7. TotalComing' = TotalComing /\ DOMAIN total' = Day
  BY <1>0, <1>2, RunComing DEF TotalInv
<1> QED
  BY <1>0, <1>2, <1>4, <1>6, <1>7, RunTotal

\* A write or a prune keeps a job from a day on sound.
LEMMA WriteSound ==
    ASSUME TotalInv, NEW r \in Runner, NEW k, WritesAs(r, k), k.mode = "since"
    PROVE  Pulling' \/ Splitting' \/ SinceSound(r)'
<1> DEFINE j == jobs[r]
<1>0. /\ jobs' = [jobs EXCEPT ![r] = k] /\ Busy(j) /\ Busy(k) /\ Apart /\ missed' = missed
      /\ k.mode = j.mode /\ k.accounts = j.accounts /\ k.since = j.since
      /\ k.start = j.start /\ k.failed = j.failed
      /\ Pulling \/ \A a \in Account : Thins(FramesWith(k, frames', a), FramesWith(j, frames, a))
  BY DEF WritesAs
<1>1. /\ Control /\ DOMAIN jobs = Runner /\ j.stage # "idle" /\ j.accounts \subseteq Account
      /\ TotalSane(r) /\ JobSane(r, j)
  BY <1>0 DEF TotalInv, SnapInv, Control, ListInv, TypeInv, Busy, Rewriting, JobSane
<1> SUFFICES ASSUME ~Pulling, ~Splitting PROVE SinceSound(r)'
  BY <1>0 DEF Apart, Pulling, Splitting, InFlight
<1>2. SinceSound(r)
  BY <1>0, <1>1 DEF TotalSane
<1>3. \A q \in Runner : q # r => jobs[q].todo = {} /\ ~Busy(jobs[q])
  BY <1>1, OthersIdle
<1>4. /\ jobs'[r] = k
      /\ \A q \in Runner : q # r => jobs'[q].todo = {} /\ ~Busy(jobs'[q])
  <2>1. jobs'[r] = k /\ \A q \in Runner : q # r => jobs'[q] = jobs[q]
    BY <1>0, <1>1
  <2> QED
    BY <1>3, <2>1
<1>5. \A a : Coming(a) = FramesWith(j, frames, a)
  <2>1. WritesAlone(jobs, r)
    BY <1>3 DEF WritesAlone
  <2> QED
    BY <2>1, ComingIs DEF Coming, FramesWith
<1>6. \A a : Coming(a)' = FramesWith(k, frames', a)
  BY <1>4, ComingNext
<1>7. j.since \in Int
  BY <1>0, <1>1, RecalcAssumption DEF JobSane, Day
<1>8. ASSUME NEW a \in j.accounts, ShowsFrom(Coming(a), j.since)
      PROVE  ShowsFrom(Coming(a)', j.since)
  <2>1. Thins(FramesWith(k, frames', a), FramesWith(j, frames, a))
    BY <1>0, <1>1
  <2> QED
    BY <1>5, <1>6, <1>7, <1>8, <2>1, ThinShowsFrom
<1> QED
  BY <1>0, <1>2, <1>4, <1>8 DEF SinceSound

LEMMA WriteTotal ==
    ASSUME TotalInv, SnapInv', NEW r \in Runner, NEW k, WritesAs(r, k), Rewriting(jobs[r]),
           total' = total \/ total' = Prune(total)
    PROVE  TotalInv'
<1> DEFINE j == jobs[r]
<1>0. /\ jobs' = [jobs EXCEPT ![r] = k] /\ Busy(j) /\ Busy(k) /\ Apart /\ missed' = missed
      /\ k.mode = j.mode /\ k.accounts = j.accounts /\ k.since = j.since
      /\ k.start = j.start /\ (Rewriting(k) \/ k.stage = "total")
  BY DEF WritesAs
<1>1. /\ DOMAIN jobs = Runner /\ TotalSane(r) /\ j.stage # "idle"
      /\ j.stage \in {"write", "prune"} /\ k.stage \in {"write", "prune", "total"}
      /\ j.stage \notin {"total_append", "total_save", "total_prune"}
      /\ k.stage \notin {"total_append", "total_save", "total_prune"}
  BY <1>0 DEF TotalInv, SnapInv, Control, ListInv, TypeInv, Rewriting
<1>2. Answered(r) \subseteq {c \in Cell : Answers(activities, r, k, c)}
  <2>1. /\ j.stage \notin {"idle", "total_append"} /\ k.stage \notin {"idle", "total_append"}
        /\ j.stage # "planned" /\ k.stage # "planned"
    BY <1>1
  <2>2. Alike(j, k)
    BY <1>0, <2>1 DEF Alike
  <2> QED
    BY <2>2, AnswersAlike DEF Answered
<1>3. TotalSane(r)'
  <2>1. jobs'[r] = k
    BY <1>0, <1>1
  <2>2. k.mode = "since" => Pulling' \/ Splitting' \/ SinceSound(r)'
    BY WriteSound
  <2>3. k.accounts # {} \/ (Account = {} /\ k.mode = "full")
    BY <1>0, <1>1 DEF TotalSane
  <2> QED
    BY <1>1, <2>1, <2>2, <2>3 DEF TotalSane
<1>4. DOMAIN total' = Day /\ Thins(total', total)
  <2>1. DOMAIN total = Day
    BY DEF TotalInv
  <2>2. DOMAIN Prune(total) = Day
    BY DEF Prune
  <2> QED
    BY <2>1, <2>2, PruneShows, ThinsSame
<1>5. TotalComing = total /\ TotalComing' = total'
  BY <1>0, <1>1, RunComing
<1>6. \A d \in Day : Retained(d) =>
            Shown(TotalComing', d, Nothing) = Shown(TotalComing, d, Nothing)
  BY <1>4, <1>5 DEF Thins, KeptIn
<1> QED
  BY <1>0, <1>1, <1>2, <1>3, <1>4, <1>6, RunTotal

-----------------------------------------------------------------------------
(***************************************************************************)
(* The steps that write TOTAL.                                             *)
(***************************************************************************)
\* The days from j.since on are not calm while a job from that day on runs.
LEMMA CalmEarlier ==
    ASSUME TotalInv, NEW r \in Runner, jobs[r].stage \notin {"idle", "planned"},
           jobs[r].mode = "since", NEW d \in Day, Calm(d)
    PROVE  d < jobs[r].since
<1> DEFINE j == jobs[r]
<1>0. /\ JobSane(r, j) /\ TotalSane(r) /\ r = Worker /\ j.since \in Day
      /\ \A x \in Day : x \in Int
  <2>1. \A x \in Day : x \in Int
    BY RecalcAssumption DEF Day
  <2> QED
    BY <2>1 DEF TotalInv, SnapInv, Control, JobSane
<1>1. PICK a \in j.accounts : a \in Account
  BY <1>0 DEF TotalSane, JobSane
<1>2. <<a, d>> \notin Answered(r)
  BY <1>1 DEF Calm, Settling
<1>3. ~(d >= j.since)
  BY <1>0, <1>1, <1>2 DEF Answered, Answers, Reaches, Cell
<1> QED
  BY <1>0, <1>3

\* The two writes of TOTAL and what a job from a day on answers for.
LEMMA SinceGoesOn ==
    ASSUME TotalInv, NEW r \in Runner, DeleteTotalRange(r) \/ SaveTotalRange(r)
    PROVE  \E k :
             /\ jobs' = [jobs EXCEPT ![r] = k] /\ Apart /\ missed' = missed /\ frames' = frames
             /\ jobs[r].stage \in {"total", "total_save"} /\ jobs[r].mode = "since"
             /\ jobs[r].since \in Day
             /\ k.mode = "since" /\ k.since = jobs[r].since
             /\ k.accounts = jobs[r].accounts /\ k.accounts # {}
             /\ DeleteTotalRange(r) => /\ k.stage = "total_save"
                                       /\ k.totalOut = TotalComputed(k.since)
             /\ SaveTotalRange(r) => k.stage = "total_prune"
             /\ Answered(r) \subseteq {c \in Cell : Answers(activities, r, k, c)}
             /\ Pulling' \/ Splitting' \/ SinceSound(r)'
<1> DEFINE j == jobs[r]
<1>0. /\ SnapInv /\ JobOK(j) /\ JobSane(r, j) /\ DOMAIN j = JobFields /\ DOMAIN jobs = Runner
      /\ TotalSane(r)
  BY DEF TotalInv, SnapInv, Control, ListInv, TypeInv, JobOK
<1>1. /\ Apart /\ missed' = missed /\ frames' = frames
      /\ j.stage \in {"total", "total_save"} /\ j.mode = "since"
  BY <1>0 DEF DeleteTotalRange, SaveTotalRange, Apart, Edits, TotalSane
<1>2. PICK k :
        /\ jobs' = [jobs EXCEPT ![r] = k]
        /\ k.stage \in {"total_save", "total_prune"}
        /\ DeleteTotalRange(r) => k.stage = "total_save" /\ k.totalOut = TotalComputed(j.since)
        /\ SaveTotalRange(r) => k.stage = "total_prune"
        /\ k.mode = j.mode /\ k.accounts = j.accounts /\ k.since = j.since /\ k.start = j.start
  <2>0. ~(DeleteTotalRange(r) /\ SaveTotalRange(r))
    BY DEF DeleteTotalRange, SaveTotalRange
  <2>1. CASE DeleteTotalRange(r)
    <3> DEFINE k == [j EXCEPT !.stage = "total_save", !.totalOut = TotalComputed(j.since)]
    <3>1. /\ k.stage = "total_save" /\ k.totalOut = TotalComputed(j.since)
          /\ k.mode = j.mode /\ k.accounts = j.accounts /\ k.since = j.since
          /\ k.start = j.start
      BY <1>0 DEF JobFields
    <3>2. jobs' = [jobs EXCEPT ![r] = k]
      BY <2>1 DEF DeleteTotalRange
    <3> HIDE DEF k
    <3> QED
      BY <2>0, <2>1, <3>1, <3>2
  <2>2. CASE SaveTotalRange(r)
    <3> DEFINE k == [j EXCEPT !.stage = "total_prune", !.totalOut = NoFrames]
    <3>1. /\ k.stage = "total_prune"
          /\ k.mode = j.mode /\ k.accounts = j.accounts /\ k.since = j.since
          /\ k.start = j.start
      BY <1>0 DEF JobFields
    <3>2. jobs' = [jobs EXCEPT ![r] = k]
      BY <2>2 DEF SaveTotalRange
    <3> HIDE DEF k
    <3> QED
      BY <2>0, <2>2, <3>1, <3>2
  <2> QED
    BY <2>1, <2>2
<1>3. j.since \in Day /\ j.accounts # {}
  BY <1>0, <1>1, RecalcAssumption DEF JobSane, TotalSane
<1>4. Answered(r) \subseteq {c \in Cell : Answers(activities, r, k, c)}
  <2>1. Alike(j, k)
    BY <1>1, <1>2 DEF Alike
  <2> QED
    BY <2>1, AnswersAlike DEF Answered
<1>5. Pulling' \/ Splitting' \/ SinceSound(r)'
  <2>1. PICK g : WritesAs(r, g)
    BY <1>0, TotalWrites DEF TotalGoesOn
  <2>2. g = k
    <3>1. jobs'[r] = k /\ jobs'[r] = g
      BY <1>0, <1>2, <2>1 DEF WritesAs
    <3> QED
      BY <3>1
  <2> QED
    BY <1>1, <1>2, <2>1, <2>2, WriteSound
<1> QED
  BY <1>1, <1>2, <1>3, <1>4, <1>5

\* The first of the two writes of TOTAL: the days it deletes are not calm.
LEMMA DeleteTotal ==
    ASSUME TotalInv, SnapInv', NEW r \in Runner, DeleteTotalRange(r)
    PROVE  TotalInv'
<1> DEFINE j == jobs[r]
<1>1. PICK k :
        /\ jobs' = [jobs EXCEPT ![r] = k] /\ Apart /\ missed' = missed /\ frames' = frames
        /\ j.stage \in {"total", "total_save"} /\ j.mode = "since" /\ j.since \in Day
        /\ k.mode = "since" /\ k.since = j.since /\ k.accounts = j.accounts /\ k.accounts # {}
        /\ k.stage = "total_save" /\ k.totalOut = TotalComputed(k.since)
        /\ Answered(r) \subseteq {c \in Cell : Answers(activities, r, k, c)}
        /\ Pulling' \/ Splitting' \/ SinceSound(r)'
  BY SinceGoesOn
<1>2. total' = DeleteFrom(total, j.since) /\ j.stage = "total" /\ j.stage # "idle"
  BY DEF DeleteTotalRange
<1>3. jobs'[r] = k /\ TotalComing = total /\ TotalComing' = total'
  BY <1>1, <1>2, RunComing
<1>4. DOMAIN total' = Day /\ \A x \in Day : x \in Int
  BY <1>2, RecalcAssumption DEF DeleteFrom, Day
<1>5. ASSUME NEW d \in Day, Calm(d)
      PROVE  Shown(TotalComing', d, Nothing) = Shown(TotalComing, d, Nothing)
  <2>1. d < j.since
    BY <1>1, <1>2, <1>5, CalmEarlier
  <2>2. \A n \in Day : n <= d => total'[n] = total[n]
    BY <1>1, <1>2, <1>4, <2>1 DEF DeleteFrom
  <2> QED
    BY <1>3, <2>2, ShownBelow
<1>6. TotalSane(r)'
  <2>1. \A s : TotalComputed(s)' = TotalComputed(s)
    BY <1>1 DEF TotalComputed, AccountDays
  <2>2. \A n \in Day : n >= k.since => total'[n] = NoFrame
    BY <1>1, <1>2, <1>4 DEF DeleteFrom
  <2> QED
    BY <1>1, <1>3, <2>1, <2>2 DEF TotalSane
<1> QED
  BY <1>1, <1>2, <1>4, <1>5, <1>6, RunTotal

\* The second: TOTAL is right from that day on, or has nothing new to show.
LEMMA SaveTotal ==
    ASSUME TotalInv, SnapInv', NEW r \in Runner, SaveTotalRange(r)
    PROVE  TotalInv'
<1> DEFINE j == jobs[r]
<1>1. PICK k :
        /\ jobs' = [jobs EXCEPT ![r] = k] /\ Apart /\ missed' = missed /\ frames' = frames
        /\ j.stage \in {"total", "total_save"} /\ j.mode = "since" /\ j.since \in Day
        /\ k.mode = "since" /\ k.since = j.since /\ k.accounts = j.accounts /\ k.accounts # {}
        /\ k.stage = "total_prune"
        /\ Answered(r) \subseteq {c \in Cell : Answers(activities, r, k, c)}
        /\ Pulling' \/ Splitting' \/ SinceSound(r)'
  BY SinceGoesOn
<1>2. /\ j.stage = "total_save" /\ j.stage # "idle" /\ total' = Save(total, j.totalOut)
      /\ j.totalOut = TotalComputed(j.since)
      /\ \A n \in Day : n >= j.since => total[n] = NoFrame
  BY DEF SaveTotalRange, TotalInv, TotalSane
<1>3. jobs'[r] = k /\ TotalComing = total /\ TotalComing' = total'
  BY <1>1, <1>2, RunComing
<1>4. /\ DOMAIN total' = Day /\ \A x \in Day : x \in Int
      /\ frames \in [Account -> Keyframes]
  BY <1>2, RecalcAssumption DEF Save, Day, TotalInv, SnapInv, Control
<1>5. ASSUME NEW d \in Day, Calm(d)
      PROVE  Shown(TotalComing', d, Nothing) = Shown(TotalComing, d, Nothing)
  <2>1. d < j.since
    BY <1>1, <1>2, <1>5, CalmEarlier
  <2>2. ASSUME NEW n \in Day, n <= d PROVE total'[n] = total[n]
    <3>1. ~(n >= j.since)
      BY <1>1, <1>4, <2>1, <2>2
    <3>2. j.totalOut[n] = NoFrame
      BY <1>2, <1>4, <3>1, ComputedIs
    <3> QED
      BY <1>2, <3>2 DEF Save
  <2> QED
    BY <1>3, <2>2, ShownBelow
<1>6. TotalSane(r)'
  <2> DEFINE s == j.since
  <2>1. ASSUME NEW d \in Day PROVE SumOrEarlier(total', s, d)
    <3>1. s \in Day /\ total' = Save(total, TotalComputed(s))
          /\ \A n \in Day : n >= s => total[n] = NoFrame
      BY <1>1, <1>2
    <3> HIDE DEF s
    <3>2. \/ Shown(total', d, Nothing) = SumShown(d)
          \/ \A n \in AccountDays : ~(s <= n /\ n <= d)
      BY <1>4, <3>1, AppendShows
    <3> QED
      BY <3>2 DEF SumOrEarlier
  <2>2. ASSUME NEW d \in Day PROVE SumOrEarlier(total, jobs[r].since, d)'
    <3>1. SumOrEarlier(total', s, d) /\ jobs'[r].since = s
      BY <1>1, <1>3, <2>1
    <3>2. SumShown(d)' = SumShown(d) /\ AccountDays' = AccountDays
      BY <1>1 DEF SumShown, AccountDays
    <3> HIDE DEF s
    <3> QED
      BY <3>1, <3>2 DEF SumOrEarlier
  <2> QED
    BY <1>1, <1>3, <2>2 DEF TotalSane
<1> QED
  BY <1>1, <1>2, <1>4, <1>5, <1>6, RunTotal

-----------------------------------------------------------------------------
(***************************************************************************)
(* Days appended to TOTAL, one by one: what is to come stays as it is.     *)
(***************************************************************************)
\* The accounts show the replays of a calm day when nothing is left to write.
LEMMA CalmSum ==
    ASSUME SnapInv, NEW r \in Runner, Busy(jobs[r]), ~Rewriting(jobs[r]),
           NEW d \in Day, Retained(d), Calm(d)
    PROVE  SumShown(d) = SumReplayed(d)
<1> DEFINE j == jobs[r]
<1>1. /\ Control /\ JobSane(r, j) /\ j.stage \notin {"idle", "planned"}
  BY DEF SnapInv, Control, Busy, Rewriting
<1>2. j.todo = {} /\ WritesAlone(jobs, r)
  BY <1>1, OthersIdle DEF JobSane, WritesAlone
<1>3. Waiting = {}
  <2>1. jobs[Worker].stage # "planned"
    BY <1>1, OthersIdle DEF Runner
  <2> QED
    BY <2>1 DEF Waiting
<1>4. Lost \subseteq missed
  BY DEF Lost, LostIn
<1>5. ASSUME NEW a \in Account
      PROVE  Shown(frames[a], d, Empty) = Replay(activities, a, d)
  <2>1. Coming(a) = frames[a]
    BY <1>2, ComingIs DEF Coming
  <2>2. KeptIn(Coming(a), d) /\ <<a, d>> \notin Owed \union Waiting \union Lost
    BY <1>3, <1>4 DEF KeptIn, Calm
  <2>3. ReplayAt(a, d)
    BY DEF SnapInv
  <2> QED
    BY <2>1, <2>2, <2>3 DEF ReplayAt
<1> QED
  BY <1>5 DEF SumShown, SumReplayed

LEMMA BeginTotal ==
    ASSUME TotalInv, SnapInv', NEW r \in Runner, BeginAppend(r)
    PROVE  TotalInv'
<1> DEFINE j == jobs[r]
           s == TotalStart(j)
           k == [j EXCEPT !.stage = "total_append", !.totalOut = TotalComputed(s)]
<1>0. /\ SnapInv /\ JobOK(j) /\ DOMAIN j = JobFields /\ frames \in [Account -> Keyframes]
      /\ TotalSane(r) /\ DOMAIN total = Day
      /\ \A x \in Day : x \in Int /\ x <= Today
      /\ Today \in Int /\ \A x \in Int : 1 <= x /\ x <= Today => x \in Day
  <2>1. /\ \A x \in Day : x \in Int /\ x <= Today
        /\ Today \in Int /\ \A x \in Int : 1 <= x /\ x <= Today => x \in Day
    BY RecalcAssumption DEF Day
  <2> QED
    BY <2>1 DEF TotalInv, SnapInv, Control, ListInv, TypeInv, JobOK
<1>1. /\ j.stage = "total" /\ j.mode = "incremental" /\ s > 1 /\ TotalComputed(s) # NoFrames
      /\ jobs' = [jobs EXCEPT ![r] = k]
      /\ Apart /\ missed' = missed /\ frames' = frames /\ total' = total
  BY DEF BeginAppend, Apart, Edits
<1>2. /\ k.stage = "total_append" /\ k.totalOut = TotalComputed(s)
      /\ k.mode = j.mode /\ k.accounts = j.accounts
  BY <1>0 DEF JobFields
<1> HIDE DEF k
<1>3. PICK n \in Day : TotalComputed(s)[n] # NoFrame
  <2>1. (\A n \in Day : TotalComputed(s)[n] = NoFrame) => TotalComputed(s) = NoFrames
    BY DEF TotalComputed, NoFrames
  <2> QED
    BY <1>1, <2>1
<1>4. n >= s
  BY <1>0, <1>3, ComputedIs
<1>5. s = LatestDay(total, Today) + 1
  <2>1. s = LatestDay(total, Today) + 1 \/ s = Never
    BY <1>1 DEF TotalStart
  <2>2. Never > Today /\ ~(n >= Never)
    BY <1>0, <1>3 DEF Never
  <2> QED
    BY <1>4, <2>1, <2>2
<1> HIDE DEF s
<1>6. LatestDay(total, Today) \in Int
  BY <1>0, LatestIsKey DEF KeyDays
<1>7. s \in Day
  BY <1>0, <1>1, <1>3, <1>4, <1>5, <1>6
<1>8. ASSUME NEW m \in Day, m >= s PROVE total[m] = NoFrame
  <2>1. ~(m <= LatestDay(total, Today))
    BY <1>0, <1>5, <1>6, <1>8
  <2>2. m \notin KeyDays(total, Today)
    BY <2>1, LatestIsKey
  <2> QED
    BY <1>0, <2>2 DEF KeyDays
<1>9. /\ jobs'[r] = k /\ TotalComing = total
      /\ TotalComing' = Save(total, TotalComputed(s))
  BY <1>1, <1>2, RunComing
<1>10. ASSUME NEW d \in Day, Retained(d), Calm(d)
       PROVE  Shown(TotalComing', d, Nothing) = Shown(TotalComing, d, Nothing)
  <2> DEFINE T == Save(total, TotalComputed(s))
  <2>1. Shown(T, d, Nothing) = SumShown(d) \/ Shown(T, d, Nothing) = Shown(total, d, Nothing)
    BY <1>0, <1>7, <1>8, AppendShows
  <2>2. SumShown(d) = SumReplayed(d)
    BY <1>0, <1>1, <1>10, CalmSum DEF Busy, Rewriting
  <2>3. Shown(TotalComing, d, Nothing) = SumReplayed(d)
    BY <1>10 DEF TotalInv, TotalAt
  <2> QED
    BY <1>9, <2>1, <2>2, <2>3
<1>11. TotalSane(r)'
  <2>1. DOMAIN k.totalOut = Day
    BY <1>2 DEF TotalComputed
  <2>2. n \in KeyDays(k.totalOut, Today)
    BY <1>0, <1>2, <1>3 DEF KeyDays
  <2>3. k.accounts # {} \/ (Account = {} /\ k.mode = "full")
    BY <1>0, <1>1, <1>2 DEF TotalSane
  <2>4. DOMAIN k.totalOut = Day /\ KeyDays(k.totalOut, Today) # {} /\ k.mode = "incremental"
    BY <1>1, <1>2, <2>1, <2>2
  <2> QED
    BY <1>2, <1>9, <2>3, <2>4 DEF TotalSane
<1>12. /\ j.stage # "idle" /\ missed \subseteq missed' /\ DOMAIN total' = Day
       /\ k.mode = jobs[r].mode /\ k.mode = "incremental"
  BY <1>0, <1>1, <1>2
<1> QED
  BY <1>1, <1>10, <1>11, <1>12, RunTotal

\* One day moved from what is computed to what is saved.
LEMMA SavedOne ==
    ASSUME NEW f, NEW g, NEW n \in Day, g[n] # NoFrame,
           NEW f1, f1 = [k \in Day |-> IF k = n THEN g[n] ELSE f[k]],
           NEW g1, \A k \in Day : g1[k] = IF k = n THEN NoFrame ELSE g[k]
    PROVE  Save(f1, g1) = Save(f, g)
BY DEF Save

\* The only day computed is saved.
LEMMA SavedLast ==
    ASSUME NEW f, NEW g, NEW n \in Day, g[n] # NoFrame, KeyDays(g, Today) = {n},
           NEW f1, f1 = [k \in Day |-> IF k = n THEN g[n] ELSE f[k]]
    PROVE  f1 = Save(f, g)
<1>1. \A k \in Day : k # n => g[k] = NoFrame
  <2>1. \A k \in Day : k <= Today
    BY RecalcAssumption DEF Day
  <2> QED
    BY <2>1 DEF KeyDays
<1> QED
  BY <1>1 DEF Save

LEMMA AppendDay ==
    ASSUME TotalInv, NEW r \in Runner, AppendTotal(r)
    PROVE  \E n \in Day :
             /\ jobs[r].totalOut[n] # NoFrame
             /\ total' = [total EXCEPT ![n] = jobs[r].totalOut[n]]
             /\ \/ KeyDays(jobs[r].totalOut, Today) = {n} /\ Finish(r)
                \/ /\ KeyDays(jobs[r].totalOut, Today) # {n}
                   /\ n \in KeyDays(jobs[r].totalOut, Today)
                   /\ jobs' = [jobs EXCEPT ![r].totalOut[n] = NoFrame] /\ missed' = missed
<1> DEFINE out == jobs[r].totalOut
           days == KeyDays(out, Today)
           n == CHOOSE d \in days : \A i \in days : d <= i
<1>1. days # {} /\ days \in SUBSET Nat /\ days \subseteq Day
  BY RecalcAssumption DEF AppendTotal, TotalInv, TotalSane, KeyDays, Day
<1>2. \E m \in days : \A i \in days : m <= i
  <2> HIDE DEF days
  <2> QED
    BY <1>1, LeastExists
<1>3. n \in days
  BY <1>2
<1>4. n \in Day /\ out[n] # NoFrame
  BY <1>3 DEF KeyDays
<1>5. /\ total' = [total EXCEPT ![n] = out[n]]
      /\ IF days = {n} THEN Finish(r)
         ELSE jobs' = [jobs EXCEPT ![r].totalOut[n] = NoFrame] /\ missed' = missed
  BY DEF AppendTotal
<1> HIDE DEF n
<1> QED
  BY <1>3, <1>4, <1>5

LEMMA MoreTotal ==
    ASSUME TotalInv, SnapInv', NEW r \in Runner, AppendsOne(r)
    PROVE  TotalInv'
<1> DEFINE j == jobs[r]
<1>0. /\ DOMAIN jobs = Runner /\ JobOK(j) /\ DOMAIN j = JobFields /\ TotalSane(r)
      /\ DOMAIN total = Day
  BY DEF TotalInv, SnapInv, Control, ListInv, TypeInv, JobOK
<1>1. /\ j.stage = "total_append" /\ j.mode = "incremental" /\ DOMAIN j.totalOut = Day
      /\ Apart /\ missed' = missed /\ frames' = frames
  BY <1>0 DEF AppendsOne, AppendTotal, TotalSane, Apart, Edits
<1>2. PICK n \in Day :
        /\ j.totalOut[n] # NoFrame /\ total' = [total EXCEPT ![n] = j.totalOut[n]]
        /\ n \in KeyDays(j.totalOut, Today) /\ KeyDays(j.totalOut, Today) # {n}
        /\ jobs' = [jobs EXCEPT ![r].totalOut[n] = NoFrame]
  <2>1. ~Finish(r)
    <3>1. PICK d : jobs' = [jobs EXCEPT ![r].totalOut[d] = NoFrame]
      BY DEF AppendsOne
    <3> DEFINE h == [j EXCEPT !.totalOut[d] = NoFrame]
    <3>2. h.stage = j.stage
      BY <1>0 DEF JobFields
    <3>3. jobs'[r] = h
      BY <1>0, <3>1
    <3> HIDE DEF h
    <3>4. jobs'[r].stage = "total_append"
      BY <1>1, <3>2, <3>3
    <3>5. Finish(r) => jobs'[r] = IdleJob
      BY <1>0 DEF Finish
    <3> QED
      BY <3>4, <3>5, IdleOK
  <2> QED
    BY <2>1, AppendDay DEF AppendsOne
<1> DEFINE k == [j EXCEPT !.totalOut[n] = NoFrame]
<1>3. /\ k.stage = j.stage /\ k.mode = j.mode /\ k.accounts = j.accounts
      /\ k.totalOut = [j.totalOut EXCEPT ![n] = NoFrame]
  BY <1>0 DEF JobFields
<1>4. jobs' = [jobs EXCEPT ![r] = k]
  BY <1>2
<1> HIDE DEF k
<1>5. /\ jobs'[r] = k /\ TotalComing = Save(total, j.totalOut)
      /\ TotalComing' = Save(total', k.totalOut)
  <2>1. j.stage = "total_append" /\ k.stage = "total_append" /\ j.stage # "idle"
    BY <1>1, <1>3
  <2> QED
    BY <1>4, <2>1, RunComing
<1>6. TotalComing' = TotalComing
  <2> DEFINE g == j.totalOut
             g1 == k.totalOut
             f == total
             f1 == total'
  <2>1. /\ n \in Day /\ g[n] # NoFrame
        /\ f1 = [x \in Day |-> IF x = n THEN g[n] ELSE f[x]]
        /\ \A x \in Day : g1[x] = IF x = n THEN NoFrame ELSE g[x]
    BY <1>0, <1>1, <1>2, <1>3
  <2> HIDE DEF g, g1, f, f1
  <2>2. Save(f1, g1) = Save(f, g)
    BY <2>1, SavedOne
  <2> QED
    BY <1>5, <2>2 DEF g, g1, f, f1
<1>7. TotalSane(r)'
  <2>1. k.accounts # {} \/ (Account = {} /\ k.mode = "full")
    BY <1>0, <1>1, <1>3 DEF TotalSane
  <2>2. DOMAIN k.totalOut = Day
    BY <1>1, <1>3
  <2>3. PICK m \in KeyDays(j.totalOut, Today) : m # n
    BY <1>2
  <2>4. m \in KeyDays(k.totalOut, Today)
    BY <1>1, <1>3, <2>3 DEF KeyDays
  <2>5. DOMAIN k.totalOut = Day /\ KeyDays(k.totalOut, Today) # {} /\ k.mode = "incremental"
    BY <1>1, <1>3, <2>2, <2>4
  <2> QED
    BY <1>1, <1>3, <1>5, <2>1, <2>5 DEF TotalSane
<1>8. /\ j.stage # "idle" /\ missed \subseteq missed' /\ DOMAIN total' = Day
      /\ k.mode = jobs[r].mode /\ k.mode = "incremental"
  BY <1>0, <1>1, <1>2, <1>3
<1> QED
  BY <1>1, <1>4, <1>6, <1>7, <1>8, RunTotal

\* The last day of TOTAL is appended and the job ends.
LEMMA LastTotal ==
    ASSUME TotalInv, SnapInv', NEW r \in Runner, AppendsLast(r)
    PROVE  TotalInv'
<1> DEFINE j == jobs[r]
<1>0. /\ DOMAIN jobs = Runner /\ JobOK(j) /\ DOMAIN j = JobFields /\ TotalSane(r) /\ Control
      /\ DOMAIN total = Day
  BY DEF TotalInv, SnapInv, Control, ListInv, TypeInv, JobOK
<1>1. /\ j.stage = "total_append" /\ j.mode = "incremental" /\ DOMAIN j.totalOut = Day
      /\ Apart /\ jobs' = [jobs EXCEPT ![r] = IdleJob] /\ missed' = missed \ Repaired(r)
  BY <1>0 DEF AppendsLast, AppendTotal, Finish, TotalSane, Apart, Edits
<1>2. PICK n \in Day :
        /\ j.totalOut[n] # NoFrame /\ total' = [total EXCEPT ![n] = j.totalOut[n]]
        /\ KeyDays(j.totalOut, Today) = {n}
  <2>1. ASSUME NEW d, jobs' = [jobs EXCEPT ![r].totalOut[d] = NoFrame] PROVE FALSE
    <3> DEFINE h == [j EXCEPT !.totalOut[d] = NoFrame]
    <3>2. h.stage = j.stage
      BY <1>0 DEF JobFields
    <3>3. jobs'[r] = h
      BY <1>0, <2>1
    <3> HIDE DEF h
    <3>4. jobs'[r].stage = "total_append"
      BY <1>1, <3>2, <3>3
    <3>5. jobs'[r] = IdleJob
      BY <1>0, <1>1
    <3> QED
      BY <3>4, <3>5, IdleOK
  <2> QED
    BY <2>1, AppendDay DEF AppendsLast
<1>3. TotalComing = Save(total, j.totalOut) /\ TotalComing' = total'
  BY <1>1, RunComing, IdleOK
<1>4. TotalComing' = TotalComing
  <2> DEFINE g == j.totalOut
             f == total
             f1 == total'
  <2>1. /\ n \in Day /\ g[n] # NoFrame
        /\ KeyDays(g, Today) = {n}
        /\ f1 = [k \in Day |-> IF k = n THEN g[n] ELSE f[k]]
    BY <1>0, <1>1, <1>2
  <2> HIDE DEF g, f, f1
  <2>2. f1 = Save(f, g)
    BY <2>1, SavedLast
  <2> QED
    BY <1>3, <2>2 DEF g, f, f1
<1>5. \A q \in Runner : jobs'[q].stage = "idle"
  <2>1. \A q \in Runner : q # r => jobs[q].stage = "idle"
    BY <1>0, <1>1, OthersIdle
  <2>2. \A q \in Runner : jobs'[q] = IF q = r THEN IdleJob ELSE jobs[q]
    BY <1>0, <1>1
  <2> QED
    BY <2>1, <2>2, IdleOK
<1>6. Waited \subseteq Waited'
  <2>1. \A q \in Runner : q # r => Answered(q) = {}
    BY <1>0, <1>1, OthersIdle
  <2>2. Settling = {}
    BY <1>1, <2>1, SettlingIs
  <2>3. Repaired(r) = {}
    BY <1>1 DEF Repaired
  <2>4. Owed' = Owed
    BY <1>1, OwedStays DEF Apart, InFlight
  <2> QED
    BY <1>1, <2>2, <2>3, <2>4 DEF Waited
<1>7. \A q \in Runner : TotalSane(q)'
  BY <1>5, IdleSane
<1>8. activities' = activities /\ DOMAIN total' = Day
  BY <1>0, <1>1, <1>2 DEF Apart
<1> QED
  BY <1>4, <1>6, <1>7, <1>8, JobTotal

-----------------------------------------------------------------------------
(***************************************************************************)
(* The ends of a job, and the next-state relation.                         *)
(***************************************************************************)
\* TOTAL is replaced, left alone or saved from a day on.
Closes(r) == ReplaceTotal(r) \/ PrunesLast(r)

LEMMA CloseShows ==
    ASSUME TotalInv, NEW r \in Runner, Closes(r), NEW d \in Day, Retained(d)
    PROVE  \/ Shown(total', d, Nothing) = SumShown(d)
           \/ /\ Shown(total', d, Nothing) = Shown(total, d, Nothing)
              /\ jobs[r].mode # "full"
              /\ jobs[r].mode = "since" =>
                    \A n \in AccountDays : ~(jobs[r].since <= n /\ n <= d)
<1> DEFINE j == jobs[r]
<1>0. /\ JobOK(j) /\ JobSane(r, j) /\ frames \in [Account -> Keyframes] /\ TotalSane(r)
      /\ \A x \in Day : x \in Int /\ 1 <= x /\ x >= 1 /\ x <= Today
      /\ Today \in Int
      /\ \A x \in Int : 1 <= x /\ x <= Today => x \in Day
  <2>1. /\ \A x \in Day : x \in Int /\ 1 <= x /\ x >= 1 /\ x <= Today
        /\ Today \in Int
        /\ \A x \in Int : 1 <= x /\ x <= Today => x \in Day
    BY RecalcAssumption DEF Day
  <2> QED
    BY <2>1 DEF TotalInv, SnapInv, Control, ListInv, TypeInv
<1>1. CASE ReplaceTotal(r)
  <2> DEFINE new == TotalComputed(TotalStart(j))
             whole == AccountDays = {} \/ (new # NoFrames /\ TotalStart(j) = 1)
  <2>1. /\ whole \/ new = NoFrames
        /\ total' = IF whole THEN new ELSE total
    BY <1>1 DEF ReplaceTotal
  <2>2. CASE whole
    <3>1. new = TotalComputed(1)
      <4>1. CASE AccountDays = {}
        BY <4>1 DEF TotalComputed
      <4> QED
        BY <2>2, <4>1
    <3> QED
      BY <1>0, <2>1, <2>2, <3>1, WholeShows
  <2>3. CASE ~whole
    <3>1. new = NoFrames /\ total' = total /\ AccountDays # {}
      BY <2>1, <2>3
    <3>2. ASSUME NEW n \in AccountDays PROVE ~(n >= TotalStart(j))
      <4>1. n \in Day /\ new[n] = NoFrame
        BY <3>1, AccountDaysAre DEF NoFrames
      <4> QED
        BY <1>0, <4>1, ComputedIs
    <3>3. j.mode # "full"
      <4>1. PICK n \in AccountDays : n \in Day
        BY <3>1, AccountDaysAre
      <4>2. ~(n >= TotalStart(j))
        BY <3>2
      <4> QED
        BY <1>0, <4>1, <4>2 DEF TotalStart
    <3>4. ASSUME j.mode = "since", NEW n \in AccountDays PROVE ~(j.since <= n)
      <4>1. ~(n >= j.since) /\ n \in Day
        BY <3>2, <3>4, AccountDaysAre DEF TotalStart
      <4>2. j.since \in Day
        BY <1>0, <3>4, RecalcAssumption DEF JobSane
      <4>3. n \in Int /\ j.since \in Int
        BY <1>0, <4>1, <4>2
      <4> QED
        BY <4>1, <4>3
    <3> QED
      BY <3>1, <3>3, <3>4
  <2> QED
    BY <2>2, <2>3
<1>2. CASE PrunesLast(r)
  <2>1. /\ j.stage = "total_prune"
        /\ total' = total \/ total' = Prune(total)
    BY <1>2 DEF PrunesLast, PruneAfterTotal, AfterTotalPrune, PruneOld, Fault
  <2>2. Shown(total', d, Nothing) = Shown(total, d, Nothing)
    <3>1. Thins(total', total)
      BY <2>1, PruneShows, ThinsSame
    <3> QED
      BY <3>1 DEF Thins, KeptIn
  <2>3. j.mode = "since" /\ SumOrEarlier(total, j.since, d)
    BY <1>0, <2>1 DEF TotalSane
  <2> QED
    BY <2>2, <2>3 DEF SumOrEarlier
<1> QED
  BY <1>1, <1>2 DEF Closes

LEMMA CloseTotal ==
    ASSUME TotalInv, SnapInv', NEW r \in Runner, Closes(r)
    PROVE  TotalInv'
<1> DEFINE j == jobs[r]
<1>0. /\ Control /\ JobOK(j) /\ JobSane(r, j) /\ DOMAIN jobs = Runner /\ TotalSane(r)
      /\ frames \in [Account -> Keyframes] /\ activities \in Book
      /\ \A x \in Day : x \in Int
  <2>1. \A x \in Day : x \in Int
    BY RecalcAssumption DEF Day
  <2> QED
    BY <2>1 DEF TotalInv, SnapInv, Control, ListInv, TypeInv, Book
<1>1. /\ j.stage \in {"total", "total_prune"} /\ jobs' = [jobs EXCEPT ![r] = IdleJob]
      /\ missed' = missed \ Repaired(r) /\ Apart
      /\ frames' = frames \/ frames' = [a \in Account |-> Prune(frames[a])]
  BY DEF Closes, ReplaceTotal, PrunesLast, PruneAfterTotal, PruneOld, AfterTotalPrune,
         Fault, InMemory, Finish, Apart, Edits
<1>9. DOMAIN total' = Day
  BY DEF Closes, ReplaceTotal, PrunesLast, PruneAfterTotal, PruneOld, Fault, Prune,
         TotalComputed, TotalInv
<1>10. TotalComing = total /\ TotalComing' = total'
  <2>1. j.stage # "idle" /\ j.stage # "total_append" /\ IdleJob.stage # "total_append"
    BY <1>1, IdleOK
  <2> QED
    BY <1>1, <2>1, RunComing
<1>2. /\ UNCHANGED activities /\ InFlight' = InFlight /\ Owed' = Owed
      /\ \A q \in Runner : q # r => jobs[q].stage = "idle" /\ Answered(q) = {}
      /\ \A q \in Runner : jobs'[q].stage = "idle"
  <2>1. UNCHANGED activities /\ InFlight' = InFlight /\ Owed' = Owed
    BY <1>1, OwedStays DEF Apart, InFlight
  <2>2. \A q \in Runner : q # r => jobs[q].stage = "idle" /\ Answered(q) = {}
    BY <1>0, <1>1, OthersIdle
  <2>3. \A q \in Runner : jobs'[q] = IF q = r THEN IdleJob ELSE jobs[q]
    BY <1>0, <1>1
  <2> QED
    BY <2>1, <2>2, <2>3, IdleOK
<1>3. Settling = IF j.mode = "incremental" THEN {} ELSE Answered(r)
  BY <1>2, SettlingIs
<1>4. ASSUME NEW d \in Day, Retained(d), Calm(d)'
      PROVE  SumShown(d) = SumReplayed(d)'
  <2>1. Running' = {}
    BY <1>2 DEF Running, Answered, Answers
  <2>2. \A a \in Account : <<a, d>> \notin Due'
    BY <1>4, <2>1 DEF Calm, Due
  <2>3. \A a \in Account : Shown(frames'[a], d, Empty) = Replay(activities', a, d)
    <3>1. SnapshotsAreReplay'
      BY SnapImplies, PTL
    <3> QED
      BY <1>4, <2>2, <3>1 DEF SnapshotsAreReplay
  <2>4. \A a \in Account : Shown(frames'[a], d, Empty) = Shown(frames[a], d, Empty)
    <3>1. \A a \in Account : Thins(frames'[a], frames[a])
      BY <1>1, PruneShows, ThinsSame
    <3> QED
      BY <1>4, <3>1 DEF Thins, KeptIn
  <2> QED
    BY <2>3, <2>4 DEF SumShown, SumReplayed
<1>5. ASSUME NEW d \in Day, Calm(d)', j.mode = "incremental"
      PROVE  Calm(d)
  <2>1. Repaired(r) = {}
    BY <1>5 DEF Repaired
  <2> QED
    BY <1>1, <1>2, <1>3, <1>5, <2>1 DEF Calm, Splitting
<1>6. ASSUME NEW d \in Day, Retained(d), Calm(d)', j.mode = "since",
             \A n \in AccountDays : ~(j.since <= n /\ n <= d)
      PROVE  Calm(d)
  <2>1. /\ r = Worker /\ j.since \in Day /\ j.since # 0 /\ j.accounts # {}
        /\ j.accounts \subseteq Account
    BY <1>0, <1>6, RecalcAssumption DEF JobSane, TotalSane, Day
  <2>2. ~Splitting /\ ~Pulling
    <3>1. ~Splitting
      BY <1>2, <1>6 DEF Calm, Splitting
    <3>2. PICK a \in j.accounts : a \in Account
      BY <2>1
    <3>3. <<a, d>> \notin Owed /\ <<a, d>> \in Cell
      BY <1>2, <1>6, <3>2 DEF Calm, Cell
    <3> QED
      BY <3>1, <3>3, PulledOwes DEF Pulling
  <2>3. SinceSound(r)
    BY <1>0, <1>1, <1>6, <2>2 DEF TotalSane, Busy
  <2>4. ~(d >= j.since)
    <3>1. CASE j.failed
      <4>1. PICK a \in j.accounts : a \in Account
        BY <2>1
      <4>2. Repaired(r) = {}
        BY <3>1 DEF Repaired
      <4>3. <<a, d>> \notin missed
        BY <1>1, <1>6, <4>1, <4>2 DEF Calm
      <4> QED
        BY <2>3, <3>1, <4>1, <4>3 DEF SinceSound
    <3>2. CASE ~j.failed
      <4>1. PICK a \in j.accounts : ShowsFrom(Coming(a), j.since)
        BY <2>3, <3>2 DEF SinceSound
      <4>2. WritesAlone(jobs, r) /\ a \notin j.todo
        BY <1>0, <1>1, OthersIdle DEF WritesAlone, JobSane, Rewriting
      <4>3. Coming(a) = frames[a] /\ a \in Account
        BY <2>1, <4>1, <4>2, ComingIs DEF Coming
      <4>4. ASSUME d >= j.since PROVE FALSE
        <5>1. PICK n \in KeyDays(frames[a], d) : n >= j.since
          BY <1>6, <4>1, <4>3, <4>4 DEF ShowsFrom
        <5>2. n \in Day /\ n <= d /\ frames[a][n] # NoFrame
          BY <5>1 DEF KeyDays
        <5>3. n \in AccountDays
          BY <4>3, <5>2, AccountDaysAre
        <5>4. j.since <= n
          BY <1>0, <2>1, <5>1, <5>2
        <5> QED
          BY <1>6, <5>2, <5>3, <5>4
      <4> QED
        BY <4>4
    <3> QED
      BY <3>1, <3>2
  <2>5. ASSUME NEW a \in Account PROVE <<a, d>> \notin Answered(r)
    <3>1. SplitDays(activities, a) = {}
      BY <2>2 DEF Splitting
    <3>2. ~Reaches(activities, a, j.since, d)
      BY <2>1, <2>4, <3>1 DEF Reaches
    <3> QED
      BY <2>1, <3>2 DEF Answered, Answers
  <2>6. ASSUME NEW a \in Account, <<a, d>> \in Repaired(r), <<a, d>> \in missed PROVE FALSE
    <3>1. a \in j.accounts /\ d >= j.start[a]
      BY <1>6, <2>6 DEF Repaired
    <3>2. j.start[a] >= j.since /\ j.start[a] \in Day \union {Never}
      BY <1>0, <2>1, <2>3, <3>1 DEF SinceSound, JobSane
    <3>3. j.start[a] \in Int /\ d \in Int /\ j.since \in Int
      BY <1>0, <2>1, <3>2, RecalcAssumption DEF Never
    <3> QED
      BY <2>4, <3>1, <3>2, <3>3
  <2>7. \A a \in Account : <<a, d>> \notin missed
    BY <1>1, <1>6, <2>6 DEF Calm
  <2> QED
    BY <1>2, <1>3, <1>6, <2>2, <2>5, <2>7 DEF Calm
<1>7. ASSUME NEW d \in Day, Retained(d), Calm(d)'
      PROVE  Shown(total', d, Nothing) = SumReplayed(d)'
  <2>1. SumReplayed(d)' = SumReplayed(d)
    BY <1>2 DEF SumReplayed
  <2>2. \/ Shown(total', d, Nothing) = SumShown(d)
        \/ /\ Shown(total', d, Nothing) = Shown(total, d, Nothing)
           /\ j.mode # "full"
           /\ j.mode = "since" => \A n \in AccountDays : ~(j.since <= n /\ n <= d)
    BY <1>7, CloseShows
  <2>3. CASE Shown(total', d, Nothing) = SumShown(d)
    BY <1>4, <1>7, <2>3
  <2>4. CASE Shown(total', d, Nothing) # SumShown(d)
    <3>1. Calm(d)
      BY <1>0, <1>5, <1>6, <1>7, <2>2, <2>4 DEF JobOK
    <3>2. Shown(total, d, Nothing) = SumReplayed(d)
      BY <1>7, <1>10, <3>1 DEF TotalInv, TotalAt
    <3> QED
      BY <2>1, <2>2, <2>4, <3>2
  <2> QED
    BY <2>3, <2>4
<1>8. \A q \in Runner : TotalSane(q)'
  BY <1>2, IdleSane
<1>11. \A d \in Day : TotalAt(d)'
  BY <1>7, <1>10 DEF TotalAt
<1> QED
  BY <1>8, <1>9, <1>11 DEF TotalInv

LEMMA NextTotal ==
    ASSUME Cases = {}
    PROVE  TotalInv /\ [Next]_vars => TotalInv'
<1> SUFFICES ASSUME TotalInv, [Next]_vars PROVE TotalInv'
  OBVIOUS
<1>0. SnapInv'
  BY NextSnap DEF TotalInv
<1>1. CASE Edit
  BY <1>0, <1>1, EditTotal
<1>2. CASE (\E u \in updating : FailUpdate(u)) \/ QueueStep \/ UNCHANGED vars
  <2>1. UNCHANGED <<activities, jobs, frames, total, missed>>
    BY <1>2 DEF FailUpdate, QueueStep, Emit, Receive, vars
  <2>2. InFlight' = InFlight
    <3>1. QueueStep => InFlight' = InFlight
      BY QueueMoves DEF TotalInv, SnapInv
    <3> QED
      BY <1>2, <3>1 DEF FailUpdate, vars, InFlight
  <2> QED
    BY <1>0, <2>1, <2>2, QuietTotal
<1>3. CASE ProcessBatch
  BY <1>0, <1>3, BatchTotal
<1>4. CASE \E c \in Caller, accounts \in (SUBSET Account) \ {{}} :
            StartCall(c, "full", accounts) \/ StartCall(c, "incremental", accounts)
  <2>1. PICK c \in Caller, accounts \in (SUBSET Account) \ {{}}, mode \in {"full", "incremental"} :
          StartCall(c, mode, accounts)
    BY <1>4
  <2>2. accounts \in SUBSET Account /\ accounts # {}
    OBVIOUS
  <2> QED
    BY <1>0, <2>1, <2>2, CallTotal
<1>5. CASE \E r \in Runner : JobStep(r) \/ FailJob(r) \/ FailWrite(r) \/ FailPrune(r)
  <2>1. PICK r \in Runner : JobStep(r) \/ FailJob(r) \/ FailWrite(r) \/ FailPrune(r)
    BY <1>5
  <2>2. \/ Read(r) \/ FailJob(r) \/ FailWrite(r) \/ Closes(r) \/ DeleteTotalRange(r)
        \/ SaveTotalRange(r) \/ BeginAppend(r) \/ AppendsOne(r) \/ AppendsLast(r) \/ PrunesOn(r)
        \/ \E a \in Account : OverwriteAll(r, a) \/ DeleteRange(r, a) \/ SaveRange(r, a)
    BY <2>1, JobKinds DEF Works, Appends, Ends, Closes
  <2>3. CASE Read(r)
    BY <1>0, <2>3, ReadTotal
  <2>4. CASE FailJob(r) \/ FailWrite(r)
    BY <1>0, <2>4, FailTotal
  <2>5. CASE Closes(r)
    BY <1>0, <2>5, CloseTotal
  <2>6. CASE DeleteTotalRange(r) \/ SaveTotalRange(r)
    BY <1>0, <2>6, DeleteTotal, SaveTotal
  <2>7. CASE \E a \in Account : OverwriteAll(r, a) \/ DeleteRange(r, a) \/ SaveRange(r, a)
    <3>1. PICK a \in Account : OverwriteAll(r, a) \/ DeleteRange(r, a) \/ SaveRange(r, a)
      BY <2>7
    <3>2. PICK k : WritesAs(r, k)
      BY <3>1, OverwriteWrites, DeleteWrites, CleanWrites, SaveWrites DEF TotalInv
    <3>3. Rewriting(jobs[r]) /\ total' = total
      BY <3>1 DEF OverwriteAll, DeleteRange, SaveRange, Rewriting
    <3> QED
      BY <1>0, <3>2, <3>3, WriteTotal
  <2>8. CASE BeginAppend(r) \/ AppendsOne(r) \/ AppendsLast(r)
    BY <1>0, <2>8, BeginTotal, MoreTotal, LastTotal
  <2>9. CASE PrunesOn(r)
    <3>1. PICK k : WritesAs(r, k)
      BY <2>9, PruneWrites DEF TotalInv
    <3>2. Rewriting(jobs[r]) /\ (total' = total \/ total' = Prune(total))
      BY <2>9 DEF PrunesOn, PruneAfterSave, AfterPrune, PruneOld, Fault, Rewriting
    <3> QED
      BY <1>0, <3>1, <3>2, WriteTotal
  <2> QED
    BY <2>2, <2>3, <2>4, <2>5, <2>6, <2>7, <2>8, <2>9
<1>6. CASE Crash
  BY <1>0, <1>6, CrashTotal
<1> QED
  BY <1>1, <1>2, <1>3, <1>4, <1>5, <1>6 DEF Next, Queue, QueueStep

\* On a retained day that no account waits for and no split can reach, the
\* accounts and TOTAL show the same replays.
LEMMA TotalImplies == TotalInv => TotalIsSum
<1> SUFFICES ASSUME TotalInv, NEW d \in Day, Retained(d),
                    \A a \in Account : <<a, d>> \notin Due /\ SplitDays(activities, a) = {}
             PROVE  Shown(total, d, Nothing) = SumShown(d)
  BY DEF TotalIsSum, Nothing, SumShown
<1>1. Settling \subseteq Running
  BY DEF Settling, Running
<1>2. Calm(d)
  BY <1>1 DEF Calm, Splitting, Due
<1>3. Shown(TotalComing, d, Nothing) = SumReplayed(d)
  BY <1>2 DEF TotalInv, TotalAt
<1>4. Shown(TotalComing, d, Nothing) = Shown(total, d, Nothing)
  BY ComingShows DEF Due
<1>5. \A a \in Account : Shown(frames[a], d, Empty) = Replay(activities, a, d)
  BY SnapImplies DEF TotalInv, SnapshotsAreReplay
<1>6. SumShown(d) = SumReplayed(d)
  BY <1>5 DEF SumShown, SumReplayed
<1> QED
  BY <1>3, <1>4, <1>6

\* In the plain situations TOTAL shows on every retained day that is settled the
\* sum of what the accounts show, while there is no split: whichever jobs delete
\* and save its days, append to them one by one or replace them, wherever they
\* fail or the process stops in between, and whatever the prunes remove; for all
\* accounts, activities, days, months, callers and bounds.
THEOREM TotalShown ==
    ASSUME Cases = {}
    PROVE  Spec => []TotalIsSum
<1>1. Init => TotalInv
  BY InitTotal
<1>2. TotalInv /\ [Next]_vars => TotalInv'
  BY NextTotal
<1>3. TotalInv => TotalIsSum
  BY TotalImplies
<1> QED
  BY <1>1, <1>2, <1>3, PTL DEF Spec
=============================================================================
