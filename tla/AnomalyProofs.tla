--------------------------- MODULE AnomalyProofs ---------------------------
(***************************************************************************)
(* The ring buffer of the anomaly detector, for every HISTORY_LEN and      *)
(* every set of magnitudes and thresholds: the index always names the slot *)
(* of the oldest sample, the ring holds the last HISTORY_LEN samples, and  *)
(* the alerts are exactly the samples that miss the mean of the window     *)
(* before them, of which one shock has one.                                *)
(***************************************************************************)
EXTENDS Anomaly, FiniteSetTheorems, TLAPS

\* (history_idx + 1) % HISTORY_LEN without the remainder.
LEMMA NextIdxWraps ==
  ASSUME idx \in Slots
  PROVE  NextIdx = IF idx = HISTORY_LEN - 1 THEN 0 ELSE idx + 1
<1>1. CASE idx = HISTORY_LEN - 1
  BY <1>1, HistoryAssumption DEF NextIdx, Slots
<1>2. CASE idx # HISTORY_LEN - 1
  BY <1>2, HistoryAssumption DEF NextIdx, Slots
<1> QED BY <1>1, <1>2
\* The index stays inside the ring.
LEMMA NextIdxInRing ==
  ASSUME idx \in Slots
  PROVE  NextIdx \in Slots
BY NextIdxWraps, HistoryAssumption DEF Slots

LEMMA TypeInit == Init => TypeOK
BY HistoryAssumption DEF Init, TypeOK, Slots

LEMMA TypeStep == TypeOK /\ [Next]_vars => TypeOK'
<1> SUFFICES ASSUME TypeOK, [Next]_vars PROVE TypeOK'
  OBVIOUS
<1> USE HistoryAssumption, DataAssumption
<1>1. ASSUME NEW m \in Magnitudes, Fill(m) PROVE TypeOK'
  <2>1. idx' \in Slots
    BY <1>1, NextIdxInRing DEF Fill, Count, TypeOK
  <2>2. history' \in [Slots -> Nat]
    BY <1>1 DEF Fill, WarmUp, TypeOK
  <2>3. /\ samples' \in Seq(Magnitudes) /\ inForce' \in Seq(Thresholds)
        /\ Len(samples') = Len(samples) + 1 /\ Len(inForce') = Len(inForce) + 1
    BY <1>1 DEF Fill, Count, TypeOK
  <2>4. count' \in 0..HISTORY_LEN /\ alerts' \subseteq 1..Len(samples')
    BY <1>1, <2>3 DEF Fill, TypeOK
  <2> QED BY <1>1, <2>1, <2>2, <2>3, <2>4 DEF Fill, TypeOK
<1>2. ASSUME NEW m \in Magnitudes, Detect(m) PROVE TypeOK'
  <2>1. idx' \in Slots
    BY <1>2, NextIdxInRing DEF Detect, Count, TypeOK
  <2>2. history' \in [Slots -> Nat]
    BY <1>2 DEF Detect, TypeOK
  <2>3. /\ samples' \in Seq(Magnitudes) /\ inForce' \in Seq(Thresholds)
        /\ Len(samples') = Len(samples) + 1 /\ Len(inForce') = Len(inForce) + 1
    BY <1>2 DEF Detect, Count, TypeOK
  <2>4. alerts' \subseteq alerts \cup {Len(samples) + 1}
    BY <1>2 DEF Detect
  <2>5. alerts' \subseteq 1..Len(samples')
    BY <2>3, <2>4 DEF TypeOK
  <2> QED BY <1>2, <2>1, <2>2, <2>3, <2>5 DEF Detect, TypeOK
<1>3. ASSUME NEW t \in Thresholds, SetThreshold(t) PROVE TypeOK'
  BY <1>3 DEF SetThreshold, TypeOK
<1>4. CASE UNCHANGED vars
  BY <1>4 DEF vars, TypeOK
<1> QED BY <1>1, <1>2, <1>3, <1>4 DEF Next

\* Types, for every HISTORY_LEN: in particular no access outside the ring.
THEOREM TypeCorrect == Spec => []TypeOK
BY TypeInit, TypeStep, PTL DEF Spec

----------------------------------------------------------------------------
\* A sample that arrives while the ring fills leaves a ring that still repeats
\* the first sample in the slots not written yet.
LEMMA FillKeepsWindow ==
  ASSUME TypeOK, RingHoldsWindow, NEW m \in Magnitudes, Fill(m)
  PROVE  RingHoldsWindow'
<1> USE HistoryAssumption
<1>1. /\ count \in Nat /\ count < HISTORY_LEN /\ idx = count /\ Len(samples) = count
      /\ samples \in Seq(Magnitudes)
      /\ count' = count + 1 /\ samples' = Append(samples, m) /\ idx' = NextIdx
      /\ history' = WarmUp(m)
  BY DEF Fill, Count, TypeOK, RingHoldsWindow
<1>2. Len(samples') = count + 1
  BY <1>1
<1>3. idx' = IF count + 1 = HISTORY_LEN THEN 0 ELSE count + 1
  BY <1>1, NextIdxWraps DEF TypeOK
<1>4. ASSUME NEW j \in Slots
      PROVE  history'[j] = samples'[IF j <= count THEN j + 1 ELSE 1]
  <2>1. CASE count = 0
    <3>1. history'[j] = m
      BY <1>1, <2>1 DEF WarmUp
    <3>2. samples'[1] = m
      BY <1>1, <2>1
    <3> QED BY <2>1, <3>1, <3>2, <1>4 DEF Slots
  <2>2. CASE count # 0 /\ j = count
    <3>1. history'[j] = m
      BY <1>1, <2>2 DEF WarmUp, TypeOK
    <3>2. samples'[count + 1] = m
      BY <1>1
    <3> QED BY <2>2, <3>1, <3>2, <1>1
  <2>3. CASE count # 0 /\ j # count
    <3>1. history'[j] = history[j]
      BY <1>1, <2>3 DEF WarmUp, TypeOK
    <3>2. history[j] = samples[IF j < count THEN j + 1 ELSE 1]
      BY <1>1, <2>3 DEF RingHoldsWindow, SlotSample, Slots
    <3>3. \A i \in 1..count : samples'[i] = samples[i]
      BY <1>1
    <3> QED BY <1>1, <2>3, <3>1, <3>2, <3>3 DEF Slots
  <2> QED BY <2>1, <2>2, <2>3
<1>5. ASSUME NEW j \in Slots
      PROVE  SlotSample(j)' = IF j <= count THEN j + 1 ELSE 1
  <2>1. CASE count + 1 < HISTORY_LEN
    BY <1>1, <1>2, <1>3, <2>1 DEF SlotSample, Slots
  <2>2. CASE count + 1 = HISTORY_LEN
    BY <1>1, <1>2, <1>3, <2>2 DEF SlotSample, Slots
  <2> QED BY <1>1, <2>1, <2>2
<1>6. /\ (count < HISTORY_LEN => idx = count /\ Len(samples) = count)'
      /\ (count = HISTORY_LEN => Len(samples) >= HISTORY_LEN)'
  BY <1>1, <1>2, <1>3
<1> QED BY <1>4, <1>5, <1>6 DEF RingHoldsWindow

\* A sample that arrives once the ring is full replaces the oldest one.
LEMMA DetectKeepsWindow ==
  ASSUME TypeOK, RingHoldsWindow, NEW m \in Magnitudes, Detect(m)
  PROVE  RingHoldsWindow'
<1> USE HistoryAssumption
<1> DEFINE L == Len(samples)
<1>1. /\ count = HISTORY_LEN /\ count' = count /\ L >= HISTORY_LEN /\ L \in Nat
      /\ samples \in Seq(Magnitudes) /\ samples' = Append(samples, m)
      /\ idx \in Slots /\ idx' = NextIdx
      /\ history \in [Slots -> Nat] /\ history' = [history EXCEPT ![idx] = m]
  BY DEF Detect, Count, TypeOK, RingHoldsWindow
<1>2. /\ samples'[L + 1] = m
      /\ \A i \in 1..L : samples'[i] = samples[i]
  BY <1>1
<1>2a. /\ count' = HISTORY_LEN /\ count = HISTORY_LEN
       /\ Len(samples') = L + 1 /\ L \in Nat /\ HISTORY_LEN \in Nat
  BY <1>1
<1>3. idx' = IF idx = HISTORY_LEN - 1 THEN 0 ELSE idx + 1
  BY <1>1, NextIdxWraps
<1>4. ASSUME NEW j \in Slots
      PROVE  history'[j] = samples'[SlotSample(j)']
  <2>1. CASE j = idx
    <3>1. idx \in Nat /\ idx < HISTORY_LEN /\ idx' \in Nat
      BY <1>1, <1>3 DEF Slots
    <3>2. SlotSample(j)' = L + 1 - idx' + idx + 1 - (IF idx < idx' THEN 0 ELSE HISTORY_LEN)
      BY <1>2a, <2>1, <3>1 DEF SlotSample
    <3>3. SlotSample(j)' = L + 1
      BY <1>2a, <1>3, <3>1, <3>2
    <3> QED BY <1>1, <1>2, <2>1, <3>3
  <2>2. CASE j # idx
    <3> SUFFICES SlotSample(j)' = SlotSample(j) /\ SlotSample(j) \in 1..L
      BY <1>1, <1>2, <2>2 DEF RingHoldsWindow
    <3>2. j \in Nat /\ j < HISTORY_LEN /\ idx \in Nat /\ idx < HISTORY_LEN
      BY <1>1 DEF Slots
    <3>3. L \in Nat /\ L >= HISTORY_LEN
      BY <1>1
    <3>4. CASE idx = HISTORY_LEN - 1
      <4>1. idx' = 0 /\ j < idx
        BY <1>3, <2>2, <3>2, <3>4
      <4>2. SlotSample(j) = L - idx + j + 1
        BY <1>2a, <3>2, <4>1 DEF SlotSample
      <4>3. SlotSample(j)' = L + 1 - 0 + j + 1 - HISTORY_LEN
        BY <1>2a, <3>2, <4>1 DEF SlotSample
      <4> QED BY <3>2, <3>3, <3>4, <4>1, <4>2, <4>3
    <3>5. CASE idx # HISTORY_LEN - 1 /\ j < idx
      <4>1. idx' = idx + 1 /\ j < idx'
        BY <1>3, <3>2, <3>5
      <4>2. SlotSample(j) = L - idx + j + 1
        BY <1>2a, <3>2, <3>5 DEF SlotSample
      <4>3. SlotSample(j)' = L + 1 - (idx + 1) + j + 1
        BY <1>2a, <3>2, <4>1 DEF SlotSample
      <4> QED BY <3>2, <3>3, <3>5, <4>2, <4>3
    <3>6. CASE idx # HISTORY_LEN - 1 /\ j > idx
      <4>1. idx' = idx + 1 /\ ~(j < idx')
        BY <1>3, <3>2, <3>6
      <4>2. SlotSample(j) = L - idx + j + 1 - HISTORY_LEN
        BY <1>2a, <3>2, <3>6 DEF SlotSample
      <4>3. SlotSample(j)' = L + 1 - (idx + 1) + j + 1 - HISTORY_LEN
        BY <1>2a, <3>2, <4>1 DEF SlotSample
      <4> QED BY <3>2, <3>3, <3>6, <4>2, <4>3
    <3> QED BY <2>2, <3>2, <3>4, <3>5, <3>6
  <2> QED BY <2>1, <2>2
<1>5. count' = HISTORY_LEN /\ Len(samples') >= HISTORY_LEN
  BY <1>1, <1>2a
<1> QED BY <1>4, <1>5 DEF RingHoldsWindow

LEMMA WindowStep == TypeOK /\ RingHoldsWindow /\ [Next]_vars => RingHoldsWindow'
<1> SUFFICES ASSUME TypeOK, RingHoldsWindow, [Next]_vars PROVE RingHoldsWindow'
  OBVIOUS
<1>1. ASSUME NEW t \in Thresholds, SetThreshold(t) PROVE RingHoldsWindow'
  BY <1>1 DEF SetThreshold, RingHoldsWindow, SlotSample
<1>2. CASE UNCHANGED vars
  BY <1>2 DEF vars, RingHoldsWindow, SlotSample
<1> QED BY <1>1, <1>2, FillKeepsWindow, DetectKeepsWindow DEF Next

\* Whatever HISTORY_LEN is, and however often the index has wrapped around, the
\* mean an alert is judged by is the mean of the most recent samples.
THEOREM WindowCorrect == Spec => []RingHoldsWindow
<1>1. Init => RingHoldsWindow
  BY HistoryAssumption DEF Init, RingHoldsWindow
<1> QED BY <1>1, TypeInit, TypeStep, WindowStep, PTL DEF Spec

----------------------------------------------------------------------------
(* Sums over finite sets, as MapThenSumSet computes them.  Each induction  *)
(* over the subsets of a finite set is done here on a smallest subset for  *)
(* which the claim fails, which exists because strict inclusion of finite  *)
(* sets is well-founded.                                                   *)

SumOver(h, S) == MapThenSumSet(LAMBDA i : h[i], S)

Pick(s) == CHOOSE x \in s : TRUE

Rest(s) == s \ {Pick(s)}

\* The recursion of MapThenSumSet.
IsFold(g, h, S) ==
  g = [s \in SUBSET S |-> IF s = {} THEN 0 ELSE h[Pick(s)] + g[Rest(s)]]

LEMMA SumIsFold ==
  ASSUME NEW S, NEW h
  PROVE  SumOver(h, S) = (CHOOSE g : IsFold(g, h, S))[S]
  BY DEF SumOver, MapThenSumSet, MapThenFoldSet, IsFold, Pick, Rest

LEMMA MinimalSubset ==
  ASSUME NEW S, IsFiniteSet(S), NEW T, T \subseteq SUBSET S, T # {}
  PROVE  \E s \in T : \A u \in T : u \subseteq s => u = s
<1>1. FiniteSubsetsOf(S) = SUBSET S
  BY FS_FiniteSubsetsOfFinite
<1>2. IsWellFoundedOn(StrictSubsetOrdering(S), SUBSET S)
  BY <1>1, FS_StrictSubsetOrderingWellFounded
<1>3. \E s \in T : \A u \in T : ~ (<<u, s>> \in StrictSubsetOrdering(S))
  BY <1>2, WFMin
<1> QED
  BY <1>3 DEF StrictSubsetOrdering

LEMMA PickInSet ==
  ASSUME NEW s, s # {}
  PROVE  Pick(s) \in s /\ Rest(s) \subseteq s /\ Rest(s) # s
  BY DEF Pick, Rest

\* There is one such fold at most,
LEMMA FoldsAgree ==
  ASSUME NEW S, IsFiniteSet(S), NEW R \in SUBSET S, NEW h,
         NEW f, IsFold(f, h, S), NEW g, IsFold(g, h, R)
  PROVE  \A s \in SUBSET R : f[s] = g[s]
<1> DEFINE Bad == {s \in SUBSET R : f[s] # g[s]}
<1> SUFFICES ASSUME Bad # {} PROVE FALSE
  OBVIOUS
<1>1. IsFiniteSet(R)
  BY FS_Subset
<1>2. \E s \in Bad : \A u \in Bad : u \subseteq s => u = s
  <2>1. Bad \subseteq SUBSET R
    OBVIOUS
  <2> HIDE DEF Bad
  <2> QED
    BY <1>1, <2>1, MinimalSubset
<1>2a. PICK s \in Bad : \A u \in Bad : u \subseteq s => u = s
  BY <1>2
<1>3. /\ f[s] = IF s = {} THEN 0 ELSE h[Pick(s)] + f[Rest(s)]
      /\ g[s] = IF s = {} THEN 0 ELSE h[Pick(s)] + g[Rest(s)]
  BY DEF IsFold
<1>4. s # {}
  BY <1>3
<1>5. f[Rest(s)] = g[Rest(s)]
  BY <1>2a, <1>4, PickInSet
<1> QED
  BY <1>3, <1>4, <1>5

\* and one at least.
LEMMA FoldExists ==
  ASSUME NEW S, IsFiniteSet(S), NEW h
  PROVE  \E g : IsFold(g, h, S)
<1> DEFINE Bad == {s \in SUBSET S : ~ \E g : IsFold(g, h, s)}
<1> SUFFICES ASSUME Bad # {} PROVE FALSE
  OBVIOUS
<1>1. \E s \in Bad : \A u \in Bad : u \subseteq s => u = s
  <2>1. Bad \subseteq SUBSET S
    OBVIOUS
  <2> HIDE DEF Bad
  <2> QED
    BY <2>1, MinimalSubset
<1>1a. PICK s \in Bad : \A u \in Bad : u \subseteq s => u = s
  BY <1>1
<1> DEFINE G(u) == CHOOSE g : IsFold(g, h, u)
<1>2. ASSUME NEW u \in SUBSET s, u # s PROVE IsFold(G(u), h, u)
  <2>1. \E g : IsFold(g, h, u)
    BY <1>1a, <1>2
  <2> QED
    BY <2>1
<1> DEFINE g == [u \in SUBSET s |-> IF u = {} THEN 0 ELSE h[Pick(u)] + G(Rest(u))[Rest(u)]]
<1> HIDE DEF G
<1>3. ASSUME NEW u \in SUBSET s, u # s PROVE g[u] = G(u)[u]
  <2>1. CASE u = {}
    BY <1>2, <1>3, <2>1 DEF IsFold
  <2>2. CASE u # {}
    <3>1. G(u)[u] = h[Pick(u)] + G(u)[Rest(u)]
      BY <1>2, <1>3, <2>2 DEF IsFold
    <3>2. Rest(u) \in SUBSET u /\ Rest(u) \in SUBSET s /\ Rest(u) # s
      BY <1>3, <2>2, PickInSet
    <3>3. IsFold(G(u), h, u) /\ IsFold(G(Rest(u)), h, Rest(u))
      BY <1>2, <1>3, <3>2
    <3>4. IsFiniteSet(u)
      BY FS_Subset
    <3>5. G(u)[Rest(u)] = G(Rest(u))[Rest(u)]
      BY <3>2, <3>3, <3>4, FoldsAgree
    <3> QED
      BY <2>2, <3>1, <3>5
  <2> QED
    BY <2>1, <2>2
<1>4. ASSUME NEW u \in SUBSET s
      PROVE  g[u] = IF u = {} THEN 0 ELSE h[Pick(u)] + g[Rest(u)]
  <2>1. CASE u = {}
    BY <2>1
  <2>2. CASE u # {}
    <3>1. Rest(u) \in SUBSET s /\ Rest(u) # s
      BY <2>2, PickInSet
    <3>2. g[Rest(u)] = G(Rest(u))[Rest(u)]
      BY <1>3, <3>1
    <3> QED
      BY <2>2, <3>2
  <2> QED
    BY <2>1, <2>2
<1>5. g = [u \in SUBSET s |-> IF u = {} THEN 0 ELSE h[Pick(u)] + g[Rest(u)]]
  BY <1>4
<1>6. IsFold(g, h, s)
  BY <1>5 DEF IsFold
<1> QED
  BY <1>6

\* What MapThenSumSet computes, element by element,
LEMMA SumUnfolds ==
  ASSUME NEW S, IsFiniteSet(S), NEW h
  PROVE  SumOver(h, S) = IF S = {} THEN 0 ELSE h[Pick(S)] + SumOver(h, Rest(S))
<1> DEFINE G(u) == CHOOSE g : IsFold(g, h, u)
<1>1. IsFold(G(S), h, S)
  BY FoldExists
<1>2. SumOver(h, S) = G(S)[S] /\ SumOver(h, Rest(S)) = G(Rest(S))[Rest(S)]
  BY SumIsFold
<1>3. IsFiniteSet(Rest(S)) /\ Rest(S) \in SUBSET S
  BY FS_RemoveElement DEF Rest
<1>4. IsFold(G(Rest(S)), h, Rest(S))
  BY <1>3, FoldExists
<1> HIDE DEF G
<1>5. G(S)[Rest(S)] = G(Rest(S))[Rest(S)]
  BY <1>1, <1>3, <1>4, FoldsAgree
<1>6. G(S)[S] = IF S = {} THEN 0 ELSE h[Pick(S)] + G(S)[Rest(S)]
  BY <1>1 DEF IsFold
<1> QED
  BY <1>2, <1>5, <1>6

LEMMA SumInNat ==
  ASSUME NEW S, IsFiniteSet(S), NEW h, \A i \in S : h[i] \in Nat
  PROVE  SumOver(h, S) \in Nat
<1> DEFINE Bad == {s \in SUBSET S : SumOver(h, s) \notin Nat}
<1> SUFFICES ASSUME Bad # {} PROVE FALSE
  OBVIOUS
<1>1. \E s \in Bad : \A u \in Bad : u \subseteq s => u = s
  <2>1. Bad \subseteq SUBSET S
    OBVIOUS
  <2> HIDE DEF Bad
  <2> QED
    BY <2>1, MinimalSubset
<1>1a. PICK s \in Bad : \A u \in Bad : u \subseteq s => u = s
  BY <1>1
<1>2. SumOver(h, s) = IF s = {} THEN 0 ELSE h[Pick(s)] + SumOver(h, Rest(s))
  BY SumUnfolds, FS_Subset
<1>3. s # {}
  BY <1>2
<1>4. SumOver(h, Rest(s)) \in Nat /\ h[Pick(s)] \in Nat
  BY <1>1a, <1>3, PickInSet
<1> QED
  BY <1>2, <1>3, <1>4

\* and in any order.
LEMMA SumTakesOut ==
  ASSUME NEW S, IsFiniteSet(S), NEW h, \A i \in S : h[i] \in Nat, NEW x \in S
  PROVE  SumOver(h, S) = h[x] + SumOver(h, S \ {x})
<1> DEFINE Bad == {s \in SUBSET S : \E y \in s : SumOver(h, s) # h[y] + SumOver(h, s \ {y})}
<1> SUFFICES ASSUME Bad # {} PROVE FALSE
  OBVIOUS
<1>1. \E s \in Bad : \A u \in Bad : u \subseteq s => u = s
  <2>1. Bad \subseteq SUBSET S
    OBVIOUS
  <2> HIDE DEF Bad
  <2> QED
    BY <2>1, MinimalSubset
<1>1a. PICK s \in Bad : \A u \in Bad : u \subseteq s => u = s
  BY <1>1
<1>2. PICK y \in s : SumOver(h, s) # h[y] + SumOver(h, s \ {y})
  OBVIOUS
<1> DEFINE p == Pick(s)
<1>3. p \in s /\ IsFiniteSet(s)
  BY PickInSet, FS_Subset
<1>4. SumOver(h, s) = h[p] + SumOver(h, s \ {p})
  BY <1>3, SumUnfolds DEF Rest
<1>5. p # y
  BY <1>2, <1>4
<1>6. s \ {p} \notin Bad /\ s \ {y} \notin Bad
  BY <1>1a, <1>3
<1>7. SumOver(h, s \ {p}) = h[y] + SumOver(h, (s \ {p}) \ {y})
  BY <1>3, <1>5, <1>6
<1>8. SumOver(h, s \ {y}) = h[p] + SumOver(h, (s \ {y}) \ {p})
  BY <1>3, <1>5, <1>6
<1>9. (s \ {p}) \ {y} = (s \ {y}) \ {p}
  OBVIOUS
<1>10. h[p] \in Nat /\ h[y] \in Nat /\ SumOver(h, (s \ {y}) \ {p}) \in Nat
  <2>1. IsFiniteSet((s \ {y}) \ {p})
    BY <1>3, FS_RemoveElement
  <2> QED
    BY <1>3, <2>1, SumInNat
<1>11. SumOver(h, s) = h[y] + SumOver(h, s \ {y})
  <2> DEFINE X == SumOver(h, (s \ {y}) \ {p})
  <2>1. /\ SumOver(h, s) = h[p] + (h[y] + X)
        /\ SumOver(h, s \ {y}) = h[p] + X
    BY <1>4, <1>7, <1>8, <1>9
  <2>2. \A a, c, d \in Nat : a + (c + d) = c + (a + d)
    OBVIOUS
  <2> HIDE DEF X
  <2> QED
    BY <1>10, <2>1, <2>2 DEF X
<1> QED
  BY <1>2, <1>11

\* A sum does not depend on what its terms are indexed by.
LEMMA SumReindexed ==
  ASSUME NEW S, IsFiniteSet(S), NEW h, \A i \in S : h[i] \in Nat,
         NEW T, IsFiniteSet(T), NEW k, NEW b, \A i \in S : b[i] \in T /\ k[b[i]] = h[i],
         \A i, j \in S : b[i] = b[j] => i = j, \A t \in T : \E i \in S : b[i] = t
  PROVE  SumOver(h, S) = SumOver(k, T)
<1> DEFINE Img(s) == {b[i] : i \in s}
<1> DEFINE Bad == {s \in SUBSET S : SumOver(h, s) # SumOver(k, Img(s))}
<1>1. Img(S) = T
  OBVIOUS
<1> SUFFICES ASSUME Bad # {} PROVE FALSE
  BY <1>1
<1>2. \E s \in Bad : \A u \in Bad : u \subseteq s => u = s
  <2>1. Bad \subseteq SUBSET S
    OBVIOUS
  <2> HIDE DEF Bad
  <2> QED
    BY <2>1, MinimalSubset
<1>2a. PICK s \in Bad : \A u \in Bad : u \subseteq s => u = s
  BY <1>2
<1>3. IsFiniteSet(s) /\ IsFiniteSet(Img(s))
  <2>1. Img(s) \in SUBSET T
    OBVIOUS
  <2> QED
    BY <2>1, FS_Subset
<1>4. CASE s = {}
  <2>1. Img(s) = {}
    BY <1>4
  <2>2. SumOver(h, {}) = 0 /\ SumOver(k, {}) = 0
    BY FS_EmptySet, SumUnfolds
  <2> QED
    BY <1>4, <2>1, <2>2
<1>5. CASE s # {}
  <2>1. PICK x \in s : TRUE
    BY <1>5
  <2>2. Img(s \ {x}) = Img(s) \ {b[x]} /\ b[x] \in Img(s)
    OBVIOUS
  <2>3. \A i \in s : h[i] \in Nat
    OBVIOUS
  <2>4. \A t \in Img(s) : k[t] \in Nat
    OBVIOUS
  <2>5. SumOver(h, s) = h[x] + SumOver(h, s \ {x})
    BY <1>3, <2>3, SumTakesOut
  <2>6. SumOver(k, Img(s)) = k[b[x]] + SumOver(k, Img(s) \ {b[x]})
    BY <1>3, <2>2, <2>4, SumTakesOut
  <2>7. SumOver(h, s \ {x}) = SumOver(k, Img(s \ {x}))
    BY <1>2a
  <2> QED
    BY <2>2, <2>5, <2>6, <2>7
<1> QED
  BY <1>4, <1>5

\* The sum of equal terms.
LEMMA SumOfEqual ==
  ASSUME NEW S, IsFiniteSet(S), NEW h, NEW v \in Nat, \A i \in S : h[i] = v
  PROVE  SumOver(h, S) = Cardinality(S) * v
<1> DEFINE Bad == {s \in SUBSET S : SumOver(h, s) # Cardinality(s) * v}
<1> SUFFICES ASSUME Bad # {} PROVE FALSE
  OBVIOUS
<1>1. \E s \in Bad : \A u \in Bad : u \subseteq s => u = s
  <2>1. Bad \subseteq SUBSET S
    OBVIOUS
  <2> HIDE DEF Bad
  <2> QED
    BY <2>1, MinimalSubset
<1>1a. PICK s \in Bad : \A u \in Bad : u \subseteq s => u = s
  BY <1>1
<1>2. IsFiniteSet(s)
  BY FS_Subset
<1>3. SumOver(h, s) = IF s = {} THEN 0 ELSE h[Pick(s)] + SumOver(h, Rest(s))
  BY <1>2, SumUnfolds
<1>4. CASE s = {}
  <2>1. Cardinality(s) = 0
    BY <1>4, FS_EmptySet
  <2> QED
    BY <1>3, <1>4, <2>1
<1>5. CASE s # {}
  <2>1. Pick(s) \in s
    BY <1>5, PickInSet
  <2>2. Cardinality(Rest(s)) = Cardinality(s) - 1 /\ Cardinality(s) \in Nat
    BY <1>2, <2>1, FS_RemoveElement, FS_CardinalityType DEF Rest
  <2>3. SumOver(h, Rest(s)) = Cardinality(Rest(s)) * v
    BY <1>1a, <1>5, PickInSet
  <2>4. SumOver(h, s) = v + (Cardinality(s) - 1) * v
    BY <1>3, <1>5, <2>1, <2>2, <2>3
  <2>5. \A n \in Nat : v + (n - 1) * v = n * v
    OBVIOUS
  <2> QED
    BY <2>2, <2>4, <2>5
<1> QED
  BY <1>4, <1>5

----------------------------------------------------------------------------
\* IsAnomaly of any sequence of samples and of their thresholds.
AnomalyAt(s, f, i) ==
  /\ i > HISTORY_LEN
  /\ Distance(HISTORY_LEN * s[i], SumOver(s, (i - HISTORY_LEN)..(i - 1))) > HISTORY_LEN * f[i]

LEMMA AnomalyUnfolds ==
  ASSUME NEW i
  PROVE  (IsAnomaly(i) <=> AnomalyAt(samples, inForce, i))
         /\ (IsAnomaly(i)' <=> AnomalyAt(samples', inForce', i))
<1>1. MapThenSumSet(LAMBDA j : samples[j], (i - HISTORY_LEN)..(i - 1))
        = SumOver(samples, (i - HISTORY_LEN)..(i - 1))
  BY DEF SumOver
<1>2. IsAnomaly(i) <=> AnomalyAt(samples, inForce, i)
  BY <1>1 DEF IsAnomaly, AnomalyAt
<1>3. MapThenSumSet(LAMBDA j : samples'[j], (i - HISTORY_LEN)..(i - 1))
        = SumOver(samples', (i - HISTORY_LEN)..(i - 1))
  BY DEF SumOver, MapThenSumSet, MapThenFoldSet
<1>4. IsAnomaly(i)' <=> AnomalyAt(samples', inForce', i)
  <2> DEFINE M == MapThenSumSet(LAMBDA j : samples'[j], (i - HISTORY_LEN)..(i - 1))
  <2>1. IsAnomaly(i)' <=> /\ i > HISTORY_LEN
                          /\ Distance(HISTORY_LEN * samples'[i], M) > HISTORY_LEN * inForce'[i]
    BY DEF IsAnomaly, MapThenSumSet, MapThenFoldSet
  <2> QED BY <1>3, <2>1 DEF AnomalyAt
<1> QED BY <1>2, <1>4

LEMMA TotalIsSum ==
  ASSUME NEW h
  PROVE  Total(h) = SumOver(h, Slots)
BY DEF Total, SumOver

\* A sum over equal terms of two functions is the same.
LEMMA SumOfSame ==
  ASSUME NEW S, IsFiniteSet(S), NEW h, NEW k, \A i \in S : h[i] \in Nat /\ k[i] = h[i]
  PROVE  SumOver(h, S) = SumOver(k, S)
<1> DEFINE b == [i \in S |-> i]
<1>1. \A i \in S : b[i] = i
  OBVIOUS
<1>2. /\ \A i \in S : b[i] \in S /\ k[b[i]] = h[i]
      /\ \A i, j \in S : b[i] = b[j] => i = j
      /\ \A t \in S : \E i \in S : b[i] = t
  BY <1>1
<1> HIDE DEF b
<1> QED BY <1>2, SumReindexed

\* The full ring sums up to the window of the most recent samples.
LEMMA TotalIsWindow ==
  ASSUME TypeOK, RingHoldsWindow, count = HISTORY_LEN
  PROVE  Total(history) = SumOver(samples, (Len(samples) + 1 - HISTORY_LEN)..Len(samples))
<1> DEFINE L == Len(samples)
           W == (L + 1 - HISTORY_LEN)..L
           b == [j \in Slots |-> SlotSample(j)]
<1>1. /\ L \in Nat /\ L >= HISTORY_LEN /\ HISTORY_LEN \in Nat /\ HISTORY_LEN > 0
      /\ idx \in 0..(HISTORY_LEN - 1) /\ history \in [Slots -> Nat] /\ samples # <<>>
      /\ \A j \in Slots : history[j] = samples[SlotSample(j)]
  BY HistoryAssumption DEF TypeOK, RingHoldsWindow, Slots
<1>2. \A j \in Slots : b[j] = L - idx + j + 1 - (IF j < idx THEN 0 ELSE HISTORY_LEN)
  BY HistoryAssumption DEF SlotSample
<1>3. \A j \in Slots : samples[b[j]] = history[j]
  BY <1>1
<1> HIDE DEF b, L
<1>4. \A j \in Slots : IF j < idx THEN b[j] = L - idx + j + 1
                                     ELSE b[j] = L - idx + j + 1 - HISTORY_LEN
  <2> SUFFICES ASSUME NEW j \in Slots
               PROVE  /\ j < idx => b[j] = L - idx + j + 1
                      /\ ~(j < idx) => b[j] = L - idx + j + 1 - HISTORY_LEN
    OBVIOUS
  <2>1. L - idx + j + 1 - 0 = L - idx + j + 1
    <3>1. L \in Nat /\ idx \in Nat /\ j \in Nat
      BY <1>1 DEF Slots
    <3> QED BY <3>1
  <2> QED BY <1>2, <2>1
<1>5. \A j \in Slots : j \in Nat /\ j < HISTORY_LEN
  BY <1>1 DEF Slots
<1>6. \A j \in Slots : b[j] \in W /\ (j < idx <=> b[j] > L - idx)
  <2> SUFFICES ASSUME NEW j \in Slots PROVE b[j] \in W /\ (j < idx <=> b[j] > L - idx)
    OBVIOUS
  <2>1. L \in Nat /\ idx \in Nat /\ idx < HISTORY_LEN /\ HISTORY_LEN \in Nat /\ L >= HISTORY_LEN
    BY <1>1
  <2>2. CASE j < idx
    <3>1. b[j] = L - idx + j + 1
      BY <1>4, <2>2
    <3> QED BY <1>5, <2>1, <2>2, <3>1
  <2>3. CASE ~(j < idx)
    <3>1. b[j] = L - idx + j + 1 - HISTORY_LEN
      BY <1>4, <2>3
    <3> QED BY <1>5, <2>1, <2>3, <3>1
  <2> QED BY <2>2, <2>3
<1>7. \A j, k \in Slots : b[j] = b[k] => j = k
  <2> SUFFICES ASSUME NEW j \in Slots, NEW k \in Slots, b[j] = b[k] PROVE j = k
    OBVIOUS
  <2>1. L \in Nat /\ idx \in Nat /\ HISTORY_LEN \in Nat
    BY <1>1
  <2>2. CASE j < idx
    <3>1. L - idx + j + 1 = L - idx + k + 1
      BY <1>4, <1>6, <2>2
    <3>2. j \in Nat /\ k \in Nat
      BY <1>5
    <3> QED BY <2>1, <3>1, <3>2
  <2>3. CASE ~(j < idx)
    <3>1. L - idx + j + 1 - HISTORY_LEN = L - idx + k + 1 - HISTORY_LEN
      BY <1>4, <1>6, <2>3
    <3>2. j \in Nat /\ k \in Nat
      BY <1>5
    <3> QED BY <2>1, <3>1, <3>2
  <2> QED BY <2>2, <2>3
<1>8. \A t \in W : \E j \in Slots : b[j] = t
  <2> SUFFICES ASSUME NEW t \in W PROVE \E j \in Slots : b[j] = t
    OBVIOUS
  <2>1. CASE t > L - idx
    <3> DEFINE j == t - (L - idx + 1)
    <3>1. j \in Slots /\ j < idx
      BY <1>1, <2>1 DEF Slots
    <3>2. b[j] = L - idx + j + 1 - 0
      BY <1>4, <3>1
    <3>3. b[j] = t
      BY <1>1, <3>2
    <3> QED BY <3>1, <3>3
  <2>2. CASE t <= L - idx
    <3> DEFINE j == t - (L - idx + 1) + HISTORY_LEN
    <3>1. j \in Slots /\ ~(j < idx)
      BY <1>1, <2>2 DEF Slots
    <3>2. b[j] = L - idx + j + 1 - HISTORY_LEN
      BY <1>4, <3>1
    <3>3. b[j] = t
      BY <1>1, <3>2
    <3> QED BY <3>1, <3>3
  <2> QED BY <1>1, <2>1, <2>2
<1>9. IsFiniteSet(Slots) /\ IsFiniteSet(W)
  BY <1>1, FS_Interval DEF Slots
<1>10. \A j \in Slots : history[j] \in Nat
  BY <1>1
<1> HIDE DEF W
<1>11. SumOver(history, Slots) = SumOver(samples, W)
  BY <1>3, <1>6, <1>7, <1>8, <1>9, <1>10, SumReindexed
<1> QED BY <1>11, TotalIsSum DEF W, L

----------------------------------------------------------------------------
\* The samples of a window are natural numbers.
LEMMA WindowInSamples ==
  ASSUME TypeOK, NEW i \in Int, i > HISTORY_LEN, i <= Len(samples) + 1
  PROVE  /\ IsFiniteSet((i - HISTORY_LEN)..(i - 1))
         /\ (i - HISTORY_LEN)..(i - 1) \subseteq 1..Len(samples)
         /\ \A j \in (i - HISTORY_LEN)..(i - 1) : samples[j] \in Nat
<1>1. HISTORY_LEN \in Nat /\ Len(samples) \in Nat /\ samples \in Seq(Magnitudes)
  BY HistoryAssumption DEF TypeOK
<1>2. IsFiniteSet((i - HISTORY_LEN)..(i - 1))
  BY <1>1, FS_Interval
<1>3. (i - HISTORY_LEN)..(i - 1) \subseteq 1..Len(samples)
  BY <1>1
<1>4. \A j \in 1..Len(samples) : samples[j] \in Magnitudes
  BY <1>1
<1>5. \A j \in 1..Len(samples) : samples[j] \in Nat
  BY <1>4, DataAssumption
<1> QED BY <1>2, <1>3, <1>5

\* A sample that arrives changes no window that was complete before.
LEMMA WindowStays ==
  ASSUME TypeOK, NEW m \in Magnitudes, samples' = Append(samples, m),
         NEW i \in Int, i > HISTORY_LEN, i <= Len(samples) + 1
  PROVE  SumOver(samples', (i - HISTORY_LEN)..(i - 1)) = SumOver(samples, (i - HISTORY_LEN)..(i - 1))
<1>1. \A j \in 1..Len(samples) : samples'[j] = samples[j]
  BY DEF TypeOK
<1>2. \A j \in (i - HISTORY_LEN)..(i - 1) : samples[j] \in Nat /\ samples'[j] = samples[j]
  BY <1>1, WindowInSamples
<1> QED BY <1>2, WindowInSamples, SumOfSame

\* It changes no earlier verdict either.
LEMMA VerdictStays ==
  ASSUME TypeOK, NEW m \in Magnitudes, Count(m), NEW i \in 1..Len(samples)
  PROVE  IsAnomaly(i)' <=> IsAnomaly(i)
<1>1. samples'[i] = samples[i] /\ inForce'[i] = inForce[i]
  BY DEF TypeOK, Count
<1>2. CASE i > HISTORY_LEN
  <2>1. SumOver(samples', (i - HISTORY_LEN)..(i - 1)) = SumOver(samples, (i - HISTORY_LEN)..(i - 1))
    BY <1>2, WindowStays DEF Count, TypeOK
  <2> QED BY <1>1, <2>1, AnomalyUnfolds DEF AnomalyAt
<1>3. CASE ~(i > HISTORY_LEN)
  BY <1>3 DEF IsAnomaly
<1> QED BY <1>2, <1>3

LEMMA FillKeepsAlerts ==
  ASSUME TypeOK, RingHoldsWindow, AlertsExact, NEW m \in Magnitudes, Fill(m)
  PROVE  AlertsExact'
<1> PICK L \in Nat : L = Len(samples)
  BY DEF TypeOK
<1>1. /\ L \in Nat /\ L < HISTORY_LEN /\ HISTORY_LEN \in Nat /\ Count(m) /\ alerts' = alerts
      /\ Len(samples') = L + 1
  BY HistoryAssumption DEF Fill, Count, TypeOK, RingHoldsWindow
<1>2. ~ IsAnomaly(L + 1)'
  BY <1>1 DEF IsAnomaly
<1>3. \A i \in 1..L : IsAnomaly(i)' <=> IsAnomaly(i)
  BY <1>1, VerdictStays
<1>4. 1..(L + 1) = (1..L) \cup {L + 1}
  BY <1>1
<1>5. {i \in 1..(L + 1) : IsAnomaly(i)'} = {i \in 1..L : IsAnomaly(i)}
  BY <1>2, <1>3, <1>4
<1> QED BY <1>1, <1>5 DEF AlertsExact

LEMMA DetectKeepsAlerts ==
  ASSUME TypeOK, RingHoldsWindow, AlertsExact, NEW m \in Magnitudes, Detect(m)
  PROVE  AlertsExact'
<1> PICK L \in Nat : L = Len(samples)
  BY DEF TypeOK
<1> DEFINE W == (L + 1 - HISTORY_LEN)..L
<1>1. /\ L \in Nat /\ L >= HISTORY_LEN /\ HISTORY_LEN \in Nat /\ Count(m)
      /\ count = HISTORY_LEN
      /\ alerts' = IF Anomalous(m) THEN alerts \cup {L + 1} ELSE alerts
      /\ Len(samples') = L + 1
      /\ samples' = Append(samples, m)
  BY HistoryAssumption DEF Detect, Count, TypeOK, RingHoldsWindow
<1>2. samples'[L + 1] = m /\ inForce'[L + 1] = threshold
  BY <1>1 DEF Count, TypeOK
<1>3. /\ L + 1 \in Int /\ L + 1 > HISTORY_LEN /\ L + 1 <= Len(samples) + 1
      /\ (L + 1) - 1 = L
  BY <1>1
<1>4. SumOver(samples', W) = SumOver(samples, W)
  BY <1>1, <1>3, WindowStays
<1>5. Total(history) = SumOver(samples, W)
  BY <1>1, TotalIsWindow
<1>6. IsAnomaly(L + 1)' <=> Anomalous(m)
  <2>1. IsAnomaly(L + 1)' <=> AnomalyAt(samples', inForce', L + 1)
    BY AnomalyUnfolds
  <2> DEFINE F == Distance(HISTORY_LEN * m, SumOver(samples, W)) > HISTORY_LEN * threshold
  <2>2. AnomalyAt(samples', inForce', L + 1) <=> F
    <3>1. \A n : n \in ((L + 1) - HISTORY_LEN)..((L + 1) - 1) <=> n \in W
      BY <1>1
    <3>2. ((L + 1) - HISTORY_LEN)..((L + 1) - 1) = W
      BY <3>1
    <3> HIDE DEF W
    <3> QED BY <1>2, <1>3, <1>4, <3>2 DEF AnomalyAt
  <2>3. Anomalous(m) <=> F
    BY <1>5 DEF Anomalous, Deviation
  <2> QED BY <2>1, <2>2, <2>3
<1>7. \A i \in 1..L : IsAnomaly(i)' <=> IsAnomaly(i)
  BY <1>1, VerdictStays
<1>8. 1..(L + 1) = (1..L) \cup {L + 1}
  BY <1>1
<1>9. alerts = {i \in 1..L : IsAnomaly(i)}
  BY DEF AlertsExact
<1>10. alerts' = {i \in 1..(L + 1) : IsAnomaly(i)'}
  BY <1>1, <1>6, <1>7, <1>8, <1>9
<1> QED BY <1>1, <1>10 DEF AlertsExact

LEMMA AlertsStep == TypeOK /\ RingHoldsWindow /\ AlertsExact /\ [Next]_vars => AlertsExact'
<1> SUFFICES ASSUME TypeOK, RingHoldsWindow, AlertsExact, [Next]_vars PROVE AlertsExact'
  OBVIOUS
<1>1. ASSUME UNCHANGED <<samples, inForce, alerts>> PROVE AlertsExact'
  <2>1. \A i : IsAnomaly(i)' <=> IsAnomaly(i)
    BY <1>1, AnomalyUnfolds
  <2> QED BY <1>1, <2>1 DEF AlertsExact
<1>2. ASSUME NEW t \in Thresholds, SetThreshold(t) PROVE AlertsExact'
  BY <1>1, <1>2 DEF SetThreshold
<1>3. CASE UNCHANGED vars
  BY <1>1, <1>3 DEF vars
<1> QED BY <1>2, <1>3, FillKeepsAlerts, DetectKeepsAlerts DEF Next

\* Whatever was set and measured, the alerts are the deviations from the mean of
\* the window before each sample, by the threshold in force when it came: nothing
\* is reported from a cold ring and nothing is missed where the index wraps around.
THEOREM AlertsCorrect == Spec => []AlertsExact
<1>1. Init => RingHoldsWindow /\ AlertsExact
  BY HistoryAssumption DEF Init, RingHoldsWindow, AlertsExact
<1> QED BY <1>1, TypeInit, TypeStep, WindowStep, AlertsStep, PTL DEF Spec

----------------------------------------------------------------------------
\* After a shock at i, the window of a sample j that still holds the shock sums up
\* to the shock and HISTORY_LEN - 1 samples at rest.
LEMMA ShockInWindow ==
  ASSUME TypeOK, NEW v \in Magnitudes, NEW i \in 1..Len(samples), Shock(i, v),
         NEW j \in (i + 1)..Len(samples), j <= i + HISTORY_LEN
  PROVE  SumOver(samples, (j - HISTORY_LEN)..(j - 1)) = samples[i] + (HISTORY_LEN - 1) * v
<1> DEFINE W == (j - HISTORY_LEN)..(j - 1)
<1>1. /\ Len(samples) \in Nat /\ HISTORY_LEN \in Nat /\ HISTORY_LEN > 0 /\ v \in Nat
      /\ i \in Nat /\ j \in Nat /\ i > HISTORY_LEN /\ i < j /\ j <= Len(samples)
  BY HistoryAssumption, DataAssumption DEF TypeOK, Shock
<1>2. i \in W /\ IsFiniteSet(W) /\ \A n \in W : samples[n] \in Nat
  BY <1>1, WindowInSamples
<1>3. SumOver(samples, W) = samples[i] + SumOver(samples, W \ {i})
  BY <1>2, SumTakesOut
<1>4. \A n \in W \ {i} : samples[n] = v
  <2>1. \A n \in W : n \in 1..Len(samples) /\ n \in (i - HISTORY_LEN)..(i + HISTORY_LEN)
    BY <1>1
  <2> QED BY <2>1 DEF Shock
<1>5. Cardinality(W) = HISTORY_LEN
  BY <1>1, FS_Interval
<1>6. IsFiniteSet(W \ {i}) /\ Cardinality(W \ {i}) = HISTORY_LEN - 1
  BY <1>2, <1>5, FS_RemoveElement
<1> HIDE DEF W
<1>7. SumOver(samples, W \ {i}) = (HISTORY_LEN - 1) * v
  BY <1>1, <1>4, <1>6, SumOfEqual
<1> QED BY <1>3, <1>7 DEF W

\* A sample at rest deviates from the mean of such a window, HISTORY_LEN times over,
\* by no more than the shock from rest: it raises no alert.
LEMMA ShockEchoes ==
  ASSUME TypeOK, NEW v \in Magnitudes, NEW i \in 1..Len(samples), Shock(i, v),
         NEW j \in (i + 1)..Len(samples), j <= i + HISTORY_LEN,
         Distance(samples[i], v) <= HISTORY_LEN * inForce[i]
  PROVE  ~ IsAnomaly(j)
<1>1. /\ HISTORY_LEN \in Nat /\ v \in Nat /\ i \in Nat /\ j \in Nat
      /\ i > HISTORY_LEN /\ i < j /\ j <= Len(samples)
  BY HistoryAssumption, DataAssumption DEF TypeOK, Shock
<1>2. samples[j] = v /\ inForce[j] = inForce[i]
  <2>1. j \in 1..Len(samples) /\ j \in (i - HISTORY_LEN)..(i + HISTORY_LEN) /\ j # i
    BY <1>1
  <2>2. j \in i..Len(samples)
    BY <1>1
  <2> QED BY <2>1, <2>2 DEF Shock
<1>3. samples[i] \in Nat /\ inForce[i] \in Nat
  <2>1. samples[i] \in Magnitudes /\ inForce[i] \in Thresholds
    BY DEF TypeOK
  <2> QED BY <2>1, DataAssumption
<1>4. SumOver(samples, (j - HISTORY_LEN)..(j - 1)) = samples[i] + (HISTORY_LEN - 1) * v
  BY ShockInWindow
<1>5. Distance(HISTORY_LEN * v, samples[i] + (HISTORY_LEN - 1) * v) = Distance(samples[i], v)
  <2>1. (HISTORY_LEN - 1) * v = HISTORY_LEN * v - v /\ HISTORY_LEN * v \in Int
    BY <1>1
  <2>2. \A a \in Int, s, w \in Nat : Distance(a, s + (a - w)) = Distance(s, w)
    BY DEF Distance
  <2>3. Distance(HISTORY_LEN * v, samples[i] + (HISTORY_LEN * v - v)) = Distance(samples[i], v)
    BY <1>1, <1>3, <2>1, <2>2, Zenon
  <2> QED BY <2>1, <2>3, Zenon
<1>6. Distance(samples[i], v) \in Nat
  BY <1>1, <1>3 DEF Distance
<1>7. HISTORY_LEN * inForce[i] \in Nat
  <2>1. \A a, c \in Nat : a * c \in Nat
    OBVIOUS
  <2> QED BY <1>1, <1>3, <2>1
<1>8. ~(Distance(samples[i], v) > HISTORY_LEN * inForce[i])
  BY <1>6, <1>7
<1> QED BY <1>2, <1>4, <1>5, <1>8, AnomalyUnfolds DEF AnomalyAt

\* A shock raises one alert, for every HISTORY_LEN: while its sample is in the ring
\* the samples at rest deviate from the mean by |shock - rest| / HISTORY_LEN only.
THEOREM ShockCorrect == Spec => []OneAlertPerShock
<1>1. TypeOK /\ AlertsExact => OneAlertPerShock
  <2> SUFFICES ASSUME TypeOK, AlertsExact, NEW v \in Magnitudes, NEW i \in 1..Len(samples),
                      Shock(i, v), Distance(samples[i], v) <= HISTORY_LEN * inForce[i],
                      NEW j \in (i + 1)..Len(samples), j <= i + HISTORY_LEN
               PROVE  j \notin alerts
    BY DEF OneAlertPerShock
  <2> QED BY ShockEchoes DEF AlertsExact
<1> QED BY <1>1, TypeCorrect, AlertsCorrect, PTL

============================================================================
