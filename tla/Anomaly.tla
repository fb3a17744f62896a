------------------------------ MODULE Anomaly ------------------------------
(***************************************************************************)
(* The anomaly detector of algo/anomaly.cpp: a ring buffer of the last     *)
(* HISTORY_LEN accelerometer magnitudes, and an alert for a sample that    *)
(* deviates from their mean by more than the threshold.                    *)
(*                                                                         *)
(* Magnitudes and thresholds are integers (say, hundredths of g) and the   *)
(* mean is compared multiplied out, so that no rounding enters: the error  *)
(* of the float arithmetic is not modelled.  The handler runs on the       *)
(* consumer thread and loads the threshold, an atomic that the shm_sync    *)
(* thread stores, once: it takes effect as a whole at that load.           *)
(***************************************************************************)
EXTENDS Integers, Sequences, FiniteSetsExt

CONSTANTS
  HISTORY_LEN,  \* 8 in the code
  Magnitudes,   \* what the accelerometer may measure
  Thresholds,   \* what the settings page may choose
  MaxSamples    \* bound: samples handled

ASSUME HistoryAssumption == HISTORY_LEN \in Nat \ {0}

ASSUME DataAssumption == Magnitudes \subseteq Nat /\ Thresholds \subseteq Nat

ASSUME MaxSamplesAssumption == MaxSamples \in Nat

Slots == 0..(HISTORY_LEN - 1)

VARIABLES
  history,      \* the ring buffer
  idx,          \* history_idx, the slot written next
  count,        \* history_count, samples seen up to HISTORY_LEN
  threshold,    \* s_threshold
  samples,      \* every sample handled, oldest first
  inForce,      \* the threshold each of them was compared with
  alerts        \* the numbers of the samples that raised an alert

vars == <<history, idx, count, threshold, samples, inForce, alerts>>

\* Index and count stay within the ring, and each sample has its threshold.
TypeOK ==
  /\ history \in [Slots -> Nat]
  /\ idx \in Slots
  /\ count \in 0..HISTORY_LEN
  /\ threshold \in Thresholds
  /\ samples \in Seq(Magnitudes)
  /\ inForce \in Seq(Thresholds)
  /\ Len(inForce) = Len(samples)
  /\ alerts \subseteq 1..Len(samples)

Init ==
  /\ history = [i \in Slots |-> 0]
  /\ idx = 0
  /\ count = 0
  /\ threshold \in Thresholds
  /\ samples = <<>>
  /\ inForce = <<>>
  /\ alerts = {}

----------------------------------------------------------------------------
Distance(a, b) == IF a > b THEN a - b ELSE b - a

\* HISTORY_LEN times moving_average().
Total(h) == MapThenSumSet(LAMBDA i : h[i], Slots)

\* HISTORY_LEN times the deviation of m from the mean of h.
Deviation(h, m) == Distance(HISTORY_LEN * m, Total(h))

\* Fault-seeded variant: the index does not wrap around.
NextIdxUnwrapped == idx + 1

\* Fault-seeded variant: the index runs one slot short of the end.
NextIdxShort == IF idx + 1 >= HISTORY_LEN - 1 THEN 0 ELSE idx + 1

NextIdx == (idx + 1) % HISTORY_LEN

\* Fault-seeded variant: the first sample fills its own slot only.
WarmUpSparse(m) == [history EXCEPT ![idx] = m]

\* The first sample fills the whole ring, the next ones overwrite it.
WarmUp(m) ==
  IF count = 0 THEN [i \in Slots |-> m] ELSE [history EXCEPT ![idx] = m]

Count(m) ==
  /\ samples' = Append(samples, m)
  /\ inForce' = Append(inForce, threshold)
  /\ idx' = NextIdx

\* algo_anomaly_on_adxl345 while the ring is filling: no alert.
Fill(m) ==
  /\ count < HISTORY_LEN
  /\ Len(samples) < MaxSamples
  /\ history' = WarmUp(m)
  /\ count' = count + 1
  /\ Count(m)
  /\ UNCHANGED <<threshold, alerts>>

\* Fault-seeded variant: the sample enters the mean it is compared with.
AnomalousAfterWrite(m) ==
  Deviation([history EXCEPT ![idx] = m], m) > HISTORY_LEN * threshold

\* The deviation is taken from the ring as it was before this sample.
Anomalous(m) == Deviation(history, m) > HISTORY_LEN * threshold

\* algo_anomaly_on_adxl345 with a full ring.
Detect(m) ==
  /\ count = HISTORY_LEN
  /\ Len(samples) < MaxSamples
  /\ history' = [history EXCEPT ![idx] = m]
  /\ alerts' = IF Anomalous(m) THEN alerts \cup {Len(samples) + 1} ELSE alerts
  /\ Count(m)
  /\ UNCHANGED <<count, threshold>>

\* algo_anomaly_set_threshold, called by shm_sync_thread.
SetThreshold(t) ==
  /\ t # threshold
  /\ threshold' = t
  /\ UNCHANGED <<history, idx, count, samples, inForce, alerts>>

Next ==
  \/ \E m \in Magnitudes : Fill(m)
  \/ \E m \in Magnitudes : Detect(m)
  \/ \E t \in Thresholds : SetThreshold(t)

Spec == Init /\ [][Next]_vars

----------------------------------------------------------------------------
\* The sample slot j stands for: while the ring fills, the slots not written yet
\* repeat the first sample; once it is full, the slots from idx on hold the
\* older part of the window and those before idx the newer part.
SlotSample(j) ==
  IF count < HISTORY_LEN
  THEN IF j < idx THEN j + 1 ELSE 1
  ELSE Len(samples) - idx + j + 1 - (IF j < idx THEN 0 ELSE HISTORY_LEN)

\* The ring holds the last HISTORY_LEN samples and nothing else, at every
\* position of the wrap-around, and a filling ring no zeros: the mean is that
\* of the most recent window, on which every alert decision rests.
RingHoldsWindow ==
  /\ count < HISTORY_LEN => idx = count /\ Len(samples) = count
  /\ count = HISTORY_LEN => Len(samples) >= HISTORY_LEN
  /\ samples # <<>> => \A j \in Slots : history[j] = samples[SlotSample(j)]

\* What the detector is meant to find in a stream of samples, without a ring:
\* sample i counts when a full window precedes it whose mean it misses by more
\* than the threshold of the moment.
IsAnomaly(i) ==
  /\ i > HISTORY_LEN
  /\ Distance(HISTORY_LEN * samples[i],
              MapThenSumSet(LAMBDA j : samples[j], (i - HISTORY_LEN)..(i - 1)))
       > HISTORY_LEN * inForce[i]

\* The alerts are exactly those: none from a cold ring, none missed at a
\* wrap-around, none judged by a threshold set later.
AlertsExact == alerts = {i \in 1..Len(samples) : IsAnomaly(i)}

\* A shock at sample i: the window before it is at rest at v, and so is what has
\* followed it, as far as the ring still remembers the shock.
Shock(i, v) ==
  /\ i \in (HISTORY_LEN + 1)..Len(samples)
  /\ samples[i] # v
  /\ \A j \in 1..Len(samples) :
       j \in (i - HISTORY_LEN)..(i + HISTORY_LEN) /\ j # i => samples[j] = v
  /\ \A j \in i..Len(samples) : inForce[j] = inForce[i]

\* One shock raises one alert: while its sample lingers in the ring it shifts the
\* mean, but resting samples are not reported unless the shock exceeded
\* HISTORY_LEN times the threshold.
OneAlertPerShock ==
  \A v \in Magnitudes, i \in 1..Len(samples) :
    Shock(i, v) /\ Distance(samples[i], v) <= HISTORY_LEN * inForce[i] =>
      \A j \in (i + 1)..Len(samples) : j <= i + HISTORY_LEN => j \notin alerts

============================================================================
