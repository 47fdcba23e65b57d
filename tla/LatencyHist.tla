---------------------------- MODULE LatencyHist -----------------------------
(***************************************************************************)
(* The bounded sample store of blast (internal/blast/hist.go) and the      *)
(* percentile the summary computes from it (internal/blast/blast.go), as   *)
(* operators on a latencyHist value.                                       *)
(***************************************************************************)
EXTENDS Integers, Sequences, FiniteSets

CONSTANT MaxSamples   \* argument of newLatencyHist (200000 in the code)

ASSUME HistAssumption == MaxSamples \in Int

\* cap(h.samples), which newLatencyHist fixes.
Cap == IF MaxSamples < 1 THEN 1 ELSE MaxSamples

\* Index 1 of samples stands for the code's index 0.
NewLatencyHist == [samples |-> <<>>, seen |-> 0]

\* The index that a full store overwrites when its k-th sample arrives.
SlotLast(k) == Cap
Slot(k) == (k % Cap) + 1

Added(h, d) ==
  [seen    |-> h.seen + 1,
   samples |-> IF Len(h.samples) < Cap THEN Append(h.samples, d)
               ELSE [h.samples EXCEPT ![Slot(h.seen + 1)] = d]]

\* sort.Slice on a copy: the samples rearranged in order.  p[i] is the place that
\* the i-th of them comes from.
IsOrder(p, s) == \A i, j \in DOMAIN s : i < j => p[i] # p[j] /\ s[p[i]] <= s[p[j]]
Sorted(s) ==
  LET p == CHOOSE p \in [DOMAIN s -> DOMAIN s] : IsOrder(p, s)
  IN  [i \in DOMAIN s |-> s[p[i]]]

\* percentile(sorted, p), with p in tenths of a percent: the code's float
\* p / 100 * len is p * len / 1000, truncated by int(); with the printed p the two
\* agree for every length up to the code's 200000.
PercentileOneEarly(sorted, p) ==
  LET idx == (p * Len(sorted)) \div 1000 IN sorted[IF idx = 0 THEN 1 ELSE idx]
Percentile(sorted, p) ==
  LET idx  == (p * Len(sorted)) \div 1000
      last == Len(sorted) - 1
  IN  sorted[(IF idx > last THEN last ELSE idx) + 1]

\* The percentiles writeLatencySummary prints.
Printed == {500, 900, 990, 999}
=============================================================================
