------------------------------ MODULE VolumeStats ------------------------------
(***************************************************************************)
(* The arithmetic of audio_volume: filter_frame_f counts samples by level  *)
(* in a histogram and print_stats computes the mean of their squares in an *)
(* unsigned integer, after a shift meant to keep the sum within it.  The   *)
(* code has Bits = 15 and Word = 64; smaller ones keep their relation.     *)
(***************************************************************************)
EXTENDS Integers, FiniteSetsExt

CONSTANTS
  Bits,         \* full scale is 2 ^ Bits
  Word,         \* bits of the unsigned integers
  Levels,       \* sample values, in halves of a step of the histogram
  IntRange,     \* values beyond it do not convert to an int
  FrameLengths, \* samples in a frame
  MaxSamples    \* bound: samples counted

ASSUME BitsAssumption == Bits \in Nat /\ Word \in Nat /\ Word > 4 * Bits + 1
ASSUME LevelsAssumption == Levels \subseteq Int /\ FrameLengths \subseteq Nat
ASSUME IntRangeAssumption == IntRange \in Nat
ASSUME MaxSamplesAssumption == MaxSamples \in 0 .. 2 ^ Word - 1

VARIABLES
  counted,      \* samples in the frames so far
  histogram,    \* samples of each level, from -full scale to full scale
  power,        \* the mean print_stats computed
  ret           \* "none" before it returns, "zero" or "power" after

stats == << counted, histogram, power, ret >>

Magnitude(x) == IF x < 0 THEN -x ELSE x

Full == 2 ^ Bits

Buckets == 0 .. 2 * Full

\* The loops of print_stats leave out the last bucket, that of full scale.
Summed == 0 .. 2 * Full - 1

\* Such a loop: it adds the values of f one after the other.
Total(f) ==
  LET sum[i \in 0 .. 2 * Full] == IF i = 0 THEN 0 ELSE sum[i - 1] + f[i - 1]
  IN  sum[2 * Full]

StatsInit ==
  /\ counted = 0 /\ histogram = [i \in Buckets |-> 0]
  /\ power = 0 /\ ret = "none"

\* The conversion cuts towards zero, and is undefined beyond an int: the
\* result is then either end of its range.  It is clamped to full scale.
His(x) ==
  IF Magnitude(x) > IntRange THEN {-Full, Full}
  ELSE LET his == IF x >= 0 THEN x \div 2 ELSE -((-x) \div 2)
       IN  {Max({Min({his, Full}), -Full})}

\* A frame of one level; a frame of several is counted like several of them.
filter_frame_f ==
  /\ ret = "none"
  /\ \E x \in Levels, n \in FrameLengths : \E his \in His(x) :
       /\ counted + n <= MaxSamples
       /\ counted' = counted + n
       /\ histogram' = [histogram EXCEPT ![his + Full] = @ + n]
  /\ UNCHANGED << power, ret >>

Square(i) == (i - Full) * (i - Full)

nb_samples == Total(histogram)

\* av_log2(nb_samples >> 33): 33 is 64 - 2 * 15 - 1.
Threshold == Word - 2 * Bits - 1

\* Slip: the samples are shifted one bit too late.
shiftLate ==
  LET high == nb_samples \div 2 ^ (Threshold + 1)
  IN  Max({0} \cup {s \in 1 .. Word : 2 ^ s <= high})

shift ==
  LET high == nb_samples \div 2 ^ Threshold
  IN  Max({0} \cup {s \in 1 .. Word : 2 ^ s <= high})

Shifted(i) == histogram[i] \div 2 ^ shift

nb_samples_shift == Total([i \in Summed |-> Shifted(i)])

Power == Total([i \in Summed |-> Square(i) * Shifted(i)])

\* Slip: the mean is taken over the samples before the shift.
print_stats_total ==
  /\ ret = "none" /\ nb_samples > 0
  /\ power' = ((Power + nb_samples \div 2) % 2 ^ Word) \div nb_samples
  /\ ret' = "power"
  /\ UNCHANGED << counted, histogram >>

print_stats ==
  /\ ret = "none"
  /\ IF nb_samples = 0 \/ nb_samples_shift = 0
     THEN power' = power /\ ret' = "zero"
     ELSE LET sum == ((Power % 2 ^ Word) + nb_samples_shift \div 2) % 2 ^ Word
          IN  /\ power' = sum \div nb_samples_shift
              /\ ret' = IF power' > Full * Full THEN "zero" ELSE "power"
  /\ UNCHANGED << counted, histogram >>

StatsNext == filter_frame_f \/ print_stats

StatsSpec == StatsInit /\ [][StatsNext]_stats

-------------------------------------------------------------------------------
(* Properties.                                                               *)

\* Every variable has its type, and no sample is counted outside the histogram.
StatsTypeOK ==
  /\ counted = Total(histogram) + histogram[2 * Full]
  /\ counted \in 0 .. MaxSamples
  /\ histogram \in [Buckets -> Nat]
  /\ power \in 0 .. 2 ^ Word - 1
  /\ ret \in {"none", "zero", "power"}

\* However many samples were counted and however loud they are, the shift
\* keeps the sum of their squares within 64 bits (audio_volume.cc:59-67).
SumFits == Power < 2 ^ Word

\* Comment at audio_volume.cc:59-62: "there is a risk of overflow in the
\* multiplication or the sum: shift all histogram values to avoid that".  The sum
\* that is divided does not overflow, with the term that rounds it (line 70).
RoundingFits == Power + nb_samples_shift \div 2 < 2 ^ Word

\* The squares of the samples, computed without a shift.
Exact == Total([i \in Summed |-> Square(i) * histogram[i]])

\* What the shift may lose: less than one shifted sample of each level.
Lost == 2 * Full * (2 ^ shift - 1)

\* The result is the mean of the squares of all samples below full scale, to
\* the nearest integer, but for the samples the shift lost (audio_volume.cc:54-70),
\* for a histogram whose sum does not overflow when it is rounded.  Others exist:
\* nearly twice the samples of a shift, all at negative full scale.
MeanClose ==
  ret = "power" /\ RoundingFits =>
    2 * Magnitude(power * nb_samples - Exact) <= nb_samples + 2 * Full * Full * Lost
=============================================================================
