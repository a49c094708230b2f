--------------------------------- MODULE Bleu ---------------------------------
(***************************************************************************)
(* bleu (bleu.cc): the clipped n-gram precisions and the lengths summed    *)
(* over a list of hypotheses, each with its references.  An n-gram is      *)
(* packed into one integer, word by word, so the precisions are right only *)
(* if different n-grams have different integers.  Words have Width bits    *)
(* here (16 in the code) and integers MaxN times as many; the exponential  *)
(* and the logarithms of the score are left out.                           *)
(***************************************************************************)
EXTENDS Integers, Sequences, FiniteSets, FiniteSetsExt

CONSTANTS
  Width,        \* bits of a word
  MaxN,         \* weights.size(): the longest n-grams counted, 4
  Corpora       \* inputs: records of references and hypotheses

ASSUME WidthAssumption == Width \in Nat \ {0}
ASSUME MaxNAssumption == MaxN \in 1 .. 4

WordValue == -(2 ^ (Width - 1)) .. 2 ^ (Width - 1) - 1

Sentence == Seq(WordValue)

ASSUME CorporaAssumption ==
  \A c \in Corpora : /\ c.references \in Seq(Seq(Sentence))
                     /\ c.hypotheses \in Seq(Sentence)

VARIABLES
  list_of_references, hypotheses,   \* the arguments
  idx, n,                           \* the sentence and the length of n-grams
  p_numerators, p_denominators,     \* for each length
  hyp_lengths, ref_lengths,
  result                            \* what bleu returned: none yet, or how

input == << list_of_references, hypotheses >>
sums == << p_numerators, p_denominators, hyp_lengths, ref_lengths >>
vars == << input, idx, n, sums, result >>

-------------------------------------------------------------------------------
(* Counting n-grams.                                                         *)

\* Slip: the sum is not masked, and carries the words before the n-gram.
ngramsUnmasked(s, k) ==
  LET v[i \in 0 .. Len(s)] ==
        IF i = 0 THEN 0 ELSE (v[i - 1] * 2 ^ Width + s[i]) % 2 ^ (Width * 4)
  IN  [i \in 1 .. Len(s) - k + 1 |-> v[i + k - 1]]

\* make_mask keeps the last k words; a shift drops what is beyond 64 bits.
ngrams(s, k) ==
  LET mask(i) == IF i < k THEN 2 ^ (Width * 4) ELSE 2 ^ (Width * k)
      v[i \in 0 .. Len(s)] ==
        IF i = 0 THEN 0 ELSE (v[i - 1] * 2 ^ Width + s[i]) % mask(i)
  IN  IF Len(s) < k THEN << >>
      ELSE [i \in 1 .. Len(s) - k + 1 |-> v[i + k - 1]]

Items(h) == {h[i] : i \in DOMAIN h}

counter(h) == [g \in Items(h) |-> Cardinality({i \in DOMAIN h : h[i] = g})]

get(count, key) == IF key \in DOMAIN count THEN count[key] ELSE 0

\* The values of f added up: as many pairs as each value has numbers.
SumOf(f) == Cardinality(UNION { {x} \X (1 .. f[x]) : x \in DOMAIN f })

\* Slip: a word counts whenever a reference has it, however often.
modified_precisionUnclipped(references, hypothesis, k) ==
  LET counts == counter(ngrams(hypothesis, k))
      known(g) == \E r \in DOMAIN references : g \in Items(ngrams(references[r], k))
  IN  [numerator |-> SumOf([g \in DOMAIN counts |-> IF known(g) THEN counts[g] ELSE 0]),
       denominator |-> Max({1, Len(ngrams(hypothesis, k))})]

max_counts(references, k, g) ==
  Max({0} \cup {get(counter(ngrams(references[r], k)), g) : r \in DOMAIN references})

modified_precision(references, hypothesis, k) ==
  LET counts == counter(ngrams(hypothesis, k))
  IN  [numerator |-> SumOf([g \in DOMAIN counts |->
                              Min({counts[g], max_counts(references, k, g)})]),
       denominator |-> Max({1, SumOf(counts)})]

Abs(x) == IF x < 0 THEN -x ELSE x

\* The first of the references nearest in length; 0 if there is none.
closest_ref_length(references, hyp_len) ==
  LET distance(r) == Abs(Len(references[r]) - hyp_len)
      nearest == {r \in DOMAIN references :
                    \A q \in DOMAIN references : distance(r) <= distance(q)}
  IN  IF nearest = {} THEN 0 ELSE Len(references[Min(nearest)])

-------------------------------------------------------------------------------
(* bleu                                                                      *)

Init ==
  /\ \E c \in Corpora : /\ list_of_references = c.references
                        /\ hypotheses = c.hypotheses
  /\ idx = 1 /\ n = 1
  /\ p_numerators = [k \in 1 .. MaxN |-> 0]
  /\ p_denominators = [k \in 1 .. MaxN |-> 0]
  /\ hyp_lengths = 0 /\ ref_lengths = 0
  /\ result = "none"

Mismatch ==
  /\ result = "none" /\ Len(list_of_references) # Len(hypotheses)
  /\ result' = "mismatch"
  /\ UNCHANGED << input, idx, n, sums >>

Running ==
  result = "none" /\ Len(list_of_references) = Len(hypotheses)

Precision ==
  /\ Running /\ idx <= Len(hypotheses) /\ n <= MaxN
  /\ LET p_i == modified_precision(list_of_references[idx], hypotheses[idx], n)
     IN  /\ p_numerators' = [p_numerators EXCEPT ![n] = @ + p_i.numerator]
         /\ p_denominators' = [p_denominators EXCEPT ![n] = @ + p_i.denominator]
  /\ n' = n + 1
  /\ UNCHANGED << input, idx, hyp_lengths, ref_lengths, result >>

Lengths ==
  /\ Running /\ idx <= Len(hypotheses) /\ n > MaxN
  /\ LET hyp_len == Len(hypotheses[idx])
     IN  /\ hyp_lengths' = hyp_lengths + hyp_len
         /\ ref_lengths' = ref_lengths
                             + closest_ref_length(list_of_references[idx], hyp_len)
  /\ idx' = idx + 1 /\ n' = 1
  /\ UNCHANGED << input, p_numerators, p_denominators, result >>

\* Slip: the test for no word in common is left out.
ScoreAlways ==
  /\ Running /\ idx > Len(hypotheses)
  /\ result' = "score"
  /\ UNCHANGED << input, idx, n, sums >>

\* Without a word in common the result is 0; else the score is computed.
Score ==
  /\ Running /\ idx > Len(hypotheses)
  /\ result' = IF p_numerators[1] = 0 THEN "zero" ELSE "score"
  /\ UNCHANGED << input, idx, n, sums >>

Next == Mismatch \/ Precision \/ Lengths \/ Score

Spec == Init /\ [][Next]_vars

-------------------------------------------------------------------------------
(* Properties.                                                               *)

\* Every variable has its type.
TypeOK ==
  /\ list_of_references \in Seq(Seq(Sentence))
  /\ hypotheses \in Seq(Sentence)
  /\ idx \in 1 .. Len(hypotheses) + 1
  /\ n \in 1 .. MaxN + 1
  /\ p_numerators \in [1 .. MaxN -> Nat]
  /\ p_denominators \in [1 .. MaxN -> Nat]
  /\ hyp_lengths \in Nat /\ ref_lengths \in Nat
  /\ result \in {"none", "mismatch", "zero", "score"}

\* The windows of k words of a sentence, in order.
Windows(s, k) == [i \in 1 .. Len(s) - k + 1 |-> SubSeq(s, i, i + k - 1)]

\* Shifting, adding and masking gives two n-grams the same integer only if
\* they are the same words, although a negative word borrows from the word
\* before it, and wherever in a sentence they stand (bleu.cc:55-74).
NgramsDistinct ==
  \A i \in DOMAIN hypotheses \cap DOMAIN list_of_references :
    \A r \in DOMAIN list_of_references[i], k \in 1 .. MaxN :
      LET h == hypotheses[i]
          s == list_of_references[i][r]
      IN  /\ \A t \in {h, s} : Len(ngrams(t, k)) = Len(Windows(t, k))
          /\ \A a \in DOMAIN Windows(h, k), b \in DOMAIN Windows(s, k) :
               (ngrams(h, k)[a] = ngrams(s, k)[b])
                 <=> (Windows(h, k)[a] = Windows(s, k)[b])

\* How often a window stands in a sentence, and in the reference to sentence i
\* that has it most often.
Times(s, k, w) == Cardinality({j \in DOMAIN Windows(s, k) : Windows(s, k)[j] = w})

Best(i, k, w) ==
  Max({0} \cup {Times(list_of_references[i][r], k, w) : r \in DOMAIN list_of_references[i]})

\* The words of sentence i of the hypotheses that a reference has as well, no
\* window of theirs matched more often than it stands in one reference.
Matched(i, k) ==
  LET h == Windows(hypotheses[i], k)
  IN  Cardinality({j \in DOMAIN h :
        Cardinality({m \in 1 .. j : h[m] = h[j]}) <= Best(i, k, h[j])})

\* The sentences done with windows of k words, and how many each counts for.
Done(k) == {i \in DOMAIN hypotheses : i < idx \/ (i = idx /\ k < n)}

WindowCount(i, k) == Max({1, Len(hypotheses[i]) - k + 1})

\* The numerators are the matches and the denominators the windows of the
\* sentences done so far, one for a sentence too short to have any, so a
\* precision is never above one (bleu.cc:102-130, 146-160).
PrecisionsClipped ==
  Len(list_of_references) = Len(hypotheses) =>
    \A k \in 1 .. MaxN :
      /\ p_numerators[k] = SumOf([i \in Done(k) |-> Matched(i, k)])
      /\ p_denominators[k] = SumOf([i \in Done(k) |-> WindowCount(i, k)])
      /\ p_numerators[k] <= p_denominators[k]

\* Where the score is computed nothing is divided by zero: not a precision by
\* its denominator, also for no sentences at all, nor the length of the
\* references by that of the hypotheses (bleu.cc:76-86, 170-185).
ScoreDefined ==
  result = "score" =>
    /\ \A k \in 1 .. MaxN : p_denominators[k] > 0
    /\ hyp_lengths > 0
=============================================================================
