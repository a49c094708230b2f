----------------------------- MODULE MCAlgorithms -----------------------------
(* One call of one of the three algorithms, the others at rest.               *)
(*   bleu: words of two bits; one hypothesis and one reference of up to four  *)
(*     words, up to two references, two sentences, lists that do not match.   *)
(*   stats: full scale 2, and numbers of samples on both sides of each shift: *)
(*     up to 133 samples where the first shift is made at 64.                 *)
(*   edit: every pair of words of at most three elements out of two.          *)
EXTENDS Bleu, VolumeStats, EditScript

VARIABLE algorithm

Sentences(words, len) == UNION {[1 .. l -> words] : l \in 0 .. len}

Lists(S) == {<< >>} \cup {<< s >> : s \in S} \cup {<< s, t >> : s, t \in S}

Corpus(rs, hs) == [references |-> rs, hypotheses |-> hs]

MCCorpora ==
  LET four == Sentences({-2, -1, 1}, 4)
      two == Sentences({-1, 0}, 2)
      one == Sentences({-1, 0}, 1)
  IN  {Corpus(<< << r >> >>, << h >>) : r, h \in four}
      \cup {Corpus(<< rs >>, << h >>) : rs \in Lists(two), h \in two}
      \cup {Corpus(rs, hs) : rs \in Lists({<< r >> : r \in one}), hs \in Lists(one)}

MCLevels == {-9, -4, -2, -1, 0, 3, 4, 6}
MCLengths == {19, 31, 64}

MCWords == Sentences({1, 2}, 3)

BleuAtRest == list_of_references = << >> /\ hypotheses = << >>
EditAtRest == word1 = << >> /\ word2 = << >>

MCInit ==
  /\ algorithm \in {"bleu", "stats", "edit"}
  /\ Init /\ (algorithm # "bleu" => BleuAtRest)
  /\ StatsInit
  /\ EditInit /\ (algorithm # "edit" => EditAtRest)

MCNext ==
  /\ UNCHANGED algorithm
  /\ \/ algorithm = "bleu" /\ Next /\ UNCHANGED << stats, evars >>
     \/ algorithm = "stats" /\ StatsNext /\ UNCHANGED << vars, evars >>
     \/ algorithm = "edit" /\ EditNext /\ UNCHANGED << vars, stats >>

MCSpec == MCInit /\ [][MCNext]_<< algorithm, vars, stats, evars >>
=============================================================================
