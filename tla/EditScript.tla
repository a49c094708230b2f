------------------------------ MODULE EditScript ------------------------------
(***************************************************************************)
(* What edit_pass computes, without its table: the operations are a valid  *)
(* and a shortest way to turn word2 into word1.  An edit keeps some places *)
(* of the two words together, in the order they have in both; the other    *)
(* elements of word1 are inserted and those of word2 removed, and elements *)
(* kept together that differ are replaced.                                 *)
(***************************************************************************)
EXTENDS EditPass, FiniteSetsExt, SequencesExt

\* The sets of pairs of places in the first a and b elements that cross nowhere.
Alignments(a, b) ==
  { A \in SUBSET ((0 .. a - 1) \X (0 .. b - 1)) :
      \A p, q \in A : p[1] < q[1] <=> p[2] < q[2] }

Mismatches(A) == { p \in A : word1[p[1] + 1] # word2[p[2] + 1] }

Unpaired1(a, A) == { x \in 0 .. a - 1 : \A p \in A : p[1] # x }
Unpaired2(b, A) == { x \in 0 .. b - 1 : \A p \in A : p[2] # x }

\* The operations an alignment of the first a and b elements takes.
Cost(a, b, A) ==
  (a - Cardinality(A)) + (b - Cardinality(A)) + Cardinality(Mismatches(A))

Distance == Min({ Cost(size1, size2, A) : A \in Alignments(size1, size2) })

Inserted(ops) == { op[2] : op \in { o \in ToSet(ops) : o[1] = -2 } }
Removed(ops) == { op[2] : op \in { o \in ToSet(ops) : o[1] = -1 } }
Replaced(ops) == { << op[1], op[2] >> : op \in { o \in ToSet(ops) : o[1] >= 0 } }

\* The operations are those of an alignment.
Edits(ops, a, b, A) ==
  /\ Inserted(ops) = Unpaired1(a, A)
  /\ Removed(ops) = Unpaired2(b, A)
  /\ Replaced(ops) = Mismatches(A)

\* The operations returned turn word2 into word1 (lines 40-49, and lines 82-93
\* for what they mean).
ScriptIsEdit ==
  at = "done" =>
    \E A \in Alignments(size1, size2) : Edits(Script, size1, size2, A)

\* No shorter list of operations does.
ScriptIsShortest == at = "done" => Len(Script) = Distance

\* Comment at edit_pass.cc:21: the operation pushed for the first row is an
\* insertion, the operation the driver prints as "insert" (lines 86-87).
FirstRowInserts ==
  at # "row" => \A k \in 1 .. size2 : pass[0][k][k][1] = -2
=============================================================================
