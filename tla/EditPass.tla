------------------------------- MODULE EditPass -------------------------------
(***************************************************************************)
(* the_edit_pass: the edit distance of two words by dynamic programming,   *)
(* with the operations that turn word2 into word1.  Every cell of the      *)
(* table is filled in one step, in the order of the loops; the operations  *)
(* of the last cell are then copied to the caller's array.                 *)
(*                                                                         *)
(* An operation is the tuple the code pushes: << -1, j, pos >> removes     *)
(* word2[j], << -2, i, pos >> inserts word1[i], and << i, j, pos >>        *)
(* replaces word2[j] by word1[i].  Indexes count from 0 as in the code.    *)
(***************************************************************************)
EXTENDS Integers, Sequences

CONSTANT Words          \* the words: sequences of integers

ASSUME WordsAssumption == Words \subseteq Seq(Int)

VARIABLES word1, word2,   \* the ground truth and the prediction
          at, i, j,       \* the loop run is in, and its indexes
          dis_map, pass,  \* the table: distances and operations
          edit_pass_result \* the operations, copied for the caller

evars == << word1, word2, at, i, j, dis_map, pass, edit_pass_result >>

size1 == Len(word1)
size2 == Len(word2)

Table(S) == [0 .. size1 -> [0 .. size2 -> S]]

EditInit ==
  /\ word1 \in Words /\ word2 \in Words
  /\ at = "row" /\ i = 1 /\ j = 1
  /\ dis_map = [a \in 0 .. size1 |-> [b \in 0 .. size2 |-> 0]]
  /\ pass = [a \in 0 .. size1 |-> [b \in 0 .. size2 |-> << >>]]
  /\ edit_pass_result = << >>

Fill(a, b, dis, ops) ==
  /\ dis_map' = [dis_map EXCEPT ![a][b] = dis]
  /\ pass' = [pass EXCEPT ![a][b] = ops]
  /\ UNCHANGED << word1, word2, edit_pass_result >>

FillRow ==
  /\ at = "row" /\ i <= size2
  /\ Fill(0, i, i, Append(pass[0][i - 1], << -1, i - 1, 0 >>))
  /\ i' = i + 1
  /\ UNCHANGED << at, j >>

RowDone ==
  /\ at = "row" /\ i > size2
  /\ at' = "column" /\ j' = 1
  /\ UNCHANGED << word1, word2, i, dis_map, pass, edit_pass_result >>

FillColumn ==
  /\ at = "column" /\ j <= size1
  /\ Fill(j, 0, j, Append(pass[j - 1][0], << -2, j - 1, j - 1 >>))
  /\ j' = j + 1
  /\ UNCHANGED << at, i >>

ColumnDone ==
  /\ at = "column" /\ j > size1
  /\ at' = "cells" /\ i' = 1 /\ j' = 1
  /\ UNCHANGED << word1, word2, dis_map, pass, edit_pass_result >>

Same == word1[i] = word2[j]     \* word1[i - 1] == word2[j - 1] in the code

Dis1 == dis_map[i - 1][j] + 1
Dis2 == dis_map[i][j - 1] + 1
Dis3 == IF Same THEN dis_map[i - 1][j - 1] ELSE dis_map[i - 1][j - 1] + 1

Least(a, b) == IF b < a THEN b ELSE a

\* Slip: a replacement is taken for a match and not recorded.
FillCellQuietReplace ==
  /\ at = "cells" /\ i <= size1 /\ j <= size2
  /\ LET dis == Least(Dis1, Least(Dis2, Dis3))
     IN  \/ /\ Dis1 = dis
            /\ Fill(i, j, dis, Append(pass[i - 1][j], << -2, i - 1, j - 1 >>))
         \/ /\ Dis1 # dis /\ Dis2 = dis
            /\ Fill(i, j, dis, Append(pass[i][j - 1], << -1, j - 1, j - 1 >>))
         \/ /\ Dis1 # dis /\ Dis2 # dis
            /\ Fill(i, j, dis, pass[i - 1][j - 1])
  /\ j' = j + 1
  /\ UNCHANGED << at, i >>

\* Slip: the diagonal is considered only for equal elements.
FillCellNoReplace ==
  /\ at = "cells" /\ i <= size1 /\ j <= size2
  /\ \/ /\ Same
        /\ Fill(i, j, dis_map[i - 1][j - 1], pass[i - 1][j - 1])
     \/ /\ ~Same /\ Dis1 <= Dis2
        /\ Fill(i, j, Dis1, Append(pass[i - 1][j], << -2, i - 1, j - 1 >>))
     \/ /\ ~Same /\ Dis1 > Dis2
        /\ Fill(i, j, Dis2, Append(pass[i][j - 1], << -1, j - 1, j - 1 >>))
  /\ j' = j + 1
  /\ UNCHANGED << at, i >>

\* Slip: the operations of the wrong neighbour are extended.
FillCellWrongNeighbour ==
  /\ at = "cells" /\ i <= size1 /\ j <= size2
  /\ LET dis == Least(Dis1, Least(Dis2, Dis3))
     IN  \/ /\ Dis1 = dis
            /\ Fill(i, j, dis, Append(pass[i][j - 1], << -2, i - 1, j - 1 >>))
         \/ /\ Dis1 # dis /\ Dis2 = dis
            /\ Fill(i, j, dis, Append(pass[i - 1][j], << -1, j - 1, j - 1 >>))
         \/ /\ Dis1 # dis /\ Dis2 # dis
            /\ Fill(i, j, dis,
                    IF Same THEN pass[i - 1][j - 1]
                    ELSE Append(pass[i - 1][j - 1], << i - 1, j - 1, j - 1 >>))
  /\ j' = j + 1
  /\ UNCHANGED << at, i >>

FillCell ==
  /\ at = "cells" /\ i <= size1 /\ j <= size2
  /\ LET dis == Least(Dis1, Least(Dis2, Dis3))
     IN  \/ /\ Dis1 = dis
            /\ Fill(i, j, dis, Append(pass[i - 1][j], << -2, i - 1, j - 1 >>))
         \/ /\ Dis1 # dis /\ Dis2 = dis
            /\ Fill(i, j, dis, Append(pass[i][j - 1], << -1, j - 1, j - 1 >>))
         \/ /\ Dis1 # dis /\ Dis2 # dis
            /\ Fill(i, j, dis,
                    IF Same THEN pass[i - 1][j - 1]
                    ELSE Append(pass[i - 1][j - 1], << i - 1, j - 1, j - 1 >>))
  /\ j' = j + 1
  /\ UNCHANGED << at, i >>

CellsRowDone ==
  /\ at = "cells" /\ i <= size1 /\ j > size2
  /\ i' = i + 1 /\ j' = 1
  /\ UNCHANGED << word1, word2, at, dis_map, pass, edit_pass_result >>

CellsDone ==
  /\ at = "cells" /\ i > size1
  /\ at' = "copy" /\ i' = 1
  /\ UNCHANGED << word1, word2, j, dis_map, pass, edit_pass_result >>

Script == pass[size1][size2]

CopyTuple ==
  /\ at = "copy" /\ i <= Len(Script)
  /\ edit_pass_result' = edit_pass_result \o Script[i]
  /\ i' = i + 1
  /\ UNCHANGED << word1, word2, at, j, dis_map, pass >>

Return ==
  /\ at = "copy" /\ i > Len(Script)
  /\ at' = "done"
  /\ UNCHANGED << word1, word2, i, j, dis_map, pass, edit_pass_result >>

EditNext ==
  \/ FillRow \/ RowDone \/ FillColumn \/ ColumnDone
  \/ FillCell \/ CellsRowDone \/ CellsDone \/ CopyTuple \/ Return

EditSpec == EditInit /\ [][EditNext]_evars

-------------------------------------------------------------------------------

Operation == { op \in Seq(Int) : Len(op) = 3 }

\* Every variable has its type.
EditTypeOK ==
  /\ word1 \in Seq(Int) /\ word2 \in Seq(Int)
  /\ at \in {"row", "column", "cells", "copy", "done"}
  /\ i \in Nat \ {0} /\ j \in Nat \ {0}
  /\ dis_map \in Table(Nat)
  /\ pass \in Table(Seq(Operation))
  /\ edit_pass_result \in Seq(Int)

\* The result fits the array of the caller (lines 62-67): three integers for each
\* operation, and never more operations than the longer word has elements.
ResultFits ==
  at = "done" =>
    /\ Len(edit_pass_result) = 3 * dis_map[size1][size2]
    /\ \/ Len(edit_pass_result) <= 3 * size1
       \/ Len(edit_pass_result) <= 3 * size2
=============================================================================
