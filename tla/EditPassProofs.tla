---------------------------- MODULE EditPassProofs ----------------------------
(***************************************************************************)
(* Theorems about EditPass and EditScript for words of every length.       *)
(***************************************************************************)
EXTENDS EditScript, FiniteSetTheorems, SequenceTheorems, TLAPS

Longest(a, b) == IF a < b THEN b ELSE a

\* The cells the loops have been through.
Filled(a, b) ==
  \/ at = "row" /\ a = 0 /\ b < i
  \/ at = "column" /\ (a = 0 \/ (b = 0 /\ a < j))
  \/ at = "cells" /\ (a = 0 \/ b = 0 \/ a < i \/ (a = i /\ b < j))
  \/ at \in {"copy", "done"}

\* The cells of the first row and column are filled with their index.
Bounded(a, b, dis) ==
  dis <= Longest(a, b) /\ (a = 0 => dis = b) /\ (b = 0 => dis = a)

\* A cell has as many operations as its distance, and once filled no more than
\* the longer of its two prefixes has elements.
TableInv ==
  \A a \in 0 .. size1, b \in 0 .. size2 :
    /\ Len(pass[a][b]) = dis_map[a][b]
    /\ Filled(a, b) => Bounded(a, b, dis_map[a][b])

CopyInv ==
  /\ at \in {"row", "column", "cells"} => edit_pass_result = << >>
  /\ at = "copy" => i <= Len(Script) + 1 /\ Len(edit_pass_result) = 3 * (i - 1)
  /\ at = "done" => Len(edit_pass_result) = 3 * Len(Script)

Inv == EditTypeOK /\ TableInv /\ CopyInv

\* The empty table and the first loop.
LEMMA InitInv == EditInit => Inv
<1> SUFFICES ASSUME EditInit PROVE Inv
  OBVIOUS
<1>1. word1 \in Seq(Int) /\ word2 \in Seq(Int)
  BY WordsAssumption DEF EditInit
<1>2. EditTypeOK
  BY <1>1 DEF EditInit, EditTypeOK, Table, size1, size2
<1>3. TableInv
  BY <1>1 DEF EditInit, TableInv, Filled, size1, size2, Bounded, Longest
<1>4. CopyInv
  BY DEF EditInit, CopyInv
<1>5. QED
  BY <1>2, <1>3, <1>4 DEF Inv

\* Filling a cell with a distance and a list of as many operations changes
\* that cell only.
LEMMA FillCorrect ==
  ASSUME NEW a \in 0 .. size1, NEW b \in 0 .. size2, NEW dis \in Nat,
         NEW ops \in Seq(Operation), EditTypeOK, Fill(a, b, dis, ops)
  PROVE  /\ dis_map' \in Table(Nat) /\ pass' \in Table(Seq(Operation))
         /\ size1' = size1 /\ size2' = size2
         /\ UNCHANGED << word1, word2, edit_pass_result >>
         /\ dis_map'[a][b] = dis /\ pass'[a][b] = ops
         /\ \A c \in 0 .. size1, d \in 0 .. size2 :
              c # a \/ d # b => /\ dis_map'[c][d] = dis_map[c][d]
                                /\ pass'[c][d] = pass[c][d]
<1>2. UNCHANGED << word1, word2, edit_pass_result >>
  BY DEF Fill
<1>3. size1' = size1 /\ size2' = size2
  BY <1>2 DEF size1, size2
<1>4. dis_map' \in Table(Nat) /\ pass' \in Table(Seq(Operation))
  BY DEF Fill, EditTypeOK, Table
<1>5. dis_map'[a][b] = dis /\ pass'[a][b] = ops
  BY DEF Fill, EditTypeOK, Table
<1>6. ASSUME NEW c \in 0 .. size1, NEW d \in 0 .. size2, c # a \/ d # b
      PROVE  dis_map'[c][d] = dis_map[c][d] /\ pass'[c][d] = pass[c][d]
  BY <1>6 DEF Fill, EditTypeOK, Table
<1>7. QED
  BY <1>2, <1>3, <1>4, <1>5, <1>6

\* An operation pushed to the list of a cell makes it one longer.
LEMMA PushOperation ==
  ASSUME EditTypeOK, NEW a \in 0 .. size1, NEW b \in 0 .. size2,
         NEW x \in Int, NEW y \in Int, NEW z \in Int
  PROVE  /\ pass[a][b] \in Seq(Operation)
         /\ Append(pass[a][b], << x, y, z >>) \in Seq(Operation)
         /\ Len(Append(pass[a][b], << x, y, z >>)) = Len(pass[a][b]) + 1
         /\ dis_map[a][b] \in Nat
<1>2. pass[a][b] \in Seq(Operation) /\ dis_map[a][b] \in Nat
  BY DEF EditTypeOK, Table
<1>3. << x, y, z >> \in Operation
  BY DEF Operation
<1>4. QED
  BY <1>2, <1>3, AppendProperties

\* The step of one cell keeps the invariant of the table.
LEMMA TableStep ==
  ASSUME Inv,
         NEW a \in 0 .. size1, NEW b \in 0 .. size2, NEW dis \in Nat,
         NEW ops \in Seq(Operation), Fill(a, b, dis, ops),
         Len(ops) = dis, Bounded(a, b, dis),
         \A c \in 0 .. size1, d \in 0 .. size2 :
           Filled(c, d)' => Filled(c, d) \/ (c = a /\ d = b)
  PROVE  TableInv' /\ edit_pass_result' = edit_pass_result /\ word1' = word1 /\ word2' = word2
         /\ dis_map' \in Table(Nat)' /\ pass' \in Table(Seq(Operation))'
<1>1. EditTypeOK
  BY DEF Inv
<1>2. /\ dis_map' \in Table(Nat)' /\ pass' \in Table(Seq(Operation))'
      /\ size1' = size1 /\ size2' = size2
      /\ UNCHANGED << word1, word2, edit_pass_result >>
      /\ dis_map'[a][b] = dis /\ pass'[a][b] = ops
      /\ \A c \in 0 .. size1, d \in 0 .. size2 :
           c # a \/ d # b => /\ dis_map'[c][d] = dis_map[c][d]
                             /\ pass'[c][d] = pass[c][d]
  <2>1. Table(Nat)' = Table(Nat) /\ Table(Seq(Operation))' = Table(Seq(Operation))
    BY <1>1, FillCorrect DEF Table
  <2>2. QED
    BY <1>1, <2>1, FillCorrect
<1>3. ASSUME NEW c \in 0 .. size1, NEW d \in 0 .. size2
      PROVE  /\ Len(pass'[c][d]) = dis_map'[c][d]
             /\ Filled(c, d)' => Bounded(c, d, dis_map'[c][d])
  <2>1. CASE c = a /\ d = b
    BY <1>2, <2>1
  <2>2. CASE c # a \/ d # b
    BY <1>2, <2>2 DEF Inv, TableInv
  <2>3. QED
    BY <2>1, <2>2
<1>4. TableInv'
  BY <1>2, <1>3 DEF TableInv, Bounded, Longest
<1>5. QED
  BY <1>2, <1>4

\* The step of a cell inside the table: whichever neighbour is taken, the list
\* has as many operations as the distance, which stays bounded.
LEMMA CellStep ==
  ASSUME EditTypeOK, TableInv, FillCell
  PROVE  \E dis \in Nat, ops \in Seq(Operation) :
           Fill(i, j, dis, ops) /\ Len(ops) = dis /\ dis <= Longest(i, j)
<1>1. /\ at = "cells" /\ i \in 1 .. size1 /\ j \in 1 .. size2
      /\ size1 \in Nat /\ size2 \in Nat
  <2>1. size1 \in Nat /\ size2 \in Nat /\ i \in Nat \ {0} /\ j \in Nat \ {0}
    BY DEF EditTypeOK, size1, size2
  <2>2. at = "cells" /\ i <= size1 /\ j <= size2
    BY Zenon DEF FillCell
  <2>3. QED
    BY <2>1, <2>2
<1>2. /\ i - 1 \in 0 .. size1 /\ j - 1 \in 0 .. size2
      /\ i \in 0 .. size1 /\ j \in 0 .. size2
      /\ i - 1 \in Int /\ j - 1 \in Int
  BY <1>1
<1> DEFINE up == dis_map[i - 1][j]
           left == dis_map[i][j - 1]
           diagonal == dis_map[i - 1][j - 1]
           dis == Least(Dis1, Least(Dis2, Dis3))
<1>3. /\ up \in Nat /\ Len(pass[i - 1][j]) = up
      /\ left \in Nat /\ Len(pass[i][j - 1]) = left
      /\ diagonal \in Nat /\ Len(pass[i - 1][j - 1]) = diagonal
  BY <1>2, PushOperation DEF TableInv
<1>4. diagonal <= Longest(i - 1, j - 1)
  <2>1. Filled(i - 1, j - 1)
    BY <1>1 DEF Filled
  <2>2. QED
    BY <1>2, <2>1 DEF TableInv, Bounded
<1>5. Dis1 = up + 1 /\ Dis2 = left + 1 /\ Dis3 \in {diagonal, diagonal + 1}
  BY DEF Dis1, Dis2, Dis3
<1> HIDE DEF up, left, diagonal
<1>6. dis \in Nat /\ dis <= Dis3 /\ dis \in {Dis1, Dis2, Dis3}
  BY <1>3, <1>5 DEF Least
<1>7. dis <= Longest(i, j)
  BY <1>1, <1>3, <1>4, <1>5, <1>6 DEF Longest
<1>8. CASE Dis1 = dis
  <2> DEFINE ops == Append(pass[i - 1][j], << -2, i - 1, j - 1 >>)
  <2>1. Fill(i, j, dis, ops)
    BY <1>8 DEF FillCell
  <2>2. ops \in Seq(Operation) /\ Len(ops) = dis
    <3>1. ops \in Seq(Operation) /\ Len(ops) = Len(pass[i - 1][j]) + 1
      BY <1>2, PushOperation
    <3>2. QED
      BY <1>3, <1>5, <1>8, <3>1
  <2>3. QED
    BY <1>6, <1>7, <2>1, <2>2
<1>9. CASE Dis1 # dis /\ Dis2 = dis
  <2> DEFINE ops == Append(pass[i][j - 1], << -1, j - 1, j - 1 >>)
  <2>1. Fill(i, j, dis, ops)
    BY <1>9 DEF FillCell
  <2>2. ops \in Seq(Operation) /\ Len(ops) = dis
    <3>1. ops \in Seq(Operation) /\ Len(ops) = Len(pass[i][j - 1]) + 1
      BY <1>2, PushOperation
    <3>2. QED
      BY <1>3, <1>5, <1>9, <3>1
  <2>3. QED
    BY <1>6, <1>7, <2>1, <2>2
<1>10. CASE Dis1 # dis /\ Dis2 # dis
  <2> DEFINE ops == IF Same THEN pass[i - 1][j - 1]
                    ELSE Append(pass[i - 1][j - 1], << i - 1, j - 1, j - 1 >>)
  <2>1. Fill(i, j, dis, ops)
    BY <1>10 DEF FillCell
  <2>2. Dis3 = dis
    BY <1>6, <1>10
  <2>3. ops \in Seq(Operation) /\ Len(ops) = dis
    <3>1. CASE Same
      <4>1. ops \in Seq(Operation) /\ Len(ops) = Len(pass[i - 1][j - 1])
        BY <1>2, <3>1, PushOperation
      <4>2. QED
        BY <1>3, <2>2, <3>1, <4>1 DEF Dis3, diagonal
    <3>2. CASE ~Same
      <4>1. ops \in Seq(Operation) /\ Len(ops) = Len(pass[i - 1][j - 1]) + 1
        BY <1>2, <3>2, PushOperation
      <4>2. QED
        BY <1>3, <2>2, <3>2, <4>1 DEF Dis3, diagonal
    <3>3. QED
      BY <3>1, <3>2
  <2>4. QED
    BY <1>6, <1>7, <2>1, <2>3
<1>11. QED
  BY <1>8, <1>9, <1>10

\* A step that leaves the words and the table alone, and fills no cell, keeps
\* the invariant of the table.
LEMMA SameTable ==
  ASSUME EditTypeOK, TableInv, UNCHANGED << word1, word2, dis_map, pass >>,
         \A c \in 0 .. size1, d \in 0 .. size2 : Filled(c, d)' => Filled(c, d)
  PROVE  /\ TableInv' /\ word1' \in Seq(Int) /\ word2' \in Seq(Int)
         /\ dis_map' \in Table(Nat)' /\ pass' \in Table(Seq(Operation))'
<1>1. size1' = size1 /\ size2' = size2
  BY DEF size1, size2
<1>2. TableInv'
  BY <1>1 DEF TableInv, Bounded, Longest
<1>3. Table(Nat)' = Table(Nat) /\ Table(Seq(Operation))' = Table(Seq(Operation))
  BY <1>1 DEF Table
<1>4. QED
  BY <1>2, <1>3 DEF EditTypeOK

\* The last cell holds a list of operations.
LEMMA LastCell ==
  ASSUME EditTypeOK
  PROVE  /\ Script \in Seq(Operation) /\ Len(Script) \in Nat
         /\ dis_map[size1][size2] \in Nat
<1>1. size1 \in 0 .. size1 /\ size2 \in 0 .. size2
  BY DEF EditTypeOK, size1, size2
<1>2. QED
  BY <1>1 DEF EditTypeOK, Script, Table

\* Every step of the loops and of the copy keeps the invariant.
LEMMA StepInv == Inv /\ [EditNext]_evars => Inv'
<1> SUFFICES ASSUME Inv, [EditNext]_evars PROVE Inv'
  OBVIOUS
<1>a. EditTypeOK /\ TableInv /\ CopyInv
  BY DEF Inv
<1>b. size1 \in Nat /\ size2 \in Nat /\ i \in Nat \ {0} /\ j \in Nat \ {0}
  BY <1>a DEF EditTypeOK, size1, size2
<1>1. CASE FillRow
  <2>1. at = "row" /\ at' = "row" /\ i' = i + 1 /\ j' = j /\ i \in 1 .. size2
    BY <1>1, <1>b DEF FillRow
  <2> DEFINE ops == Append(pass[0][i - 1], << -1, i - 1, 0 >>)
  <2>2. Fill(0, i, i, ops)
    BY <1>1 DEF FillRow
  <2>3. Len(pass[0][i - 1]) = i - 1
    <3>1. 0 \in 0 .. size1 /\ i - 1 \in 0 .. size2 /\ Filled(0, i - 1)
      BY <1>b, <2>1 DEF Filled
    <3>2. QED
      BY <1>a, <3>1 DEF TableInv, Bounded
  <2>4. ops \in Seq(Operation) /\ Len(ops) = i
    <3>1. 0 \in 0 .. size1 /\ i - 1 \in 0 .. size2
      BY <1>b, <2>1
    <3>2. -1 \in Int /\ i - 1 \in Int /\ 0 \in Int
      BY <1>b
    <3>3. ops \in Seq(Operation) /\ Len(ops) = Len(pass[0][i - 1]) + 1
      BY <1>a, <3>1, <3>2, PushOperation
    <3>4. QED
      BY <1>b, <2>3, <3>3
  <2>5. Bounded(0, i, i)
    BY <2>1 DEF Bounded, Longest
  <2>6. \A c \in 0 .. size1, d \in 0 .. size2 :
          Filled(c, d)' => Filled(c, d) \/ (c = 0 /\ d = i)
    BY <1>b, <2>1 DEF Filled
  <2> HIDE DEF ops
  <2>7. /\ TableInv' /\ edit_pass_result' = edit_pass_result /\ word1' = word1 /\ word2' = word2
        /\ dis_map' \in Table(Nat)' /\ pass' \in Table(Seq(Operation))'
    BY <1>b, <2>1, <2>2, <2>4, <2>5, <2>6, TableStep
  <2>8. QED
    BY <1>a, <2>1, <2>7 DEF Inv, EditTypeOK, CopyInv
<1>2. CASE RowDone
  <2>1. at = "row" /\ at' = "column" /\ j' = 1 /\ i' = i /\ i > size2
    BY <1>2 DEF RowDone
  <2>2. \A c \in 0 .. size1, d \in 0 .. size2 : Filled(c, d)' => Filled(c, d)
    BY <1>b, <2>1 DEF Filled
  <2>3. QED
    BY <1>a, <1>2, <2>1, <2>2, SameTable DEF RowDone, Inv, EditTypeOK, CopyInv
<1>3. CASE FillColumn
  <2>1. at = "column" /\ at' = "column" /\ j' = j + 1 /\ i' = i /\ j \in 1 .. size1
    BY <1>3, <1>b DEF FillColumn
  <2> DEFINE ops == Append(pass[j - 1][0], << -2, j - 1, j - 1 >>)
  <2>2. Fill(j, 0, j, ops)
    BY <1>3 DEF FillColumn
  <2>3. Len(pass[j - 1][0]) = j - 1
    <3>1. 0 \in 0 .. size2 /\ j - 1 \in 0 .. size1 /\ Filled(j - 1, 0)
      BY <1>b, <2>1 DEF Filled
    <3>2. QED
      BY <1>a, <3>1 DEF TableInv, Bounded
  <2>4. ops \in Seq(Operation) /\ Len(ops) = j
    <3>1. j - 1 \in 0 .. size1 /\ 0 \in 0 .. size2
      BY <1>b, <2>1
    <3>2. -2 \in Int /\ j - 1 \in Int
      BY <1>b
    <3>3. ops \in Seq(Operation) /\ Len(ops) = Len(pass[j - 1][0]) + 1
      BY <1>a, <3>1, <3>2, PushOperation
    <3>4. QED
      BY <1>b, <2>3, <3>3
  <2>5. Bounded(j, 0, j)
    BY <2>1 DEF Bounded, Longest
  <2>6. \A c \in 0 .. size1, d \in 0 .. size2 :
          Filled(c, d)' => Filled(c, d) \/ (c = j /\ d = 0)
    BY <1>b, <2>1 DEF Filled
  <2> HIDE DEF ops
  <2>7. /\ TableInv' /\ edit_pass_result' = edit_pass_result /\ word1' = word1 /\ word2' = word2
        /\ dis_map' \in Table(Nat)' /\ pass' \in Table(Seq(Operation))'
    BY <1>b, <2>1, <2>2, <2>4, <2>5, <2>6, TableStep
  <2>8. QED
    BY <1>a, <2>1, <2>7 DEF Inv, EditTypeOK, CopyInv
<1>4. CASE ColumnDone
  <2>1. at = "column" /\ at' = "cells" /\ i' = 1 /\ j' = 1 /\ j > size1
    BY <1>4 DEF ColumnDone
  <2>2. \A c \in 0 .. size1, d \in 0 .. size2 : Filled(c, d)' => Filled(c, d)
    BY <1>b, <2>1 DEF Filled
  <2>3. QED
    BY <1>a, <1>4, <2>1, <2>2, SameTable DEF ColumnDone, Inv, EditTypeOK, CopyInv
<1>5. CASE FillCell
  <2>1. /\ at = "cells" /\ at' = "cells" /\ j' = j + 1 /\ i' = i
        /\ i \in 1 .. size1 /\ j \in 1 .. size2
    BY <1>5, <1>b DEF FillCell
  <2>2. PICK dis \in Nat, ops \in Seq(Operation) :
          Fill(i, j, dis, ops) /\ Len(ops) = dis /\ dis <= Longest(i, j)
    BY <1>a, <1>5, CellStep
  <2>3. Bounded(i, j, dis)
    BY <2>1, <2>2 DEF Bounded
  <2>4. \A c \in 0 .. size1, d \in 0 .. size2 :
          Filled(c, d)' => Filled(c, d) \/ (c = i /\ d = j)
    BY <1>b, <2>1 DEF Filled
  <2>5. /\ TableInv' /\ edit_pass_result' = edit_pass_result /\ word1' = word1 /\ word2' = word2
        /\ dis_map' \in Table(Nat)' /\ pass' \in Table(Seq(Operation))'
    BY <1>b, <2>1, <2>2, <2>3, <2>4, TableStep
  <2>6. QED
    BY <1>a, <2>1, <2>5 DEF Inv, EditTypeOK, CopyInv
<1>6. CASE CellsRowDone
  <2>1. at = "cells" /\ at' = "cells" /\ i' = i + 1 /\ j' = 1 /\ j > size2
    BY <1>6 DEF CellsRowDone
  <2>2. \A c \in 0 .. size1, d \in 0 .. size2 : Filled(c, d)' => Filled(c, d)
    BY <1>b, <2>1 DEF Filled
  <2>3. QED
    BY <1>a, <1>b, <1>6, <2>1, <2>2, SameTable DEF CellsRowDone, Inv, EditTypeOK, CopyInv
<1>7. CASE CellsDone
  <2>1. at = "cells" /\ at' = "copy" /\ i' = 1 /\ j' = j /\ i > size1
    BY <1>7 DEF CellsDone
  <2>2. \A c \in 0 .. size1, d \in 0 .. size2 : Filled(c, d)' => Filled(c, d)
    BY <1>b, <2>1 DEF Filled
  <2>3. EditTypeOK' /\ TableInv'
    BY <1>a, <1>7, <2>1, <2>2, SameTable DEF CellsDone, EditTypeOK
  <2>4. Len(Script) \in Nat /\ Script' = Script
    BY <1>a, <1>b, <1>7, LastCell DEF CellsDone, Script, size1, size2
  <2>5. CopyInv'
    BY <1>a, <1>7, <2>1, <2>4 DEF CellsDone, CopyInv
  <2>6. QED
    BY <2>3, <2>5 DEF Inv
<1>8. CASE CopyTuple
  <2>1. at = "copy" /\ at' = "copy" /\ i' = i + 1 /\ j' = j /\ i <= Len(Script)
    BY <1>8 DEF CopyTuple
  <2>2. Script \in Seq(Operation) /\ Script' = Script
    BY <1>a, <1>b, <1>8, LastCell DEF CopyTuple, Script, size1, size2
  <2>3. Script[i] \in Seq(Int) /\ Len(Script[i]) = 3
    BY <1>b, <2>1, <2>2 DEF Operation
  <2>4. edit_pass_result' \in Seq(Int) /\ Len(edit_pass_result') = Len(edit_pass_result) + 3
    <3>1. edit_pass_result \in Seq(Int) /\ edit_pass_result' = edit_pass_result \o Script[i]
      BY <1>a, <1>8 DEF CopyTuple, EditTypeOK
    <3>2. /\ edit_pass_result \o Script[i] \in Seq(Int)
          /\ Len(edit_pass_result \o Script[i]) = Len(edit_pass_result) + Len(Script[i])
      BY <2>3, <3>1, ConcatProperties
    <3>3. QED
      BY <2>3, <3>1, <3>2
  <2>5. \A c \in 0 .. size1, d \in 0 .. size2 : Filled(c, d)' => Filled(c, d)
    BY <2>1 DEF Filled
  <2>6. EditTypeOK' /\ TableInv'
    BY <1>a, <1>b, <1>8, <2>1, <2>4, <2>5, SameTable DEF CopyTuple, EditTypeOK
  <2>7. CopyInv'
    <3>1. Len(edit_pass_result) = 3 * (i - 1) /\ Len(Script) \in Nat
      BY <1>a, <2>1, LastCell DEF CopyInv
    <3>2. Len(edit_pass_result') = 3 * (i' - 1) /\ i' <= Len(Script) + 1
      BY <1>b, <2>1, <2>4, <3>1
    <3>3. QED
      BY <2>1, <2>2, <3>2 DEF CopyInv
  <2>8. QED
    BY <2>6, <2>7 DEF Inv
<1>9. CASE Return
  <2>1. at = "copy" /\ at' = "done" /\ i' = i /\ j' = j /\ i > Len(Script)
    BY <1>9 DEF Return
  <2>2. Script \in Seq(Operation) /\ Script' = Script
    BY <1>a, <1>b, <1>9, LastCell DEF Return, Script, size1, size2
  <2>3. \A c \in 0 .. size1, d \in 0 .. size2 : Filled(c, d)' => Filled(c, d)
    BY <2>1 DEF Filled
  <2>4. EditTypeOK' /\ TableInv'
    BY <1>a, <1>9, <2>1, <2>3, SameTable DEF Return, EditTypeOK
  <2>5. i = Len(Script) + 1
    BY <1>a, <1>b, <2>1, <2>2 DEF CopyInv
  <2>6. CopyInv'
    BY <1>a, <1>9, <2>1, <2>2, <2>5 DEF Return, CopyInv
  <2>7. QED
    BY <2>4, <2>6 DEF Inv
<1>10. CASE UNCHANGED evars
  <2>1. \A c \in 0 .. size1, d \in 0 .. size2 : Filled(c, d)' => Filled(c, d)
    BY <1>10 DEF evars, Filled
  <2>2. EditTypeOK' /\ TableInv'
    BY <1>a, <1>10, <2>1, SameTable DEF evars, EditTypeOK
  <2>3. CopyInv'
    BY <1>a, <1>10 DEF evars, CopyInv, Script, size1, size2
  <2>4. QED
    BY <2>2, <2>3 DEF Inv
<1>11. QED
  BY <1>1, <1>2, <1>3, <1>4, <1>5, <1>6, <1>7, <1>8, <1>9, <1>10 DEF EditNext

\* Type correctness of the table and of the result.
THEOREM TypeCorrect == EditSpec => []EditTypeOK
<1>1. Inv => EditTypeOK
  BY DEF Inv
<1>2. QED
  BY <1>1, InitInv, StepInv, PTL DEF EditSpec

\* The result fits an array of three integers for each element of the longer
\* word.
THEOREM ResultFitsAlways == EditSpec => []ResultFits
<1>1. Inv => ResultFits
  <2> SUFFICES ASSUME Inv, at = "done" PROVE ResultFits
    BY DEF ResultFits
  <2>1. size1 \in Nat /\ size2 \in Nat
    BY DEF Inv, EditTypeOK, size1, size2
  <2>2. Len(Script) = dis_map[size1][size2] /\ Bounded(size1, size2, dis_map[size1][size2])
    <3>1. size1 \in 0 .. size1 /\ size2 \in 0 .. size2 /\ Filled(size1, size2)
      BY <2>1 DEF Filled
    <3>2. QED
      BY <3>1 DEF Inv, TableInv, Script
  <2>3. Len(edit_pass_result) = 3 * Len(Script)
    BY DEF Inv, CopyInv
  <2>4. dis_map[size1][size2] \in Nat
    BY <2>1, LastCell DEF Inv
  <2>5. QED
    BY <2>1, <2>2, <2>3, <2>4 DEF ResultFits, Bounded, Longest
<1>2. QED
  BY <1>1, InitInv, StepInv, PTL DEF EditSpec
-------------------------------------------------------------------------------
(* Alignments of two prefixes, and what they have to do with those of        *)
(* shorter ones.                                                             *)

\* The pairs of an alignment are finitely many, and so are those that differ.
LEMMA AlignmentTypes ==
  ASSUME NEW a \in Nat, NEW b \in Nat, NEW A \in Alignments(a, b)
  PROVE  /\ IsFiniteSet(A) /\ Cardinality(A) \in Nat
         /\ IsFiniteSet(Mismatches(A)) /\ Cardinality(Mismatches(A)) \in Nat
         /\ Cost(a, b, A) \in Int
         /\ \A p \in A : p = << p[1], p[2] >> /\ p[1] \in 0 .. a - 1 /\ p[2] \in 0 .. b - 1
<1>1. A \subseteq (0 .. a - 1) \X (0 .. b - 1)
  BY DEF Alignments
<1>2. IsFiniteSet(0 .. a - 1) /\ IsFiniteSet(0 .. b - 1)
  BY FS_Interval
<1>3. IsFiniteSet((0 .. a - 1) \X (0 .. b - 1))
  BY <1>2, FS_Product
<1>4. IsFiniteSet(A)
  BY <1>1, <1>3, FS_Subset
<1>5. IsFiniteSet(Mismatches(A))
  BY <1>4, FS_Subset DEF Mismatches
<1>6. Cardinality(A) \in Nat /\ Cardinality(Mismatches(A)) \in Nat
  BY <1>4, <1>5, FS_CardinalityType
<1>7. Cost(a, b, A) \in Int
  BY <1>6 DEF Cost
<1>8. QED
  BY <1>1, <1>4, <1>5, <1>6, <1>7

\* With an empty prefix nothing can be paired.
LEMMA EmptyAlignment ==
  ASSUME NEW a \in Nat, NEW b \in Nat, a = 0 \/ b = 0
  PROVE  /\ Alignments(a, b) = {{}} /\ Cost(a, b, {}) = a + b
         /\ Unpaired1(a, {}) = 0 .. a - 1 /\ Unpaired2(b, {}) = 0 .. b - 1
         /\ Mismatches({}) = {}
<1>1. (0 .. a - 1) \X (0 .. b - 1) = {}
  OBVIOUS
<1>2. Alignments(a, b) = {{}}
  BY <1>1 DEF Alignments
<1>3. Mismatches({}) = {}
  BY DEF Mismatches
<1>4. Cost(a, b, {}) = a + b
  BY <1>3, FS_EmptySet DEF Cost
<1>5. QED
  BY <1>2, <1>3, <1>4 DEF Unpaired1, Unpaired2

\* One more element of word1 is one more to insert.
LEMMA LongerFirst ==
  ASSUME NEW a \in Nat \ {0}, NEW b \in Nat, NEW A \in Alignments(a - 1, b)
  PROVE  /\ A \in Alignments(a, b) /\ Cost(a, b, A) = Cost(a - 1, b, A) + 1
         /\ Unpaired1(a, A) = Unpaired1(a - 1, A) \cup {a - 1}
<1>1. a - 1 \in Nat
  OBVIOUS
<1>2. \A p \in A : p = << p[1], p[2] >> /\ p[1] \in 0 .. a - 2 /\ p[2] \in 0 .. b - 1
  BY <1>1, AlignmentTypes
<1>3. A \in Alignments(a, b)
  BY <1>2 DEF Alignments
<1>4. Cardinality(A) \in Nat /\ Cardinality(Mismatches(A)) \in Nat
  BY <1>1, AlignmentTypes
<1>5. Cost(a, b, A) = Cost(a - 1, b, A) + 1
  BY <1>4 DEF Cost
<1>6. Unpaired1(a, A) = Unpaired1(a - 1, A) \cup {a - 1}
  BY <1>2 DEF Unpaired1
<1>7. QED
  BY <1>3, <1>5, <1>6

\* One more element of word2 is one more to remove.
LEMMA LongerSecond ==
  ASSUME NEW a \in Nat, NEW b \in Nat \ {0}, NEW A \in Alignments(a, b - 1)
  PROVE  /\ A \in Alignments(a, b) /\ Cost(a, b, A) = Cost(a, b - 1, A) + 1
         /\ Unpaired2(b, A) = Unpaired2(b - 1, A) \cup {b - 1}
<1>1. b - 1 \in Nat
  OBVIOUS
<1>2. \A p \in A : p = << p[1], p[2] >> /\ p[1] \in 0 .. a - 1 /\ p[2] \in 0 .. b - 2
  BY <1>1, AlignmentTypes
<1>3. A \in Alignments(a, b)
  BY <1>2 DEF Alignments
<1>4. Cardinality(A) \in Nat /\ Cardinality(Mismatches(A)) \in Nat
  BY <1>1, AlignmentTypes
<1>5. Cost(a, b, A) = Cost(a, b - 1, A) + 1
  BY <1>4 DEF Cost
<1>6. Unpaired2(b, A) = Unpaired2(b - 1, A) \cup {b - 1}
  BY <1>2 DEF Unpaired2
<1>7. QED
  BY <1>3, <1>5, <1>6

\* B is A with the last elements of a and b kept together: that costs nothing
\* but a replacement if they differ.
Joins(a, b, A, B) ==
  /\ B \in Alignments(a, b)
  /\ Unpaired1(a, B) = Unpaired1(a - 1, A)
  /\ Unpaired2(b, B) = Unpaired2(b - 1, A)
  /\ word1[a] = word2[b] =>
       /\ Cost(a, b, B) = Cost(a - 1, b - 1, A)
       /\ Mismatches(B) = Mismatches(A)
  /\ word1[a] # word2[b] =>
       /\ Cost(a, b, B) = Cost(a - 1, b - 1, A) + 1
       /\ Mismatches(B) = Mismatches(A) \cup {<< a - 1, b - 1 >>}

\* Every alignment of the shorter words has such an extension.
LEMMA LongerBoth ==
  ASSUME NEW a \in Nat \ {0}, NEW b \in Nat \ {0}, NEW A \in Alignments(a - 1, b - 1)
  PROVE  Joins(a, b, A, A \cup {<< a - 1, b - 1 >>})
<1>p. PICK pair : pair = << a - 1, b - 1 >>
  OBVIOUS
<1>b. PICK B : B = A \cup {pair}
  OBVIOUS
<1>1. a - 1 \in Nat /\ b - 1 \in Nat
  OBVIOUS
<1>2. \A p \in A : p = << p[1], p[2] >> /\ p[1] \in 0 .. a - 2 /\ p[2] \in 0 .. b - 2
  BY <1>1, AlignmentTypes
<1>3. pair \notin A /\ pair[1] = a - 1 /\ pair[2] = b - 1
  BY <1>2, <1>p
<1>4. B \in Alignments(a, b)
  <2>1. B \in SUBSET ((0 .. a - 1) \X (0 .. b - 1))
    BY <1>2, <1>p, <1>b
  <2>2. \A p, q \in A : p[1] < q[1] <=> p[2] < q[2]
    BY DEF Alignments
  <2>3. \A p \in A : /\ p[1] < pair[1] /\ p[2] < pair[2]
                     /\ ~ (pair[1] < p[1]) /\ ~ (pair[2] < p[2])
    BY <1>2, <1>3
  <2>4. ~ (pair[1] < pair[1]) /\ ~ (pair[2] < pair[2])
    BY <1>3
  <2>5. \A p, q \in B : p[1] < q[1] <=> p[2] < q[2]
    BY <2>2, <2>3, <2>4, <1>b
  <2>6. QED
    BY <2>1, <2>5 DEF Alignments
<1>5. Unpaired1(a, B) = Unpaired1(a - 1, A)
  BY <1>2, <1>3, <1>b DEF Unpaired1
<1>6. Unpaired2(b, B) = Unpaired2(b - 1, A)
  BY <1>2, <1>3, <1>b DEF Unpaired2
<1>7. /\ IsFiniteSet(A) /\ Cardinality(A) \in Nat
      /\ IsFiniteSet(Mismatches(A)) /\ Cardinality(Mismatches(A)) \in Nat
  BY <1>1, AlignmentTypes
<1>8. Cardinality(B) = Cardinality(A) + 1
  BY <1>3, <1>7, <1>b, FS_AddElement
<1>9. ASSUME word1[a] = word2[b]
      PROVE  Cost(a, b, B) = Cost(a - 1, b - 1, A) /\ Mismatches(B) = Mismatches(A)
  <2>1. Mismatches(B) = Mismatches(A)
    BY <1>3, <1>9, <1>b, <1>p DEF Mismatches
  <2>2. QED
    BY <1>7, <1>8, <2>1 DEF Cost
<1>10. ASSUME word1[a] # word2[b]
       PROVE  /\ Cost(a, b, B) = Cost(a - 1, b - 1, A) + 1
              /\ Mismatches(B) = Mismatches(A) \cup {pair}
  <2>1. Mismatches(B) = Mismatches(A) \cup {pair}
    BY <1>3, <1>10, <1>b, <1>p DEF Mismatches
  <2>2. pair \notin Mismatches(A)
    BY <1>3 DEF Mismatches
  <2>3. Cardinality(Mismatches(B)) = Cardinality(Mismatches(A)) + 1
    <3>1. Cardinality(Mismatches(A) \cup {pair}) = Cardinality(Mismatches(A)) + 1
      BY <1>7, <2>2, FS_AddElement
    <3>2. QED
      BY <2>1, <3>1
  <2>4. Cost(a, b, B) = Cost(a - 1, b - 1, A) + 1
    BY <1>7, <1>8, <2>3 DEF Cost
  <2>5. QED
    BY <2>1, <2>4
<1>11. QED
  BY <1>4, <1>5, <1>6, <1>9, <1>10, <1>p, <1>b DEF Joins

\* An alignment keeps the last elements together, or one of them alone.
LEMMA LastElements ==
  ASSUME NEW a \in Nat \ {0}, NEW b \in Nat \ {0}, NEW B \in Alignments(a, b)
  PROVE  \/ B \in Alignments(a - 1, b)
         \/ B \in Alignments(a, b - 1)
         \/ \E A \in Alignments(a - 1, b - 1) : B = A \cup {<< a - 1, b - 1 >>}
<1>1. /\ \A p \in B : p = << p[1], p[2] >> /\ p[1] \in 0 .. a - 1 /\ p[2] \in 0 .. b - 1
      /\ \A p, q \in B : p[1] < q[1] <=> p[2] < q[2]
  BY AlignmentTypes DEF Alignments
<1>2. CASE << a - 1, b - 1 >> \in B
  <2> DEFINE pair == << a - 1, b - 1 >>
             A == B \ {pair}
  <2>1. \A p \in A : p = << p[1], p[2] >> /\ p[1] \in 0 .. a - 2 /\ p[2] \in 0 .. b - 2
    <3>1. SUFFICES ASSUME NEW p \in A PROVE p[1] \in 0 .. a - 2 /\ p[2] \in 0 .. b - 2
      BY <1>1
    <3>2. p \in B /\ p # pair /\ pair \in B /\ pair[1] = a - 1 /\ pair[2] = b - 1
      BY <1>2
    <3>3. p = << p[1], p[2] >> /\ p[1] \in 0 .. a - 1 /\ p[2] \in 0 .. b - 1
      BY <1>1, <3>2
    <3>4. p[1] < a - 1 <=> p[2] < b - 1
      BY <1>1, <3>2
    <3>5. p[1] # a - 1 \/ p[2] # b - 1
      BY <3>2, <3>3
    <3>6. QED
      BY <3>3, <3>4, <3>5
  <2>2. A \in Alignments(a - 1, b - 1)
    BY <1>1, <2>1 DEF Alignments
  <2>3. B = A \cup {pair}
    BY <1>2
  <2>4. QED
    BY <2>2, <2>3
<1>3. CASE << a - 1, b - 1 >> \notin B /\ \A p \in B : p[1] # a - 1
  <2>1. \A p \in B : p = << p[1], p[2] >> /\ p[1] \in 0 .. (a - 1) - 1 /\ p[2] \in 0 .. b - 1
    BY <1>1, <1>3
  <2>2. B \in Alignments(a - 1, b)
    BY <1>1, <2>1 DEF Alignments
  <2>3. QED
    BY <2>2
<1>4. CASE << a - 1, b - 1 >> \notin B /\ \E p \in B : p[1] = a - 1
  <2>1. PICK p \in B : p[1] = a - 1
    BY <1>4
  <2>2. p[2] < b - 1
    BY <1>1, <1>4, <2>1
  <2>3. ASSUME NEW q \in B PROVE q[2] \in 0 .. (b - 1) - 1
    <3>1. q[2] \in 0 .. b - 1 /\ q[1] \in 0 .. a - 1 /\ (p[1] < q[1] <=> p[2] < q[2])
      BY <1>1, <2>3
    <3>2. QED
      BY <2>1, <2>2, <3>1
  <2>4. B \in Alignments(a, b - 1)
    BY <1>1, <2>3 DEF Alignments
  <2>5. QED
    BY <2>4
<1>5. QED
  BY <1>2, <1>3, <1>4

-------------------------------------------------------------------------------
(* Operations.                                                               *)

\* The operations of a list that was appended to.
LEMMA PushedTo ==
  ASSUME NEW ops \in Seq(Operation), NEW x \in Int, NEW y \in Int, NEW z \in Int
  PROVE  /\ Inserted(Append(ops, << x, y, z >>))
              = Inserted(ops) \cup (IF x = -2 THEN {y} ELSE {})
         /\ Removed(Append(ops, << x, y, z >>))
              = Removed(ops) \cup (IF x = -1 THEN {y} ELSE {})
         /\ Replaced(Append(ops, << x, y, z >>))
              = Replaced(ops) \cup (IF x >= 0 THEN {<< x, y >>} ELSE {})
<1> DEFINE op == << x, y, z >>
           more == Append(ops, op)
<1>1. ToSet(more) = ToSet(ops) \cup {op}
  <2>1. op \in Operation
    BY DEF Operation
  <2>2. /\ more \in Seq(Operation) /\ Len(more) = Len(ops) + 1
        /\ \A i_ \in 1 .. Len(ops) : more[i_] = ops[i_]
        /\ more[Len(ops) + 1] = op
    BY <2>1, AppendProperties
  <2>3. DOMAIN more = 1 .. Len(ops) + 1 /\ DOMAIN ops = 1 .. Len(ops) /\ Len(ops) \in Nat
    BY <2>2, LenProperties
  <2> HIDE DEF more
  <2>4. ASSUME NEW k \in DOMAIN more PROVE more[k] \in ToSet(ops) \cup {op}
    <3>1. CASE k = Len(ops) + 1
      BY <2>2, <3>1
    <3>2. CASE k # Len(ops) + 1
      BY <2>2, <2>3, <2>4, <3>2 DEF ToSet
    <3>3. QED
      BY <3>1, <3>2
  <2>5. ASSUME NEW k \in DOMAIN ops PROVE ops[k] \in ToSet(more)
    <3>1. k \in DOMAIN more /\ more[k] = ops[k]
      BY <2>2, <2>3
    <3>2. QED
      BY <3>1 DEF ToSet
  <2>6. op \in ToSet(more)
    <3>1. Len(ops) + 1 \in DOMAIN more
      BY <2>3
    <3>2. QED
      BY <2>2, <3>1 DEF ToSet
  <2>7. QED
    BY <2>4, <2>5, <2>6 DEF ToSet
<1>2. op[1] = x /\ op[2] = y
  OBVIOUS
<1> HIDE DEF op, more
<1>3. Inserted(more) = Inserted(ops) \cup (IF x = -2 THEN {y} ELSE {})
  BY <1>1, <1>2 DEF Inserted
<1>4. Removed(more) = Removed(ops) \cup (IF x = -1 THEN {y} ELSE {})
  BY <1>1, <1>2 DEF Removed
<1>5. Replaced(more) = Replaced(ops) \cup (IF x >= 0 THEN {<< x, y >>} ELSE {})
  BY <1>1, <1>2 DEF Replaced
<1>6. QED
  BY <1>3, <1>4, <1>5 DEF op, more

-------------------------------------------------------------------------------
(* What a cell of the table holds.                                           *)

\* The operations are those of an alignment that takes as many as dis.
Good(a, b, dis, ops) ==
  \E A \in Alignments(a, b) : Edits(ops, a, b, A) /\ dis = Cost(a, b, A)

\* No alignment takes fewer.
NoBetter(a, b, dis) == \A B \in Alignments(a, b) : dis <= Cost(a, b, B)

\* An operation more inserts the last element of word1.
LEMMA GoodInsert ==
  ASSUME NEW a \in Nat \ {0}, NEW b \in Nat, NEW d \in Nat, NEW ops \in Seq(Operation),
         NEW z \in Int, Good(a - 1, b, d, ops)
  PROVE  Good(a, b, d + 1, Append(ops, << -2, a - 1, z >>))
<1>1. PICK A \in Alignments(a - 1, b) : Edits(ops, a - 1, b, A) /\ d = Cost(a - 1, b, A)
  BY DEF Good
<1>2. /\ A \in Alignments(a, b) /\ Cost(a, b, A) = d + 1
      /\ Unpaired1(a, A) = Unpaired1(a - 1, A) \cup {a - 1}
  BY <1>1, LongerFirst
<1>k. PICK kind \in Int : kind = -2
  OBVIOUS
<1> DEFINE more == Append(ops, << kind, a - 1, z >>)
<1>3. /\ Inserted(more) = Inserted(ops) \cup {a - 1}
      /\ Removed(more) = Removed(ops) /\ Replaced(more) = Replaced(ops)
  <2>1. a - 1 \in Int
    OBVIOUS
  <2>2. /\ Inserted(more) = Inserted(ops) \cup (IF kind = -2 THEN {a - 1} ELSE {})
        /\ Removed(more) = Removed(ops) \cup (IF kind = -1 THEN {a - 1} ELSE {})
        /\ Replaced(more) = Replaced(ops) \cup (IF kind >= 0 THEN {<< kind, a - 1 >>} ELSE {})
    BY <2>1, PushedTo
  <2> HIDE DEF more
  <2>3. QED
    BY <1>k, <2>2
<1> HIDE DEF more
<1>4. Edits(more, a, b, A)
  BY <1>1, <1>2, <1>3 DEF Edits
<1>5. Good(a, b, d + 1, more)
  BY <1>2, <1>4 DEF Good
<1>6. QED
  BY <1>k, <1>5 DEF more

\* An operation more removes the last element of word2.
LEMMA GoodRemove ==
  ASSUME NEW a \in Nat, NEW b \in Nat \ {0}, NEW d \in Nat, NEW ops \in Seq(Operation),
         NEW z \in Int, Good(a, b - 1, d, ops)
  PROVE  Good(a, b, d + 1, Append(ops, << -1, b - 1, z >>))
<1>1. PICK A \in Alignments(a, b - 1) : Edits(ops, a, b - 1, A) /\ d = Cost(a, b - 1, A)
  BY DEF Good
<1>2. /\ A \in Alignments(a, b) /\ Cost(a, b, A) = d + 1
      /\ Unpaired2(b, A) = Unpaired2(b - 1, A) \cup {b - 1}
  BY <1>1, LongerSecond
<1>k. PICK kind \in Int : kind = -1
  OBVIOUS
<1> DEFINE more == Append(ops, << kind, b - 1, z >>)
<1>3. /\ Removed(more) = Removed(ops) \cup {b - 1}
      /\ Inserted(more) = Inserted(ops) /\ Replaced(more) = Replaced(ops)
  <2>1. b - 1 \in Int
    OBVIOUS
  <2>2. /\ Inserted(more) = Inserted(ops) \cup (IF kind = -2 THEN {b - 1} ELSE {})
        /\ Removed(more) = Removed(ops) \cup (IF kind = -1 THEN {b - 1} ELSE {})
        /\ Replaced(more) = Replaced(ops) \cup (IF kind >= 0 THEN {<< kind, b - 1 >>} ELSE {})
    BY <2>1, PushedTo
  <2> HIDE DEF more
  <2>3. QED
    BY <1>k, <2>2
<1> HIDE DEF more
<1>4. Edits(more, a, b, A)
  BY <1>1, <1>2, <1>3 DEF Edits
<1>5. Good(a, b, d + 1, more)
  BY <1>2, <1>4 DEF Good
<1>6. QED
  BY <1>k, <1>5 DEF more

\* The last elements are kept together without an operation if they are equal.
LEMMA GoodSame ==
  ASSUME NEW a \in Nat \ {0}, NEW b \in Nat \ {0}, NEW d \in Nat, NEW ops \in Seq(Operation),
         Good(a - 1, b - 1, d, ops), word1[a] = word2[b]
  PROVE  Good(a, b, d, ops)
<1>1. PICK A \in Alignments(a - 1, b - 1) :
        Edits(ops, a - 1, b - 1, A) /\ d = Cost(a - 1, b - 1, A)
  BY DEF Good
<1>b. PICK B : B = A \cup {<< a - 1, b - 1 >>}
  OBVIOUS
<1>2. Joins(a, b, A, B)
  BY <1>b, LongerBoth
<1>3. QED
  BY <1>1, <1>2 DEF Good, Edits, Joins

\* The last elements are kept together by a replacement if they differ.
LEMMA GoodReplace ==
  ASSUME NEW a \in Nat \ {0}, NEW b \in Nat \ {0}, NEW d \in Nat, NEW ops \in Seq(Operation),
         NEW z \in Int, Good(a - 1, b - 1, d, ops), word1[a] # word2[b]
  PROVE  Good(a, b, d + 1, Append(ops, << a - 1, b - 1, z >>))
<1>1. PICK A \in Alignments(a - 1, b - 1) :
        Edits(ops, a - 1, b - 1, A) /\ d = Cost(a - 1, b - 1, A)
  BY DEF Good
<1> DEFINE more == Append(ops, << a - 1, b - 1, z >>)
<1>b. PICK B : B = A \cup {<< a - 1, b - 1 >>}
  OBVIOUS
<1>2. Joins(a, b, A, B)
  BY <1>b, LongerBoth
<1>3. /\ Removed(more) = Removed(ops) /\ Inserted(more) = Inserted(ops)
      /\ Replaced(more) = Replaced(ops) \cup {<< a - 1, b - 1 >>}
  <2>1. a - 1 \in Int /\ b - 1 \in Int /\ a - 1 >= 0
    OBVIOUS
  <2>2. /\ Inserted(more) = Inserted(ops) \cup (IF a - 1 = -2 THEN {b - 1} ELSE {})
        /\ Removed(more) = Removed(ops) \cup (IF a - 1 = -1 THEN {b - 1} ELSE {})
        /\ Replaced(more)
             = Replaced(ops) \cup (IF a - 1 >= 0 THEN {<< a - 1, b - 1 >>} ELSE {})
    BY <2>1, PushedTo
  <2> HIDE DEF more
  <2>3. QED
    BY <2>1, <2>2
<1> HIDE DEF more
<1>4. Edits(more, a, b, B)
  BY <1>1, <1>2, <1>3 DEF Edits, Joins
<1>5. Good(a, b, d + 1, more)
  BY <1>1, <1>2, <1>4 DEF Good, Joins
<1>6. QED
  BY <1>5 DEF more

\* The least of what the three neighbours offer is the least of all.
LEMMA NoBetterCell ==
  ASSUME NEW a \in Nat \ {0}, NEW b \in Nat \ {0},
         NEW up \in Nat, NEW left \in Nat, NEW diagonal \in Nat, NEW dis \in Nat,
         NoBetter(a - 1, b, up), NoBetter(a, b - 1, left), NoBetter(a - 1, b - 1, diagonal),
         dis <= up + 1, dis <= left + 1,
         dis <= IF word1[a] = word2[b] THEN diagonal ELSE diagonal + 1
  PROVE  NoBetter(a, b, dis)
<1> SUFFICES ASSUME NEW B \in Alignments(a, b) PROVE dis <= Cost(a, b, B)
  BY DEF NoBetter
<1>1. a - 1 \in Nat /\ b - 1 \in Nat
  OBVIOUS
<1>2. CASE B \in Alignments(a - 1, b)
  <2>1. up <= Cost(a - 1, b, B) /\ Cost(a, b, B) = Cost(a - 1, b, B) + 1
    BY <1>2, LongerFirst DEF NoBetter
  <2>2. Cost(a - 1, b, B) \in Int
    BY <1>1, <1>2, AlignmentTypes
  <2>3. QED
    BY <2>1, <2>2
<1>3. CASE B \in Alignments(a, b - 1)
  <2>1. left <= Cost(a, b - 1, B) /\ Cost(a, b, B) = Cost(a, b - 1, B) + 1
    BY <1>3, LongerSecond DEF NoBetter
  <2>2. Cost(a, b - 1, B) \in Int
    BY <1>1, <1>3, AlignmentTypes
  <2>3. QED
    BY <2>1, <2>2
<1>4. CASE \E A \in Alignments(a - 1, b - 1) : B = A \cup {<< a - 1, b - 1 >>}
  <2>1. PICK A \in Alignments(a - 1, b - 1) : B = A \cup {<< a - 1, b - 1 >>}
    BY <1>4
  <2>2. diagonal <= Cost(a - 1, b - 1, A) /\ Cost(a - 1, b - 1, A) \in Int
    BY <1>1, <2>1, AlignmentTypes DEF NoBetter
  <2>3. Cost(a, b, B) = IF word1[a] = word2[b] THEN Cost(a - 1, b - 1, A)
                                               ELSE Cost(a - 1, b - 1, A) + 1
    <3>1. Joins(a, b, A, B)
      BY <2>1, LongerBoth
    <3>2. QED
      BY <3>1 DEF Joins
  <2>4. QED
    BY <2>2, <2>3
<1>5. QED
  BY <1>2, <1>3, <1>4, LastElements

\* With an empty prefix as many operations are needed as the other has elements.
LEMMA NoBetterEdge ==
  ASSUME NEW a \in Nat, NEW b \in Nat, a = 0 \/ b = 0
  PROVE  NoBetter(a, b, a + b)
<1>1. Alignments(a, b) = {{}} /\ Cost(a, b, {}) = a + b
  BY EmptyAlignment
<1>2. QED
  BY <1>1 DEF NoBetter

Cell(a, b) ==
  /\ Good(a, b, dis_map[a][b], pass[a][b])
  /\ NoBetter(a, b, dis_map[a][b])

\* Each cell the loops have been through holds the operations of a cheapest
\* alignment of its prefixes.
BestInv == \A a \in 0 .. size1, b \in 0 .. size2 : Filled(a, b) => Cell(a, b)

\* What a cell holds is good for the same words in the next state.
LEMMA CellKept ==
  ASSUME UNCHANGED << word1, word2 >>, NEW a, NEW b, NEW dis, NEW ops,
         Good(a, b, dis, ops), NoBetter(a, b, dis),
         dis_map'[a][b] = dis, pass'[a][b] = ops
  PROVE  Cell(a, b)'
<1>1. \A A : Mismatches(A)' = Mismatches(A)
  BY DEF Mismatches
<1>2. \A A : Cost(a, b, A)' = Cost(a, b, A)
  BY <1>1 DEF Cost
<1>3. Good(a, b, dis_map[a][b], pass[a][b])'
  BY <1>1, <1>2 DEF Good, Edits
<1>4. NoBetter(a, b, dis_map[a][b])'
  BY <1>2 DEF NoBetter
<1>5. QED
  BY <1>3, <1>4 DEF Cell

\* Filling a cell well keeps all filled cells well filled.
LEMMA BestStep ==
  ASSUME Inv, BestInv,
         NEW a \in 0 .. size1, NEW b \in 0 .. size2, NEW dis \in Nat,
         NEW ops \in Seq(Operation), Fill(a, b, dis, ops),
         Good(a, b, dis, ops), NoBetter(a, b, dis),
         \A c \in 0 .. size1, d \in 0 .. size2 :
           Filled(c, d)' => Filled(c, d) \/ (c = a /\ d = b)
  PROVE  BestInv'
<1>1. /\ size1' = size1 /\ size2' = size2
      /\ UNCHANGED << word1, word2, edit_pass_result >>
      /\ dis_map'[a][b] = dis /\ pass'[a][b] = ops
      /\ \A c \in 0 .. size1, d \in 0 .. size2 :
           c # a \/ d # b => /\ dis_map'[c][d] = dis_map[c][d]
                             /\ pass'[c][d] = pass[c][d]
  BY FillCorrect DEF Inv
<1>2. ASSUME NEW c \in 0 .. size1, NEW d \in 0 .. size2, Filled(c, d)'
      PROVE  Cell(c, d)'
  <2>1. CASE c = a /\ d = b
    BY <1>1, <2>1, CellKept
  <2>2. CASE c # a \/ d # b
    <3>1. Good(c, d, dis_map[c][d], pass[c][d]) /\ NoBetter(c, d, dis_map[c][d])
      BY <1>2, <2>2 DEF BestInv, Cell
    <3>2. dis_map'[c][d] = dis_map[c][d] /\ pass'[c][d] = pass[c][d]
      BY <1>1, <2>2
    <3>3. QED
      BY <1>1, <3>1, <3>2, CellKept
  <2>3. QED
    BY <2>1, <2>2
<1>3. QED
  BY <1>1, <1>2 DEF BestInv

\* A step that fills no cell keeps them too.
LEMMA BestSame ==
  ASSUME BestInv, UNCHANGED << word1, word2, dis_map, pass >>,
         \A c \in 0 .. size1, d \in 0 .. size2 : Filled(c, d)' => Filled(c, d)
  PROVE  BestInv'
<1>1. size1' = size1 /\ size2' = size2
  BY DEF size1, size2
<1>2. ASSUME NEW c \in 0 .. size1, NEW d \in 0 .. size2, Filled(c, d)'
      PROVE  Cell(c, d)'
  <2>1. Good(c, d, dis_map[c][d], pass[c][d]) /\ NoBetter(c, d, dis_map[c][d])
    BY <1>2 DEF BestInv, Cell
  <2>2. QED
    BY <2>1, CellKept
<1>3. QED
  BY <1>1, <1>2 DEF BestInv

\* Whichever neighbour the cell is filled from, it is filled well.
LEMMA CellBest ==
  ASSUME Inv, BestInv, FillCell
  PROVE  \E dis \in Nat, ops \in Seq(Operation) :
           Fill(i, j, dis, ops) /\ Good(i, j, dis, ops) /\ NoBetter(i, j, dis)
<1>1. EditTypeOK /\ TableInv
  BY DEF Inv
<1>2. /\ at = "cells" /\ i \in 1 .. size1 /\ j \in 1 .. size2
      /\ size1 \in Nat /\ size2 \in Nat
  <2>1. size1 \in Nat /\ size2 \in Nat /\ i \in Nat \ {0} /\ j \in Nat \ {0}
    BY <1>1 DEF EditTypeOK, size1, size2
  <2>2. at = "cells" /\ i <= size1 /\ j <= size2
    BY Zenon DEF FillCell
  <2>3. QED
    BY <2>1, <2>2
<1>3. PICK a \in Nat \ {0}, b \in Nat \ {0} : a = i /\ b = j
  BY <1>2
<1>4. /\ a - 1 \in 0 .. size1 /\ b - 1 \in 0 .. size2
      /\ a \in 0 .. size1 /\ b \in 0 .. size2
      /\ a - 1 \in Int /\ b - 1 \in Int
  BY <1>2, <1>3
<1>5. PICK up \in Nat, left \in Nat, diagonal \in Nat :
        up = dis_map[a - 1][b] /\ left = dis_map[a][b - 1] /\ diagonal = dis_map[a - 1][b - 1]
  <2>1. dis_map[a - 1][b] \in Nat /\ dis_map[a][b - 1] \in Nat /\ dis_map[a - 1][b - 1] \in Nat
    BY <1>1, <1>4, PushOperation
  <2>2. QED
    BY <2>1
<1>6. PICK upOps \in Seq(Operation), leftOps \in Seq(Operation), diagonalOps \in Seq(Operation) :
        /\ upOps = pass[a - 1][b] /\ leftOps = pass[a][b - 1]
        /\ diagonalOps = pass[a - 1][b - 1]
  <2>1. /\ pass[a - 1][b] \in Seq(Operation) /\ pass[a][b - 1] \in Seq(Operation)
        /\ pass[a - 1][b - 1] \in Seq(Operation)
    BY <1>1, <1>4, PushOperation
  <2>2. QED
    BY <2>1
<1>7. /\ Good(a - 1, b, up, upOps) /\ NoBetter(a - 1, b, up)
      /\ Good(a, b - 1, left, leftOps) /\ NoBetter(a, b - 1, left)
      /\ Good(a - 1, b - 1, diagonal, diagonalOps) /\ NoBetter(a - 1, b - 1, diagonal)
  <2>1. Filled(a - 1, b) /\ Filled(a, b - 1) /\ Filled(a - 1, b - 1)
    BY <1>2, <1>3 DEF Filled
  <2>2. Cell(a - 1, b) /\ Cell(a, b - 1) /\ Cell(a - 1, b - 1)
    BY <1>4, <2>1 DEF BestInv
  <2>3. QED
    BY <1>5, <1>6, <2>2 DEF Cell
<1>8. /\ Dis1 = up + 1 /\ Dis2 = left + 1
      /\ Same <=> word1[a] = word2[b]
      /\ Dis3 = IF word1[a] = word2[b] THEN diagonal ELSE diagonal + 1
  BY <1>3, <1>5 DEF Dis1, Dis2, Dis3, Same
<1>9. PICK dis \in Nat : dis = Least(Dis1, Least(Dis2, Dis3))
  BY <1>8 DEF Least
<1>10. dis <= up + 1 /\ dis <= left + 1 /\ dis <= Dis3 /\ dis \in {Dis1, Dis2, Dis3}
  BY <1>8, <1>9 DEF Least
<1>11. NoBetter(a, b, dis)
  BY <1>7, <1>8, <1>10, NoBetterCell
<1>12. CASE Dis1 = dis
  <2>1. Fill(a, b, dis, Append(upOps, << -2, a - 1, b - 1 >>))
    BY <1>3, <1>6, <1>9, <1>12 DEF FillCell
  <2>2. Good(a, b, dis, Append(upOps, << -2, a - 1, b - 1 >>))
    BY <1>4, <1>7, <1>8, <1>12, GoodInsert
  <2>3. Append(upOps, << -2, a - 1, b - 1 >>) \in Seq(Operation)
    BY <1>1, <1>4, <1>6, PushOperation
  <2>4. QED
    BY <1>3, <1>11, <2>1, <2>2, <2>3
<1>13. CASE Dis1 # dis /\ Dis2 = dis
  <2>1. Fill(a, b, dis, Append(leftOps, << -1, b - 1, b - 1 >>))
    BY <1>3, <1>6, <1>9, <1>13 DEF FillCell
  <2>2. Good(a, b, dis, Append(leftOps, << -1, b - 1, b - 1 >>))
    BY <1>4, <1>7, <1>8, <1>13, GoodRemove
  <2>3. Append(leftOps, << -1, b - 1, b - 1 >>) \in Seq(Operation)
    BY <1>1, <1>4, <1>6, PushOperation
  <2>4. QED
    BY <1>3, <1>11, <2>1, <2>2, <2>3
<1>14. CASE Dis1 # dis /\ Dis2 # dis
  <2>1. Dis3 = dis
    BY <1>10, <1>14
  <2>2. CASE word1[a] = word2[b]
    <3>1. Fill(a, b, dis, diagonalOps)
      BY <1>3, <1>6, <1>8, <1>9, <1>14, <2>2 DEF FillCell
    <3>2. Good(a, b, dis, diagonalOps)
      BY <1>7, <1>8, <2>1, <2>2, GoodSame
    <3>3. QED
      BY <1>3, <1>11, <3>1, <3>2
  <2>3. CASE word1[a] # word2[b]
    <3>1. Fill(a, b, dis, Append(diagonalOps, << a - 1, b - 1, b - 1 >>))
      BY <1>3, <1>6, <1>8, <1>9, <1>14, <2>3 DEF FillCell
    <3>2. Good(a, b, dis, Append(diagonalOps, << a - 1, b - 1, b - 1 >>))
      BY <1>4, <1>7, <1>8, <2>1, <2>3, GoodReplace
    <3>3. Append(diagonalOps, << a - 1, b - 1, b - 1 >>) \in Seq(Operation)
      BY <1>1, <1>4, <1>6, PushOperation
    <3>4. QED
      BY <1>3, <1>11, <3>1, <3>2, <3>3
  <2>4. QED
    BY <2>2, <2>3
<1>15. QED
  BY <1>12, <1>13, <1>14

\* The first cell is filled from the start, with no operations.
LEMMA InitBest == EditInit => BestInv
<1> SUFFICES ASSUME EditInit, NEW a \in 0 .. size1, NEW b \in 0 .. size2, Filled(a, b)
             PROVE  Cell(a, b)
  BY DEF BestInv
<1>1. size1 \in Nat /\ size2 \in Nat
  BY InitInv DEF Inv, EditTypeOK, size1, size2
<1>2. a = 0 /\ b = 0
  BY <1>1 DEF EditInit, Filled
<1>3. dis_map[a][b] = 0 /\ pass[a][b] = << >>
  BY DEF EditInit
<1>4. /\ Alignments(0, 0) = {{}} /\ Cost(0, 0, {}) = 0 /\ Mismatches({}) = {}
      /\ Unpaired1(0, {}) = {} /\ Unpaired2(0, {}) = {}
  BY EmptyAlignment
<1>5. ToSet(<< >>) = {}
  BY DEF ToSet
<1>6. Edits(<< >>, 0, 0, {})
  BY <1>4, <1>5 DEF Edits, Inserted, Removed, Replaced
<1>7. Good(0, 0, 0, << >>)
  BY <1>4, <1>6 DEF Good
<1>8. NoBetter(0, 0, 0)
  BY <1>4 DEF NoBetter
<1>9. QED
  BY <1>2, <1>3, <1>7, <1>8 DEF Cell

\* Every step keeps the filled cells good and without a better.
LEMMA StepBest == Inv /\ BestInv /\ [EditNext]_evars => BestInv'
<1> SUFFICES ASSUME Inv, BestInv, [EditNext]_evars PROVE BestInv'
  OBVIOUS
<1>1. EditTypeOK /\ TableInv /\ size1 \in Nat /\ size2 \in Nat /\ i \in Nat \ {0} /\ j \in Nat \ {0}
  BY DEF Inv, EditTypeOK, size1, size2
<1>2. CASE FillRow
  <2>1. at = "row" /\ at' = "row" /\ i' = i + 1 /\ j' = j /\ i \in 1 .. size2
    BY <1>1, <1>2 DEF FillRow
  <2>2. PICK b \in Nat \ {0} : b = i
    BY <1>1
  <2>3. 0 \in 0 .. size1 /\ b - 1 \in 0 .. size2 /\ b \in 0 .. size2 /\ Filled(0, b - 1)
    BY <1>1, <2>1, <2>2 DEF Filled
  <2>4. PICK ops \in Seq(Operation) : ops = pass[0][b - 1]
    <3>1. pass[0][b - 1] \in Seq(Operation)
      BY <1>1, <2>3 DEF EditTypeOK, Table
    <3>2. QED
      BY <3>1
  <2>5. dis_map[0][b - 1] = b - 1
    BY <1>1, <2>3 DEF TableInv, Bounded
  <2>6. Good(0, b - 1, b - 1, ops)
    BY <2>3, <2>4, <2>5 DEF BestInv, Cell
  <2> DEFINE more == Append(ops, << -1, b - 1, 0 >>)
  <2>7. Good(0, b, b, more)
    <3>1. b - 1 \in Nat /\ (b - 1) + 1 = b
      OBVIOUS
    <3>2. Good(0, b, (b - 1) + 1, more)
      BY <2>6, <3>1, GoodRemove
    <3>3. QED
      BY <3>1, <3>2
  <2>8. NoBetter(0, b, b)
    <3>1. NoBetter(0, b, 0 + b) /\ 0 + b = b
      BY NoBetterEdge
    <3>2. QED
      BY <3>1
  <2>9. more \in Seq(Operation)
    <3>1. -1 \in Int /\ b - 1 \in Int
      OBVIOUS
    <3>2. QED
      BY <1>1, <2>3, <2>4, <3>1, PushOperation
  <2>10. Fill(0, b, b, more)
    BY <1>2, <2>2, <2>4 DEF FillRow
  <2>11. \A c \in 0 .. size1, d \in 0 .. size2 :
           Filled(c, d)' => Filled(c, d) \/ (c = 0 /\ d = b)
    BY <1>1, <2>1, <2>2 DEF Filled
  <2> HIDE DEF more
  <2>12. QED
    BY <2>3, <2>7, <2>8, <2>9, <2>10, <2>11, BestStep
<1>3. CASE FillColumn
  <2>1. at = "column" /\ at' = "column" /\ j' = j + 1 /\ i' = i /\ j \in 1 .. size1
    BY <1>1, <1>3 DEF FillColumn
  <2>2. PICK a \in Nat \ {0} : a = j
    BY <1>1
  <2>3. 0 \in 0 .. size2 /\ a - 1 \in 0 .. size1 /\ a \in 0 .. size1 /\ Filled(a - 1, 0)
    BY <1>1, <2>1, <2>2 DEF Filled
  <2>4. PICK ops \in Seq(Operation) : ops = pass[a - 1][0]
    <3>1. pass[a - 1][0] \in Seq(Operation)
      BY <1>1, <2>3 DEF EditTypeOK, Table
    <3>2. QED
      BY <3>1
  <2>5. dis_map[a - 1][0] = a - 1
    BY <1>1, <2>3 DEF TableInv, Bounded
  <2>6. Good(a - 1, 0, a - 1, ops)
    BY <2>3, <2>4, <2>5 DEF BestInv, Cell
  <2> DEFINE more == Append(ops, << -2, a - 1, a - 1 >>)
  <2>7. Good(a, 0, a, more)
    <3>1. a - 1 \in Nat /\ (a - 1) + 1 = a
      OBVIOUS
    <3>2. Good(a, 0, (a - 1) + 1, more)
      BY <2>6, <3>1, GoodInsert
    <3>3. QED
      BY <3>1, <3>2
  <2>8. NoBetter(a, 0, a)
    <3>1. NoBetter(a, 0, a + 0) /\ a + 0 = a
      BY NoBetterEdge
    <3>2. QED
      BY <3>1
  <2>9. more \in Seq(Operation)
    <3>1. -2 \in Int /\ a - 1 \in Int
      OBVIOUS
    <3>2. QED
      BY <1>1, <2>3, <2>4, <3>1, PushOperation
  <2>10. Fill(a, 0, a, more)
    BY <1>3, <2>2, <2>4 DEF FillColumn
  <2>11. \A c \in 0 .. size1, d \in 0 .. size2 :
           Filled(c, d)' => Filled(c, d) \/ (c = a /\ d = 0)
    BY <1>1, <2>1, <2>2 DEF Filled
  <2> HIDE DEF more
  <2>12. QED
    BY <2>3, <2>7, <2>8, <2>9, <2>10, <2>11, BestStep
<1>4. CASE FillCell
  <2>1. /\ at = "cells" /\ at' = "cells" /\ j' = j + 1 /\ i' = i
        /\ i \in 1 .. size1 /\ j \in 1 .. size2
    BY <1>1, <1>4 DEF FillCell
  <2>2. PICK dis \in Nat, ops \in Seq(Operation) :
          Fill(i, j, dis, ops) /\ Good(i, j, dis, ops) /\ NoBetter(i, j, dis)
    BY <1>4, CellBest
  <2>3. PICK a \in 0 .. size1, b \in 0 .. size2 : a = i /\ b = j
    BY <1>1, <2>1
  <2>4. Fill(a, b, dis, ops) /\ Good(a, b, dis, ops) /\ NoBetter(a, b, dis)
    BY <2>2, <2>3
  <2>5. \A c \in 0 .. size1, d \in 0 .. size2 :
          Filled(c, d)' => Filled(c, d) \/ (c = a /\ d = b)
    BY <1>1, <2>1, <2>3 DEF Filled
  <2>6. QED
    BY <2>4, <2>5, BestStep
<1>5. CASE RowDone
  <2>1. \A c \in 0 .. size1, d \in 0 .. size2 : Filled(c, d)' => Filled(c, d)
    BY <1>1, <1>5 DEF RowDone, Filled
  <2>2. QED
    BY <1>5, <2>1, BestSame DEF RowDone
<1>6. CASE ColumnDone
  <2>1. \A c \in 0 .. size1, d \in 0 .. size2 : Filled(c, d)' => Filled(c, d)
    BY <1>1, <1>6 DEF ColumnDone, Filled
  <2>2. QED
    BY <1>6, <2>1, BestSame DEF ColumnDone
<1>7. CASE CellsRowDone
  <2>1. \A c \in 0 .. size1, d \in 0 .. size2 : Filled(c, d)' => Filled(c, d)
    BY <1>1, <1>7 DEF CellsRowDone, Filled
  <2>2. QED
    BY <1>7, <2>1, BestSame DEF CellsRowDone
<1>8. CASE CellsDone
  <2>1. \A c \in 0 .. size1, d \in 0 .. size2 : Filled(c, d)' => Filled(c, d)
    BY <1>1, <1>8 DEF CellsDone, Filled
  <2>2. QED
    BY <1>8, <2>1, BestSame DEF CellsDone
<1>9. CASE CopyTuple \/ Return
  <2>1. \A c \in 0 .. size1, d \in 0 .. size2 : Filled(c, d)' => Filled(c, d)
    BY <1>9 DEF CopyTuple, Return, Filled
  <2>2. QED
    BY <1>9, <2>1, BestSame DEF CopyTuple, Return
<1>10. CASE UNCHANGED evars
  <2>1. \A c \in 0 .. size1, d \in 0 .. size2 : Filled(c, d)' => Filled(c, d)
    BY <1>10 DEF evars, Filled
  <2>2. QED
    BY <1>10, <2>1, BestSame DEF evars
<1>11. QED
  BY <1>2, <1>3, <1>4, <1>5, <1>6, <1>7, <1>8, <1>9, <1>10 DEF EditNext

\* When the loops have ended, the last cell is the best of all alignments.
LEMMA LastBest ==
  ASSUME Inv, BestInv, at = "done"
  PROVE  Good(size1, size2, Len(Script), Script) /\ NoBetter(size1, size2, Len(Script))
<1>1. size1 \in 0 .. size1 /\ size2 \in 0 .. size2 /\ Filled(size1, size2)
  BY DEF Inv, EditTypeOK, size1, size2, Filled
<1>2. Len(Script) = dis_map[size1][size2]
  BY <1>1 DEF Inv, TableInv, Script
<1>3. QED
  BY <1>1, <1>2 DEF BestInv, Cell, Script

\* For all words, the operations returned turn word2 into word1: what they
\* insert, remove and replace is what some alignment of the words leaves over.
THEOREM ScriptIsEditAlways == EditSpec => []ScriptIsEdit
<1>1. Inv /\ BestInv => ScriptIsEdit
  BY LastBest DEF ScriptIsEdit, Good
<1>2. QED
  BY <1>1, InitInv, StepInv, InitBest, StepBest, PTL DEF EditSpec

\* For all words, no alignment takes fewer operations than were returned.
THEOREM ScriptIsShortestAlways == EditSpec => []ScriptIsShortest
<1>1. Inv /\ BestInv => ScriptIsShortest
  <2>1. SUFFICES ASSUME Inv, BestInv, at = "done" PROVE Len(Script) = Distance
    BY DEF ScriptIsShortest
  <2>2. Good(size1, size2, Len(Script), Script) /\ NoBetter(size1, size2, Len(Script))
    BY <2>1, LastBest
  <2>3. size1 \in Nat /\ size2 \in Nat /\ Len(Script) \in Nat
    BY <2>1, LastCell DEF Inv, EditTypeOK, size1, size2
  <2> DEFINE Costs == { Cost(size1, size2, A) : A \in Alignments(size1, size2) }
  <2>4. Len(Script) \in Costs /\ Costs \subseteq Int /\ \A c \in Costs : Len(Script) <= c
    BY <2>2, <2>3, AlignmentTypes DEF Good, NoBetter
  <2>5. Min(Costs) \in Costs /\ \A c \in Costs : Min(Costs) <= c
    <3> HIDE DEF Costs
    <3>1. \E x \in Costs : \A c \in Costs : x <= c
      BY <2>4
    <3>2. QED
      BY <3>1 DEF Min
  <2>6. Len(Script) <= Min(Costs) /\ Min(Costs) <= Len(Script) /\ Min(Costs) \in Int
    <3> HIDE DEF Costs
    <3>1. QED
      BY <2>4, <2>5
  <2>7. Len(Script) = Min(Costs)
    <3> HIDE DEF Costs
    <3>1. QED
      BY <2>3, <2>6
  <2>8. QED
    BY <2>7 DEF Distance
<1>2. QED
  BY <1>1, InitInv, StepInv, InitBest, StepBest, PTL DEF EditSpec
=============================================================================
