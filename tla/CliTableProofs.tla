--------------------------- MODULE CliTableProofs ---------------------------
(* Proofs about the tables of src/util.rs, for any number of rows. *)
EXTENDS CliTable, NumberSets, SequenceTheorems

(* The tables of the `versions` command have three columns or four.         *)
ColumnCounts == {3, 4}

-----------------------------------------------------------------------------
(* The folds of the model.                                                 *)

(* The sum of the numbers at some places.                                   *)
Part(f, s, i) == IF i \in s THEN f[i] ELSE 0
Total(f, s) == Part(f, s, 1) + Part(f, s, 2) + Part(f, s, 3) + Part(f, s, 4)

(* What a fold over a set answers is what its recursion says.               *)
LEMMA SumIsTotal ==
    ASSUME NEW n \in ColumnCounts, NEW f \in [1..n -> Int]
    PROVE  SumFunction(f) = Total(f, 1..n)
<1> DEFINE S == 1..n
           Step(g, s) == IF s = {} THEN 0
                         ELSE LET x == CHOOSE x \in s : TRUE IN f[x] + g[s \ {x}]
           iter == CHOOSE g : g = [s \in SUBSET S |-> Step(g, s)]
           total == [s \in SUBSET S |-> Total(f, s)]
<1>1. SumFunction(f) = iter[S]
  BY DEF SumFunction, SumFunctionOnSet, FoldFunctionOnSet, MapThenFoldSet
<1>2. S \subseteq {1, 2, 3, 4} /\ f \in [S -> Int]
  BY DEF ColumnCounts
<1>3. ASSUME NEW s \in SUBSET S, NEW x \in s
      PROVE  Total(f, s) = f[x] + Total(f, s \ {x})
  <2>1. \A i \in {1, 2, 3, 4} :
           /\ Part(f, s, i) \in Int
           /\ i # x => Part(f, s \ {x}, i) = Part(f, s, i)
    BY <1>2 DEF Part
  <2>2. Part(f, s, x) = f[x] /\ Part(f, s \ {x}, x) = 0 /\ x \in {1, 2, 3, 4}
    BY <1>2 DEF Part
  <2> QED
    BY <2>1, <2>2 DEF Total
<1>4. total = [s \in SUBSET S |-> Step(total, s)]
  <2> SUFFICES ASSUME NEW s \in SUBSET S PROVE Total(f, s) = Step(total, s)
    OBVIOUS
  <2>1. CASE s = {}
    BY <2>1 DEF Total, Part
  <2>2. CASE s # {}
    <3> DEFINE x == CHOOSE x \in s : TRUE
    <3>1. x \in s /\ s \ {x} \in SUBSET S
      BY <2>2
    <3>2. Step(total, s) = f[x] + total[s \ {x}]
      BY <2>2
    <3> HIDE DEF x
    <3> QED
      BY <1>3, <3>1, <3>2
  <2> QED
    BY <2>1, <2>2
<1>5. iter = [s \in SUBSET S |-> Step(iter, s)]
  <2> HIDE DEF Step, total
  <2> QED
    BY <1>4
<1>6. iter[S] = Total(f, S)
  <2> DEFINE Wrong == {s \in SUBSET S : iter[s] # Total(f, s)}
  <2>1. SUFFICES ASSUME Wrong # {} PROVE FALSE
    OBVIOUS
  <2>2. IsWellFoundedOn(StrictSubsetOrdering(S), SUBSET S)
    <3>1. IsFiniteSet(S)
      BY FS_Interval DEF ColumnCounts
    <3> HIDE DEF S
    <3>2. FiniteSubsetsOf(S) = SUBSET S
      BY <3>1, FS_FiniteSubsetsOfFinite
    <3> QED
      BY <3>2, FS_StrictSubsetOrderingWellFounded
  <2>3. PICK s \in Wrong : \A t \in Wrong : <<t, s>> \notin StrictSubsetOrdering(S)
    <3> HIDE DEF Wrong, S
    <3>1. Wrong \subseteq SUBSET S
      BY DEF Wrong
    <3> QED
      BY <2>1, <2>2, <3>1, WFMin
  <2>4. s \in SUBSET S /\ iter[s] = Step(iter, s)
    <3> HIDE DEF Step, iter
    <3> QED
      BY <1>5
  <2>5. CASE s = {}
    BY <2>4, <2>5 DEF Total, Part
  <2>6. CASE s # {}
    <3> DEFINE x == CHOOSE x \in s : TRUE
               t == s \ {x}
    <3>1. x \in s /\ t \in SUBSET S /\ t # s /\ t \subseteq s
      BY <2>4, <2>6
    <3>2. iter[s] = f[x] + iter[t]
      <4> HIDE DEF iter
      <4> QED
        BY <2>4, <2>6
    <3> HIDE DEF x, t, iter, Wrong
    <3>3. <<t, s>> \in StrictSubsetOrdering(S)
      BY <2>4, <3>1 DEF StrictSubsetOrdering
    <3>4. iter[t] = Total(f, t)
      BY <2>3, <3>1, <3>3 DEF Wrong
    <3>5. Total(f, s) = f[x] + Total(f, t)
      BY <1>3, <2>4, <3>1 DEF t
    <3> QED
      BY <2>3, <3>2, <3>4, <3>5 DEF Wrong
  <2> QED
    BY <2>5, <2>6
<1> QED
  BY <1>1, <1>6

-----------------------------------------------------------------------------
(* Tables whose rows fit their columns.                                    *)

Rows(c) == Seq([1..c -> Nat])
Sized(table, c) ==
    /\ table.columnNames \in [1..c -> Nat \ {0}]
    /\ table.rows \in Rows(c)

(* calculate_max_widths: no cell is wider than its column.                  *)
LEMMA WidthsSuffice ==
    ASSUME NEW c \in ColumnCounts, NEW table, Sized(table, c)
    PROVE  /\ CalculateMaxWidths(table) \in [1..c -> Nat]
           /\ \A i \in 1..c :
                 /\ table.columnNames[i] <= CalculateMaxWidths(table)[i]
                 /\ \A r \in DOMAIN table.rows : table.rows[r][i] <= CalculateMaxWidths(table)[i]
<1> DEFINE names == table.columnNames
           rows == table.rows
           n == Len(rows)
<1>1. /\ names \in [1..c -> Nat] /\ DOMAIN names = 1..c
      /\ n \in Nat /\ DOMAIN rows = 1..n /\ \A r \in 1..n : rows[r] \in [1..c -> Nat]
  BY DEF Sized, Rows
<1>2. ASSUME NEW i \in 1..c
      PROVE  /\ CalculateMaxWidths(table)[i] \in Nat
             /\ names[i] <= CalculateMaxWidths(table)[i]
             /\ \A r \in 1..n : rows[r][i] <= CalculateMaxWidths(table)[i]
  <2> DEFINE cells == {rows[r][i] : r \in DOMAIN rows}
             f == [r \in 1..n |-> rows[r][i]]
  <2>1. f \in Surjection(1..n, cells)
    BY <1>1 DEF Surjection
  <2>2. IsFiniteSet(1..n)
    BY <1>1, FS_Interval
  <2> HIDE DEF f
  <2>3. IsFiniteSet(cells)
    <3> HIDE DEF cells
    <3> QED
      BY <2>1, <2>2, FS_Surjection
  <2>4. cells \in SUBSET Nat
    <3>1. ASSUME NEW r \in 1..n PROVE rows[r][i] \in Nat
      <4>1. rows[r] \in [1..c -> Nat]
        BY <1>1
      <4> QED
        BY <4>1
    <3> HIDE DEF rows, n
    <3> QED
      BY <1>1, <3>1
  <2> DEFINE S == {names[i]} \cup cells
  <2>5. S \in SUBSET Nat /\ S # {} /\ IsFiniteSet(S)
    <3>1. S = cells \cup {names[i]}
      OBVIOUS
    <3>2. IsFiniteSet(cells \cup {names[i]})
      <4> HIDE DEF cells
      <4> QED
        BY <2>3, FS_AddElement
    <3> QED
      BY <1>1, <2>4, <3>1, <3>2
  <2>6. CalculateMaxWidths(table)[i] = Max(S)
    BY <1>1 DEF CalculateMaxWidths, Columns
  <2>7. Max(S) \in S /\ \A y \in S : Max(S) >= y
    <3> HIDE DEF S
    <3> QED
      BY <2>5, GreatestMember
  <2>8. \A y \in S : y \in Nat /\ y <= CalculateMaxWidths(table)[i]
    <3> HIDE DEF S
    <3> QED
      BY <2>5, <2>6, <2>7
  <2> QED
    BY <1>1, <2>5, <2>6, <2>7, <2>8
<1>3. CalculateMaxWidths(table) = [i \in 1..c |-> CalculateMaxWidths(table)[i]]
  BY <1>1 DEF CalculateMaxWidths, Columns
<1> QED
  BY <1>1, <1>2, <1>3

(* CliTableRow::write: a row that fits its columns is as wide as they are.  *)
LEMMA LineIsFull ==
    ASSUME NEW c \in ColumnCounts, NEW row \in [1..c -> Nat], NEW widths \in [1..c -> Nat],
           \A i \in 1..c : row[i] <= widths[i]
    PROVE  Line(row, widths) = SumFunction(widths) + BorderWidths(c)
<1> DEFINE f == [i \in DOMAIN row |-> row[i] + (widths[i] - row[i]) + 3]
<1>1. DOMAIN row = 1..c /\ ~\E i \in DOMAIN row : row[i] > widths[i]
  OBVIOUS
<1>2. f \in [1..c -> Int] /\ widths \in [1..c -> Int] /\ \A i \in 1..c : f[i] = widths[i] + 3
  BY <1>1
<1>3. Line(row, widths) = SumFunction(f) + 1
  BY <1>1 DEF Line
<1> HIDE DEF f
<1>4. SumFunction(f) = Total(f, 1..c) /\ SumFunction(widths) = Total(widths, 1..c)
  BY <1>2, SumIsTotal
<1>5. Total(f, 1..c) = Total(widths, 1..c) + 3 * c
  <2>1. \A i \in {1, 2, 3, 4} :
           /\ Part(widths, 1..c, i) \in Int
           /\ Part(f, 1..c, i) = Part(widths, 1..c, i) + (IF i \in 1..c THEN 3 ELSE 0)
    BY <1>2 DEF Part
  <2>2. CASE c = 3
    BY <2>1, <2>2 DEF Total
  <2>3. CASE c = 4
    BY <2>1, <2>3 DEF Total
  <2> QED
    BY <2>2, <2>3 DEF ColumnCounts
<1>6. Total(widths, 1..c) \in Int /\ c \in Int
  <2>1. \A i \in {1, 2, 3, 4} : Part(widths, 1..c, i) \in Int
    BY <1>2 DEF Part
  <2> QED
    BY <2>1 DEF Total, ColumnCounts
<1> QED
  BY <1>3, <1>4, <1>5, <1>6 DEF BorderWidths

(* Display: a rule and every row are as long as the line of column names,   *)
(* none of them overflows.                                                  *)
LEMMA TableIsAligned ==
    ASSUME NEW c \in ColumnCounts, NEW table, Sized(table, c)
    PROVE  /\ RowsFit(table)
           /\ Len(Lines(table)) = Len(table.rows) + 2
           /\ \A i \in DOMAIN Lines(table) :
                 Lines(table)[i] # Underflow /\ Lines(table)[i] = Lines(table)[1]
<1> DEFINE names == table.columnNames
           rows == table.rows
           n == Len(rows)
           widths == CalculateMaxWidths(table)
           width == SumFunction(widths) + BorderWidths(c)
           body == [r \in DOMAIN rows |-> Line(rows[r], widths)]
           top == <<width, width>>
<1>1. /\ names \in [1..c -> Nat] /\ DOMAIN names = 1..c /\ names[1] # 0
      /\ rows \in Seq([1..c -> Nat])
  BY DEF Sized, Rows, ColumnCounts
<1>2. n \in Nat /\ DOMAIN rows = 1..n /\ \A r \in 1..n : rows[r] \in [1..c -> Nat]
  BY <1>1
<1>3. /\ widths \in [1..c -> Nat]
      /\ \A i \in 1..c : names[i] <= widths[i] /\ \A r \in 1..n : rows[r][i] <= widths[i]
  BY <1>2, WidthsSuffice
<1> HIDE DEF widths, names, rows, n
<1>4. Line(names, widths) = width
  BY <1>1, <1>3, LineIsFull
<1>5. \A r \in 1..n : Line(rows[r], widths) = width
  BY <1>2, <1>3, LineIsFull
<1>6. Len(names) = c
  BY <1>1 DEF ColumnCounts
<1>7. width \in Nat
  <2>1. widths \in [1..c -> Int]
    BY <1>3
  <2>2. SumFunction(widths) = Total(widths, 1..c)
    BY <2>1, SumIsTotal
  <2>3. \A i \in {1, 2, 3, 4} : Part(widths, 1..c, i) \in Nat
    BY <1>3 DEF Part
  <2> QED
    BY <2>2, <2>3 DEF Total, BorderWidths, ColumnCounts
<1>8. Lines(table) = top \o body
  <2>1. Columns(table) = 1..c /\ ~\A i \in Columns(table) : names[i] = 0
    <3>1. 1 \in 1..c
      BY DEF ColumnCounts
    <3> QED
      BY <1>1, <3>1 DEF Columns, names
  <2>2. SumFunction(widths) + BorderWidths(Len(names)) = width
    BY <1>6
  <2> QED
    BY <1>4, <2>1, <2>2 DEF Lines, names, rows, widths
<1> HIDE DEF width
<1>9. /\ top \in Seq(Nat) /\ Len(top) = 2 /\ top[1] = width /\ top[2] = width
      /\ body \in Seq(Nat) /\ Len(body) = n /\ \A r \in 1..n : body[r] = width
  <2>1. body \in [1..n -> Nat] /\ \A r \in 1..n : body[r] = width
    BY <1>2, <1>5, <1>7
  <2> QED
    BY <1>2, <1>7, <2>1
<1> HIDE DEF top, body
<1>10. /\ Len(top \o body) = 2 + n /\ DOMAIN (top \o body) = 1..(2 + n)
       /\ \A i \in 1..(2 + n) : (top \o body)[i] = width
  <2>1. /\ top \o body \in Seq(Nat) /\ Len(top \o body) = 2 + n
        /\ \A i \in 1..(2 + n) : (top \o body)[i] = IF i <= 2 THEN top[i] ELSE body[i - 2]
    <3>1. top \in Seq(Nat) /\ body \in Seq(Nat) /\ Len(top) = 2 /\ Len(body) = n
      BY <1>9
    <3>2. /\ top \o body \in Seq(Nat) /\ Len(top \o body) = Len(top) + Len(body)
          /\ \A i \in 1..(Len(top) + Len(body)) :
                (top \o body)[i] = IF i <= Len(top) THEN top[i] ELSE body[i - Len(top)]
      BY <3>1, ConcatProperties
    <3> QED
      BY <3>1, <3>2
  <2>2. ASSUME NEW i \in 1..(2 + n) PROVE (top \o body)[i] = width
    <3>1. CASE i <= 2
      BY <1>2, <1>9, <2>1, <3>1
    <3>2. CASE ~(i <= 2)
      <4>1. i - 2 \in 1..n
        BY <1>2, <3>2
      <4> QED
        BY <1>9, <2>1, <3>2, <4>1
    <3> QED
      BY <3>1, <3>2
  <2> QED
    BY <1>2, <2>1, <2>2
<1>11. RowsFit(table)
  BY <1>1, <1>2 DEF RowsFit, Columns, names, rows
<1>12. \A i \in DOMAIN Lines(table) :
           Lines(table)[i] # Underflow /\ Lines(table)[i] = Lines(table)[1]
  BY <1>2, <1>7, <1>8, <1>10 DEF Underflow
<1> QED
  BY <1>2, <1>8, <1>10, <1>11, <1>12 DEF n, rows
=============================================================================
