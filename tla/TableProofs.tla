----------------------------- MODULE TableProofs -----------------------------
(***************************************************************************)
(* Theorems about tables of every size and every program.                  *)
(***************************************************************************)
EXTENDS TableProps, FiniteSetTheorems, WellFoundedInduction, TLAPS

USE NumRowsAssumption, NumColumnsAssumption, WidthAssumption, IdsAssumption

(***************************************************************************)
(* The operators.                                                          *)
(***************************************************************************)
\* A set of natural numbers that is not empty has a least element, the one
\* that Min returns.
LEMMA MinOfNats ==
  ASSUME NEW S, S \subseteq Nat, S # {}
  PROVE  Min(S) \in S /\ \A x \in S : Min(S) <= x
<1>1. PICK m \in S : \A x \in S : ~ (<<x, m>> \in OpToRel(<, Nat))
  BY NatLessThanWellFounded, WFMin
<1>2. ASSUME NEW x \in S
      PROVE  m <= x
  <2>1. <<x, m>> \in Nat \X Nat
    OBVIOUS
  <2>2. <<x, m>> \in OpToRel(<, Nat) <=> x < m
    BY <2>1 DEF OpToRel
  <2>3. ~(x < m)
    BY <1>1, <2>2, Zenon
  <2>4. m \in Nat /\ x \in Nat
    OBVIOUS
  <2>5. QED
    BY <2>3, <2>4
<1>3. QED
  BY <1>2 DEF Min

\* The elements of a row lie inside their column.
LEMMA ScaledOrder ==
  ASSUME NEW w \in Nat, NEW m \in Int, NEW n \in Int, m <= n
  PROVE  w * m <= w * n
  OBVIOUS

LEMMA SpanInColumn ==
  ASSUME NEW w \in Nat \ {0}, NEW n \in Nat, NEW row \in 0 .. n - 1
  PROVE  Span(w, row) \subseteq 0 .. n * w - 1
<1>1. w * 0 <= w * row /\ w * (row + 1) <= w * n
  BY ScaledOrder
<1>2. w * (row + 1) = w * row + w /\ w * n = n * w /\ w * 0 = 0
  OBVIOUS
<1>3. w * row \in Int /\ n * w \in Int
  OBVIOUS
<1>4. QED
  BY <1>1, <1>2, <1>3 DEF Span

\* The elements of two rows share no cell.
LEMMA SpansApart ==
  ASSUME NEW w \in Nat \ {0}, NEW m \in Nat, NEW n \in Nat, m # n, NEW b \in 0 .. w - 1
  PROVE  w * m + b \notin Span(w, n)
<1>1. w * m \in Int /\ w * n \in Int /\ w * (m + 1) = w * m + w /\ w * (n + 1) = w * n + w
  OBVIOUS
<1>2. CASE m < n
  <2>1. w * (m + 1) <= w * n
    BY <1>2, ScaledOrder
  <2> QED BY <1>1, <2>1 DEF Span
<1>3. CASE n < m
  <2>1. w * (n + 1) <= w * m
    BY <1>3, ScaledOrder
  <2> QED BY <1>1, <2>1 DEF Span
<1> QED BY <1>2, <1>3

\* When a row is free some count is zero (the pigeonhole principle: fewer used
\* rows than ids to count), so core_table_insertRow always finds its id0.
LEMMA SomeCountIsZero ==
  ASSUME useField \in [Rows -> {0, 1}], FreeRows # {}
  PROVE  ZeroCounts # {}
<1> SUFFICES ASSUME ZeroCounts = {}
             PROVE  FALSE
  OBVIOUS
<1> DEFINE holder == [i \in Rows |-> CHOOSE r \in UsedRows : idField[r] = i]
<1>1. \A i \in Rows : \E r \in UsedRows : idField[r] = i
  BY DEF ZeroCounts, RowsWithId
<1>2. \A i \in Rows : holder[i] \in UsedRows /\ idField[holder[i]] = i
  BY <1>1
<1>3. holder \in Injection(Rows, UsedRows)
  BY <1>2 DEF Injection, IsInjective
<1>4. IsFiniteSet(Rows)
  BY FS_Interval DEF Rows
<1>5. UsedRows \subseteq Rows /\ UsedRows # Rows
  BY DEF UsedRows, FreeRows
<1>6. /\ IsFiniteSet(UsedRows)
      /\ Cardinality(UsedRows) <= Cardinality(Rows)
      /\ Cardinality(UsedRows) # Cardinality(Rows)
  BY <1>4, <1>5, FS_Subset
<1>7. Cardinality(Rows) <= Cardinality(UsedRows)
  BY <1>3, <1>6, FS_Injection
<1>8. Cardinality(Rows) \in Nat /\ Cardinality(UsedRows) \in Nat
  BY <1>4, <1>6, FS_CardinalityType
<1>9. QED
  BY <1>6, <1>7, <1>8

LEMMA NumUsedBounds ==
  /\ NumUsed \in 0 .. NumRows
  /\ UsedRows = Rows => NumUsed = NumRows
<1>1. IsFiniteSet(Rows) /\ Cardinality(Rows) = NumRows
  BY FS_Interval DEF Rows
<1>2. UsedRows \subseteq Rows
  BY DEF UsedRows
<1>3. IsFiniteSet(UsedRows) /\ Cardinality(UsedRows) <= NumRows
  BY <1>1, <1>2, FS_Subset
<1>4. Cardinality(UsedRows) \in Nat
  BY <1>3, FS_CardinalityType
<1>5. QED
  BY <1>1, <1>3, <1>4 DEF NumUsed

\* The rows the scans return.
LEMMA ScansReturnRows ==
  ASSUME useField \in [Rows -> {0, 1}], idField \in [Rows -> Int]
  PROVE  /\ FreeRows # {} => /\ Min(FreeRows) \in FreeRows
                             /\ Min(ZeroCounts) \in ZeroCounts
         /\ \A id : RowOf(id) # -1 => RowOf(id) \in Rows
         /\ \A id : RowsWithId(id) # {} => RowOf(id) \in RowsWithId(id)
         /\ \A id : RowsWithId(id) = {} /\ RowOf(id) # -1 => RowOf(id) \in FreeRows
<1>1. /\ FreeRows \subseteq Rows /\ ZeroCounts \subseteq Rows /\ Rows \subseteq Nat
      /\ \A id : RowsWithId(id) \subseteq Rows
  BY DEF FreeRows, ZeroCounts, RowsWithId, UsedRows, Rows
<1>2. FreeRows # {} => Min(FreeRows) \in FreeRows
  BY <1>1, MinOfNats
<1>3. FreeRows # {} => Min(ZeroCounts) \in ZeroCounts
  BY <1>1, MinOfNats, SomeCountIsZero
<1>4. \A id : RowsWithId(id) # {} => Min(RowsWithId(id)) \in RowsWithId(id)
  <2>1. TAKE id
  <2>2. HAVE RowsWithId(id) # {}
  <2>3. RowsWithId(id) \subseteq Nat
    BY <1>1
  <2>4. QED
    BY <2>2, <2>3, MinOfNats
<1>5. \A id : RowsWithId(id) # {} => RowOf(id) = Min(RowsWithId(id))
  BY DEF RowOf
<1>6. \A id : RowsWithId(id) = {} /\ FreeRows # {} => RowOf(id) = Min(FreeRows)
  BY DEF RowOf
<1>7. \A id : RowsWithId(id) = {} /\ FreeRows = {} => RowOf(id) = -1
  BY DEF RowOf
<1>8. QED
  BY <1>1, <1>2, <1>3, <1>4, <1>5, <1>6, <1>7

(***************************************************************************)
(* Memory.                                                                 *)
(***************************************************************************)
CellContents == CellValues \cup {Garbage}
MemoryOK(memory) ==
  /\ DOMAIN memory = Columns
  /\ \A k \in Columns : memory[k] \in [CellsOf(k) -> CellContents]

LEMMA StoreKeepsMemoryOK ==
  ASSUME NEW memory, MemoryOK(memory), NEW k \in Columns, NEW row \in Rows,
         NEW v \in [0 .. FieldWidth[k] - 1 -> CellContents]
  PROVE  MemoryOK(StoreAt(memory, k, row, v))
<1> DEFINE w == FieldWidth[k]
<1>1. w * row \in Int /\ w \in Int
  BY DEF Rows
<1>2. ASSUME NEW c \in CellsOf(k), c \in Span(w, row)
      PROVE  c - w * row \in 0 .. w - 1
  <2> HIDE DEF w
  <2> QED BY <1>1, <1>2 DEF Span, CellsOf
<1> DEFINE new == [c \in CellsOf(k) |->
     IF c \in Span(w, row) THEN v[c - w * row] ELSE memory[k][c]]
<1>3. new \in [CellsOf(k) -> CellContents]
  BY <1>2 DEF MemoryOK
<1>4. StoreAt(memory, k, row, v) = [memory EXCEPT ![k] = new]
  BY DEF StoreAt
<1>5. QED
  BY <1>3, <1>4 DEF MemoryOK

LEMMA ElementIsContents ==
  ASSUME MemoryOK(cells), NEW k \in Columns, NEW row \in Rows
  PROVE  ElementAt(k, row) \in [0 .. FieldWidth[k] - 1 -> CellContents]
<1> DEFINE w == FieldWidth[k]
<1>1. w \in Nat \ {0} /\ w * row \in Int
  BY DEF Rows
<1>2. Span(w, row) \subseteq CellsOf(k)
  BY <1>1, SpanInColumn DEF CellsOf, Rows
<1>3. ASSUME NEW b \in 0 .. w - 1
      PROVE  w * row + b \in Span(w, row)
  <2> HIDE DEF w
  <2> QED BY <1>1 DEF Span
<1>4. QED
  BY <1>2, <1>3 DEF ElementAt, MemoryOK

\* crunch copies within the columns it does not stray from.
LEMMA MoveKeepsMemoryOK ==
  ASSUME TypeOK, NEW src \in Sources, ~CopyStrays(src), MoveRows(src)
  PROVE  MemoryOK(cells')
<1>1. \A k \in Columns : CopyWidth(k) \in Nat \ {0}
  BY DEF CopyWidth, Columns
<1>2. /\ Holes \subseteq Rows /\ Tail \subseteq Rows /\ Rows \subseteq Nat
      /\ src \in [Holes -> Tail]
  BY DEF Holes, Tail, FreeRows, UsedRows, Sources, Rows
<1>3. ASSUME NEW k \in Columns, NEW c \in CellsOf(k), NEW hole \in Holes,
             c \in Span(CopyWidth(k), hole)
      PROVE  c + CopyWidth(k) * (src[hole] - hole) \in CellsOf(k)
  <2> DEFINE w == CopyWidth(k)
             j == src[hole]
  <2>1. w \in Nat \ {0} /\ hole \in Nat /\ j \in Nat
    BY <1>1, <1>2
  <2>2. w * (j + 1) <= NumRows * FieldWidth[k]
    <3>1. ~(w * (j + 1) > NumRows * FieldWidth[k])
      BY DEF CopyStrays
    <3>2. w * (j + 1) \in Int /\ NumRows * FieldWidth[k] \in Int
      <4> HIDE DEF w, j
      <4> QED BY <2>1
    <3> HIDE DEF w, j
    <3>3. QED
      BY <3>1, <3>2
  <2>3. /\ w * (j - hole) = w * j - w * hole
        /\ w * (j + 1) = w * j + w
        /\ w * j >= 0
        /\ w * j \in Int /\ w * hole \in Int
    <3> HIDE DEF w, j
    <3> QED BY <2>1
  <2>4. c \in Int /\ w * hole <= c /\ c <= w * hole + w - 1
    <3>1. c \in Span(w, hole)
      BY <1>3
    <3> HIDE DEF w, j
    <3>2. QED
      BY <2>1, <2>3, <3>1 DEF Span, CellsOf
  <2>5. NumRows * FieldWidth[k] \in Int
    OBVIOUS
  <2> HIDE DEF w, j
  <2>6. c + w * (j - hole) \in 0 .. NumRows * FieldWidth[k] - 1
    BY <2>1, <2>2, <2>3, <2>4, <2>5
  <2>7. QED
    BY <2>6 DEF CellsOf, w, j
<1>4. ASSUME NEW k \in Columns
      PROVE  cells'[k] \in [CellsOf(k) -> CellContents]
  <2> DEFINE into(c) == {hole \in Holes : c \in Span(CopyWidth(k), hole)}
             from(c) == CHOOSE h \in into(c) : TRUE
  <2>1. \A c \in CellsOf(k) : into(c) # {} =>
          /\ from(c) \in Holes
          /\ c \in Span(CopyWidth(k), from(c))
    OBVIOUS
  <2>2. \A c \in CellsOf(k) : into(c) # {} =>
          c + CopyWidth(k) * (src[from(c)] - from(c)) \in CellsOf(k)
    BY <1>3, <2>1
  <2>3. cells'[k] = [c \in CellsOf(k) |->
          IF into(c) = {} THEN cells[k][c]
          ELSE cells[k][c + CopyWidth(k) * (src[from(c)] - from(c))]]
    BY DEF MoveRows
  <2>4. cells[k] \in [CellsOf(k) -> CellContents]
    BY DEF TypeOK, CellContents
  <2> HIDE DEF into, from
  <2>5. QED
    BY <2>2, <2>3, <2>4
<1>5. DOMAIN cells' = Columns
  BY DEF MoveRows
<1>6. QED
  BY <1>4, <1>5 DEF MemoryOK

\* Every variable keeps its type: the row the runtime returns is a row, its ids
\* are ints, and no store or copy puts anything where no cell is.
THEOREM TypeCorrect == Spec => []TypeOK
<1> USE DEF CellContents, MemoryOK
<1>1. Init => TypeOK
  <2> SUFFICES ASSUME Init
               PROVE  TypeOK
    OBVIOUS
  <2>1. idField \in [Rows -> Int] /\ useField \in [Rows -> {0, 1}]
    BY DEF Init
  <2>2. MemoryOK(cells)
    BY DEF Init
  <2>3. filling = Idle /\ idVar \in Int /\ numVar \in 0 .. NumRows
    BY DEF Init
  <2>4. stray \in BOOLEAN
    BY DEF Init
  <2>5. QED
    BY <2>1, <2>2, <2>3, <2>4 DEF TypeOK
<1>2. TypeOK /\ [Next]_vars => TypeOK'
  <2> SUFFICES ASSUME TypeOK, [Next]_vars
               PROVE  TypeOK'
    OBVIOUS
  <2>1. /\ idField \in [Rows -> Int]
        /\ useField \in [Rows -> {0, 1}]
        /\ MemoryOK(cells)
    BY DEF TypeOK
  <2>2. /\ FreeRows \subseteq Rows /\ ZeroCounts \subseteq Rows
        /\ UsedRows \subseteq Rows /\ Rows \subseteq Int
    BY DEF FreeRows, ZeroCounts, UsedRows, Rows
  <2>3. ASSUME Stray
        PROVE  TypeOK'
    BY <2>3 DEF Stray, TypeOK
  <2>4. ASSUME NEW row \in Rows, NEW id \in Int, Claim(row, id)
        PROVE  idField' \in [Rows -> Int] /\ useField' \in [Rows -> {0, 1}]
    BY <2>1, <2>4 DEF Claim
  <2>5. ASSUME NEW named \in BOOLEAN, InsertRow(named)
        PROVE  TypeOK'
    <3>1. CASE Stray
      BY <3>1, <2>3
    <3>2. CASE ~Stray
      <4>1. /\ Min(FreeRows) \in Rows /\ Min(ZeroCounts) \in Rows
            /\ Claim(Min(FreeRows), Min(ZeroCounts))
            /\ idVar' = IF named THEN Min(ZeroCounts) ELSE idVar
            /\ filling' = [row |-> Min(FreeRows), column |-> 0]
            /\ UNCHANGED <<cells, numVar, stray>>
        BY <2>1, <2>2, <2>5, <3>2, ScansReturnRows DEF InsertRow
      <4>2. idField' \in [Rows -> Int] /\ useField' \in [Rows -> {0, 1}]
        BY <4>1, <2>2, <2>4
      <4>3. QED
        <5>1. filling' \in [row : Rows, column : Columns]
          BY <4>1 DEF Columns
        <5>2. idVar' \in Int
          BY <4>1, <2>2 DEF TypeOK
        <5>3. QED
          BY <4>1, <4>2, <5>1, <5>2 DEF TypeOK
    <3>3. QED
      BY <3>1, <3>2
  <2>6. ASSUME filling # Idle
        PROVE  /\ filling.row \in Rows /\ filling.column \in Columns
               /\ NextColumn \in {Idle} \cup [row : Rows, column : Columns]
    BY <2>6, SMTT(30) DEF TypeOK, NextColumn, Columns
  <2>7. ASSUME filling # Idle,
               NEW v \in Element(filling.column), StoreElement(v)
        PROVE  TypeOK'
    <3>1. MemoryOK(cells')
      BY <2>1, <2>6, <2>7, StoreKeepsMemoryOK, SMTT(30) DEF StoreElement, Element
    <3>2. QED
      BY <2>6, <2>7, <3>1 DEF StoreElement, TypeOK
  <2>8. ASSUME NEW id \in Ids, NEW k \in Columns, StoreFromRow(id, k)
        PROVE  TypeOK'
    <3>1. CASE Stray
      BY <3>1, <2>3
    <3>2. CASE ~Stray
      <4>1. /\ filling # Idle /\ FieldWidth[k] = FieldWidth[filling.column]
            /\ RowOf(id) \in Rows
            /\ Claim(RowOf(id), id)
            /\ cells' = StoreAt(cells, filling.column, filling.row,
                                ElementAt(k, RowOf(id)))
            /\ filling' = NextColumn
            /\ UNCHANGED <<idVar, numVar, stray>>
        BY <2>1, <2>8, <3>2, ScansReturnRows DEF StoreFromRow
      <4>2. MemoryOK(cells')
        BY <2>1, <2>6, <4>1, StoreKeepsMemoryOK, ElementIsContents
      <4>3. idField' \in [Rows -> Int] /\ useField' \in [Rows -> {0, 1}]
        BY <4>1, <2>4
      <4>4. QED
        BY <2>6, <4>1, <4>2, <4>3 DEF TypeOK
    <3>3. QED
      BY <3>1, <3>2
  <2>9. ASSUME NEW id \in Ids, ReadRow(id)
        PROVE  TypeOK'
    <3>1. CASE Stray
      BY <3>1, <2>3
    <3>2. CASE ~Stray
      <4>1. /\ RowOf(id) \in Rows
            /\ Claim(RowOf(id), id)
            /\ UNCHANGED <<cells, filling, idVar, numVar, stray>>
        BY <2>1, <2>9, <3>2, ScansReturnRows DEF ReadRow
      <4>2. QED
        BY <2>4, <4>1 DEF TypeOK
    <3>3. QED
      BY <3>1, <3>2
  <2>10. ASSUME NEW id \in Ids, NEW k \in Columns, NEW v \in Element(k),
                WriteRow(id, k, v)
         PROVE  TypeOK'
    <3>1. CASE Stray
      BY <3>1, <2>3
    <3>2. CASE ~Stray
      <4>1. /\ RowOf(id) \in Rows
            /\ Claim(RowOf(id), id)
            /\ cells' = StoreAt(cells, k, RowOf(id), v)
            /\ UNCHANGED <<filling, idVar, numVar, stray>>
        BY <2>1, <2>10, <3>2, ScansReturnRows DEF WriteRow
      <4>2. MemoryOK(cells')
        BY <2>1, <4>1, StoreKeepsMemoryOK DEF Element
      <4>3. QED
        BY <2>4, <4>1, <4>2 DEF TypeOK
    <3>3. QED
      BY <3>1, <3>2
  <2>11. ASSUME NEW id \in Ids, DeleteRow(id)
         PROVE  TypeOK'
    BY <2>11 DEF DeleteRow, TypeOK
  <2>12. ASSUME Measure
         PROVE  TypeOK'
    BY <2>12, NumUsedBounds DEF Measure, TypeOK
  <2>13. ASSUME NEW named \in BOOLEAN, Crunch(named)
         PROVE  TypeOK'
    <3>1. CASE UNCHANGED vars
      BY <3>1 DEF vars, TypeOK
    <3>2. CASE Stray
      BY <3>2, <2>3
    <3>3. ASSUME NEW src \in Sources, ~CopyStrays(src), MoveRows(src),
                 idVar' = IF named THEN idField'[0] ELSE idVar,
                 UNCHANGED <<filling, numVar, stray>>
          PROVE  TypeOK'
      <4>1. MemoryOK(cells')
        BY <3>3, MoveKeepsMemoryOK
      <4>2. src \in [Holes -> Tail] /\ Tail \subseteq Rows
        BY DEF Sources, Tail, UsedRows
      <4>3. idField' \in [Rows -> Int] /\ useField' \in [Rows -> {0, 1}]
        BY <2>1, <3>3, <4>2 DEF MoveRows
      <4>4. idField'[0] \in Int
        BY <4>3 DEF Rows
      <4>5. QED
        BY <3>3, <4>1, <4>3, <4>4 DEF TypeOK
    <3>4. QED
      BY <2>13, <3>1, <3>2, <3>3 DEF Crunch
  <2>14. CASE UNCHANGED vars
    BY <2>14 DEF vars, TypeOK
  <2>15. QED
    BY <2>5, <2>7, <2>8, <2>9, <2>10, <2>11, <2>12, <2>13, <2>14 DEF Next
<1>3. QED
  BY <1>1, <1>2, PTL DEF Spec

(***************************************************************************)
(* What a step does to the ids in use.                                     *)
(***************************************************************************)
\* Every step other than crunch claims at most one row, for an id no used row
\* has, or for the row that has it already.
ClaimsFor(id, row) ==
  /\ row \in Rows
  /\ Claim(row, id)
  /\ \/ row \in RowsWithId(id)
     \/ row \in FreeRows /\ RowsWithId(id) = {}

ClaimStep ==
  \/ UNCHANGED <<idField, useField>>
  \/ \E id \in Ids, row \in Rows : ClaimsFor(id, row)
  \/ \E row \in Rows : ClaimsFor(Min(ZeroCounts), row) /\ Min(ZeroCounts) \in Rows
  \/ \E id \in Ids : DeleteRow(id)

LEMMA StepsClaim ==
  ASSUME TypeOK, Next
  PROVE  ClaimStep \/ ("crunch" \in Statements /\ \E named \in BOOLEAN : Crunch(named))
<1>1. idField \in [Rows -> Int] /\ useField \in [Rows -> {0, 1}]
  BY DEF TypeOK
<1>2. Stray => ClaimStep
  BY DEF Stray, ClaimStep
<1>3. ASSUME NEW id \in Ids, RowOf(id) # -1, Claim(RowOf(id), id)
      PROVE  ClaimStep
  <2>1. RowOf(id) \in Rows
    BY <1>1, <1>3, ScansReturnRows
  <2>2. \/ RowOf(id) \in RowsWithId(id)
        \/ RowOf(id) \in FreeRows /\ RowsWithId(id) = {}
    BY <1>1, <1>3, ScansReturnRows
  <2>3. QED
    BY <1>3, <2>1, <2>2 DEF ClaimStep, ClaimsFor
<1>4. ASSUME NEW named \in BOOLEAN, InsertRow(named)
      PROVE  ClaimStep
  <2>1. CASE Stray
    BY <2>1, <1>2
  <2>2. CASE ~Stray
    <3> DEFINE row == Min(FreeRows)
               id0 == Min(ZeroCounts)
    <3>1. FreeRows # {} /\ Claim(row, id0)
      BY <1>4, <2>2 DEF InsertRow
    <3>2. row \in FreeRows /\ id0 \in ZeroCounts
      BY <1>1, <3>1, ScansReturnRows
    <3>3. row \in Rows /\ id0 \in Rows /\ RowsWithId(id0) = {}
      BY <3>2 DEF FreeRows, ZeroCounts
    <3> HIDE DEF row, id0
    <3>4. ClaimsFor(id0, row)
      BY <3>1, <3>2, <3>3 DEF ClaimsFor
    <3>5. QED
      BY <3>3, <3>4 DEF ClaimStep, id0
  <2>3. QED
    BY <2>1, <2>2
<1>5. ASSUME NEW id \in Ids, NEW k \in Columns, StoreFromRow(id, k)
      PROVE  ClaimStep
  BY <1>5, <1>2, <1>3 DEF StoreFromRow
<1>6. ASSUME NEW id \in Ids, ReadRow(id)
      PROVE  ClaimStep
  BY <1>6, <1>2, <1>3 DEF ReadRow
<1>7. ASSUME NEW id \in Ids, NEW k \in Columns, NEW v \in Element(k), WriteRow(id, k, v)
      PROVE  ClaimStep
  BY <1>7, <1>2, <1>3 DEF WriteRow
<1>8. ASSUME NEW v \in Element(filling.column), StoreElement(v)
      PROVE  ClaimStep
  BY <1>8 DEF StoreElement, ClaimStep
<1>9. ASSUME NEW id \in Ids, DeleteRow(id)
      PROVE  ClaimStep
  BY <1>9 DEF ClaimStep
<1>10. Measure => ClaimStep
  BY DEF Measure, ClaimStep
<1>11. QED
  BY <1>4, <1>5, <1>6, <1>7, <1>8, <1>9, <1>10 DEF Next

\* Ids stay unique in every program that never crunches.  The invariant is
\* inductive on its own: a row is claimed for an id only after the scan has
\* found no used row with it.
THEOREM IdsStayUnique ==
  ASSUME "crunch" \notin Statements
  PROVE  Spec => []UniqueIds
<1>1. Init => UniqueIds
  BY DEF Init, UniqueIds, UsedRows
<1>2. TypeOK /\ UniqueIds /\ [Next]_vars => UniqueIds'
  <2> SUFFICES ASSUME TypeOK, UniqueIds, [Next]_vars
               PROVE  UniqueIds'
    OBVIOUS
  <2>1. CASE UNCHANGED <<idField, useField>>
    BY <2>1 DEF UniqueIds, UsedRows
  <2>2. ASSUME NEW id, NEW row \in Rows, ClaimsFor(id, row)
        PROVE  UniqueIds'
    <3>1. UsedRows' = UsedRows \cup {row}
      BY <2>2 DEF ClaimsFor, Claim, UsedRows, TypeOK
    <3>2. \A r \in UsedRows' : idField'[r] = IF r = row THEN id ELSE idField[r]
      BY <2>2 DEF ClaimsFor, Claim, TypeOK, UsedRows
    <3>3. \A r \in UsedRows : idField[r] = id => r = row
      BY <2>2 DEF ClaimsFor, RowsWithId, UniqueIds
    <3>4. QED
      BY <3>1, <3>2, <3>3 DEF UniqueIds
  <2>3. ASSUME NEW id \in Ids, DeleteRow(id)
        PROVE  UniqueIds'
    <3>1. UsedRows' \subseteq UsedRows /\ UNCHANGED idField
      BY <2>3 DEF DeleteRow, UsedRows, TypeOK
    <3>2. QED
      BY <3>1 DEF UniqueIds
  <2>4. CASE UNCHANGED vars
    BY <2>1, <2>4 DEF vars
  <2>5. QED
    BY <2>1, <2>2, <2>3, <2>4, StepsClaim DEF ClaimStep
<1>3. QED
  BY <1>1, <1>2, TypeCorrect, PTL DEF Spec

\* The row being filled stays in use, in every program: the statements that
\* release rows wait for the insert to finish.
THEOREM FillingRowStaysUsed == Spec => []FillingRowIsUsed
<1>1. Init => FillingRowIsUsed
  BY DEF Init, FillingRowIsUsed
<1>2. TypeOK /\ FillingRowIsUsed /\ [Next]_vars => FillingRowIsUsed'
  <2> SUFFICES ASSUME TypeOK, FillingRowIsUsed, [Next]_vars
               PROVE  FillingRowIsUsed'
    OBVIOUS
  <2> USE DEF FillingRowIsUsed
  <2>1. CASE UNCHANGED <<useField, filling>>
    BY <2>1 DEF UsedRows
  <2>2. ASSUME filling' = Idle
        PROVE  FillingRowIsUsed'
    BY <2>2
  <2>3. ASSUME Ready, UNCHANGED filling
        PROVE  FillingRowIsUsed'
    BY <2>3, <2>2 DEF Ready
  <2>4. CASE Stray
    BY <2>4, <2>1 DEF Stray
  <2>5. ASSUME NEW named \in BOOLEAN, InsertRow(named), ~Stray
        PROVE  FillingRowIsUsed'
    <3>1. /\ Min(FreeRows) \in Rows
          /\ useField' = [useField EXCEPT ![Min(FreeRows)] = 1]
          /\ filling' = [row |-> Min(FreeRows), column |-> 0]
      <4>1. FreeRows # {}
        BY <2>5 DEF InsertRow
      <4>2. Min(FreeRows) \in FreeRows
        BY <4>1, ScansReturnRows DEF TypeOK
      <4>3. QED
        BY <2>5, <4>2 DEF InsertRow, Claim, FreeRows
    <3>2. QED
      BY <3>1 DEF UsedRows, TypeOK
  <2>6. ASSUME filling # Idle,
               \/ filling' = NextColumn
               \/ filling' = filling,
               \A r \in UsedRows : r \in UsedRows'
        PROVE  FillingRowIsUsed'
    <3>1. filling' # Idle => filling'.row = filling.row
      BY <2>6 DEF NextColumn, TypeOK
    <3>2. QED
      BY <2>6, <3>1
  <2>7. ASSUME NEW id \in Ids, Claim(RowOf(id), id)
        PROVE  \A r \in UsedRows : r \in UsedRows'
    BY <2>7 DEF Claim, UsedRows, TypeOK
  <2>8. ASSUME filling # Idle, NEW v \in Element(filling.column), StoreElement(v)
        PROVE  FillingRowIsUsed'
    BY <2>6, <2>8 DEF StoreElement, UsedRows
  <2>9. ASSUME NEW id \in Ids, NEW k \in Columns, StoreFromRow(id, k), ~Stray
        PROVE  FillingRowIsUsed'
    BY <2>6, <2>7, <2>9 DEF StoreFromRow
  <2>10. ASSUME NEW id \in Ids, ReadRow(id), ~Stray
         PROVE  FillingRowIsUsed'
    BY <2>3, <2>10 DEF ReadRow
  <2>11. ASSUME NEW id \in Ids, NEW k \in Columns, NEW v \in Element(k),
                WriteRow(id, k, v), ~Stray
         PROVE  FillingRowIsUsed'
    BY <2>3, <2>11 DEF WriteRow
  <2>12. ASSUME NEW id \in Ids, DeleteRow(id)
         PROVE  FillingRowIsUsed'
    BY <2>3, <2>12 DEF DeleteRow
  <2>13. Measure => FillingRowIsUsed'
    BY <2>3 DEF Measure
  <2>14. ASSUME NEW named \in BOOLEAN, Crunch(named), ~Stray
         PROVE  FillingRowIsUsed'
    BY <2>3, <2>14 DEF Crunch, vars
  <2>15. CASE UNCHANGED vars
    BY <2>1, <2>15 DEF vars
  <2>16. QED
    BY <2>4, <2>5, <2>8, <2>9, <2>10, <2>11, <2>12, <2>13, <2>14, <2>15 DEF Next
<1>3. QED
  BY <1>1, <1>2, TypeCorrect, PTL DEF Spec

\* As long as the program names no other ids, every id in use is one that
\* core_table_insertRow can count: insert hands out counted ids, and the id that
\* crunch leaves behind, 1, is one because a row only moves in a table of two
\* rows or more.
THEOREM IdsStayCounted ==
  ASSUME Ids \subseteq Rows
  PROVE  Spec => []IdsAreCounted
<1> USE DEF IdsAreCounted, CountStrays
<1>1. Init => IdsAreCounted
  BY DEF Init, UsedRows
<1>2. TypeOK /\ IdsAreCounted /\ [Next]_vars => IdsAreCounted'
  <2> SUFFICES ASSUME TypeOK, IdsAreCounted, [Next]_vars
               PROVE  IdsAreCounted'
    OBVIOUS
  <2>1. CASE UNCHANGED <<idField, useField>>
    BY <2>1 DEF UsedRows
  <2>2. ASSUME NEW id \in Rows, NEW row \in Rows, ClaimsFor(id, row)
        PROVE  IdsAreCounted'
    BY <2>2 DEF ClaimsFor, Claim, UsedRows, TypeOK
  <2>3. ASSUME NEW id \in Ids, DeleteRow(id)
        PROVE  IdsAreCounted'
    BY <2>3 DEF DeleteRow, UsedRows, TypeOK
  <2>4. ASSUME NEW src \in Sources, MoveRows(src)
        PROVE  IdsAreCounted'
    <3>1. ASSUME NEW r \in UsedRows'
          PROVE  idField'[r] \in Rows
      <4>1. CASE r \in Holes
        <5>1. src[r] \in Tail /\ Tail \subseteq UsedRows /\ UsedRows \subseteq Rows
          BY <4>1 DEF Sources, Tail, UsedRows
        <5>2. r \in 0 .. NumRows - 1 /\ r < NumUsed /\ src[r] >= NumUsed
              /\ src[r] \in 0 .. NumRows - 1
          BY <4>1, <5>1 DEF Holes, FreeRows, Rows, Tail
        <5>3. NumUsed \in Nat
          BY NumUsedBounds
        <5>4. 1 \in Rows
          BY <5>2, <5>3 DEF Rows
        <5>5. idField'[r] = 1
          BY <2>4, <3>1, <4>1, <5>1 DEF MoveRows, UsedRows
        <5>6. QED
          BY <5>4, <5>5
      <4>2. CASE r \notin Holes
        <5>1. r \in Rows /\ idField'[r] = idField[r] /\ useField'[r] = 1
          BY <2>4, <3>1, <4>2 DEF MoveRows, UsedRows
        <5>2. useField[r] = 1
          BY <2>4, <4>2, <5>1 DEF MoveRows
        <5>3. QED
          BY <5>1, <5>2 DEF UsedRows
      <4>3. QED
        BY <4>1, <4>2
    <3>2. QED
      BY <3>1
  <2>5. ASSUME NEW named \in BOOLEAN, Crunch(named)
        PROVE  IdsAreCounted'
    BY <2>1, <2>4, <2>5 DEF Crunch, Stray, vars
  <2>6. CASE UNCHANGED vars
    BY <2>1, <2>6 DEF vars
  <2>7. QED
    BY <2>1, <2>2, <2>3, <2>5, <2>6, StepsClaim DEF ClaimStep
<1>3. QED
  BY <1>1, <1>2, TypeCorrect, PTL DEF Spec

\* A row number -1 or a count index that is no row comes up only when the whole
\* table is in use, for programs that name ids of the table's range and for
\* columns whose elements buildTableCrunch passes the right size of.
THEOREM OnlyFullTablesStray ==
  ASSUME Ids \subseteq Rows,
         \A k \in Columns : CopyWidth(k) = FieldWidth[k]
  PROVE  Spec => StrayOnlyWhenFull
<1> DEFINE A == stray' /\ ~stray => NumUsed = NumRows
<1>1. TypeOK /\ IdsAreCounted /\ [Next]_vars => [A]_vars
  <2> SUFFICES ASSUME TypeOK, IdsAreCounted, Next, stray', ~stray
               PROVE  NumUsed = NumRows
    OBVIOUS
  <2>1. ASSUME FreeRows = {}
        PROVE  NumUsed = NumRows
    <3>1. UsedRows = Rows
      BY <2>1 DEF FreeRows, UsedRows, TypeOK
    <3>2. QED
      BY <3>1, NumUsedBounds
  <2>2. ASSUME NEW id \in Ids, RowOf(id) = -1
        PROVE  NumUsed = NumRows
    <3>1. FreeRows = {}
      <4>1. RowsWithId(id) = {}
        <5>1. RowsWithId(id) # {} => RowOf(id) \in RowsWithId(id)
          BY ScansReturnRows DEF TypeOK
        <5>2. RowsWithId(id) \subseteq Rows /\ -1 \notin Rows
          BY DEF RowsWithId, UsedRows, Rows
        <5>3. QED
          BY <2>2, <5>1, <5>2
      <4>2. FreeRows # {} => Min(FreeRows) \in Rows
        BY ScansReturnRows DEF TypeOK, FreeRows
      <4>3. FreeRows # {} => RowOf(id) = Min(FreeRows)
        BY <4>1 DEF RowOf
      <4>4. QED
        BY <2>2, <4>2, <4>3 DEF Rows
    <3>2. QED
      BY <2>1, <3>1
  <2>3. ASSUME NEW named \in BOOLEAN, InsertRow(named)
        PROVE  NumUsed = NumRows
    BY <2>1, <2>3 DEF InsertRow, IdsAreCounted
  <2>4. ASSUME NEW id \in Ids, NEW k \in Columns, StoreFromRow(id, k)
        PROVE  NumUsed = NumRows
    BY <2>2, <2>4 DEF StoreFromRow
  <2>5. ASSUME NEW id \in Ids, ReadRow(id)
        PROVE  NumUsed = NumRows
    BY <2>2, <2>5 DEF ReadRow
  <2>6. ASSUME NEW id \in Ids, NEW k \in Columns, NEW v \in Element(k), WriteRow(id, k, v)
        PROVE  NumUsed = NumRows
    BY <2>2, <2>6 DEF WriteRow
  <2>7. ASSUME NEW named \in BOOLEAN, Crunch(named)
        PROVE  FALSE
    <3>1. ASSUME NEW src \in Sources
          PROVE  ~CopyStrays(src)
      <4> SUFFICES ASSUME NEW hole \in Holes, NEW k \in Columns
                   PROVE  ~(FieldWidth[k] * (src[hole] + 1) > NumRows * FieldWidth[k])
        BY DEF CopyStrays
      <4>1. src[hole] \in Rows
        BY DEF Sources, Tail, UsedRows
      <4>2. src[hole] + 1 \in Int /\ src[hole] + 1 <= NumRows
        BY <4>1 DEF Rows
      <4> DEFINE w == FieldWidth[k]
                 n == src[hole] + 1
      <4>3. w \in Nat
        OBVIOUS
      <4> HIDE DEF w, n
      <4>4. w * n <= w * NumRows
        BY <4>2, <4>3, ScaledOrder DEF n
      <4>5. w * NumRows = NumRows * w /\ w * n \in Int /\ w * NumRows \in Int
        BY <4>2, <4>3 DEF n
      <4>6. ~(w * n > NumRows * w)
        BY <4>4, <4>5
      <4>7. QED
        BY <4>6 DEF w, n
    <3>2. QED
      BY <2>7, <3>1 DEF Crunch, vars
  <2>8. QED
    BY <2>3, <2>4, <2>5, <2>6, <2>7
    DEF Next, StoreElement, DeleteRow, Measure
<1>2. QED
  BY <1>1, TypeCorrect, IdsStayCounted, PTL DEF Spec, StrayOnlyWhenFull

(***************************************************************************)
(* crunch                                                                  *)
(***************************************************************************)
\* The holes among the first NumUsed rows are as many as the used rows behind them, so that
\* each of these goes to one of the holes.
LEMMA TailFillsHoles ==
  ASSUME NEW src \in Sources, NumUsed < NumRows, useField \in [Rows -> {0, 1}]
  PROVE  src \in Bijection(Holes, Tail)
<1> DEFINE F == 0 .. NumUsed - 1
           front == UsedRows \cap F
<1>1. NumUsed \in Nat /\ F \subseteq Rows
  BY NumUsedBounds DEF Rows
<1>2. IsFiniteSet(F) /\ Cardinality(F) = NumUsed
  BY <1>1, FS_Interval
<1>3. IsFiniteSet(Rows) /\ UsedRows \subseteq Rows
  BY FS_Interval DEF Rows, UsedRows
<1>4. IsFiniteSet(UsedRows)
  BY <1>3, FS_Subset
<1>5. Holes = F \ UsedRows /\ Tail = UsedRows \ F
  BY <1>1 DEF Holes, Tail, FreeRows, UsedRows, Rows
<1>6. /\ IsFiniteSet(Holes) /\ IsFiniteSet(Tail)
      /\ Cardinality(Holes) = Cardinality(F) - Cardinality(F \cap UsedRows)
      /\ Cardinality(Tail) = Cardinality(UsedRows) - Cardinality(UsedRows \cap F)
  BY <1>2, <1>4, <1>5, FS_Difference
<1>7. F \cap UsedRows = UsedRows \cap F
  OBVIOUS
<1>8. Cardinality(Holes) = Cardinality(Tail)
  BY <1>2, <1>6, <1>7 DEF NumUsed
<1>9. src \in [Holes -> Tail] /\ \A g, h \in Holes : g < h => src[g] < src[h]
  BY DEF Sources
<1>10. Holes \subseteq Int /\ Tail \subseteq Int
  BY <1>1, <1>3, <1>5 DEF Rows
<1>11. ASSUME NEW g \in Holes, NEW h \in Holes, src[g] = src[h]
       PROVE  g = h
  <2>1. g \in Int /\ h \in Int /\ src[g] \in Int /\ src[h] \in Int
    BY <1>9, <1>10
  <2>2. ~(src[g] < src[h]) /\ ~(src[h] < src[g])
    BY <1>11, <2>1
  <2> QED BY <1>9, <2>1, <2>2
<1>12. src \in Injection(Holes, Tail)
  BY <1>9, <1>11 DEF Injection, IsInjective
<1>13. src \in Surjection(Holes, Tail)
  BY <1>6, <1>8, <1>12, FS_Injection
<1> QED BY <1>12, <1>13 DEF Bijection

LEMMA MovedRows ==
  ASSUME NEW src \in Sources, NumUsed < NumRows, useField \in [Rows -> {0, 1}], MoveRows(src)
  PROVE  /\ UsedRows' = 0 .. NumUsed - 1
         /\ \A r \in UsedRows' : r \notin Holes => r \in UsedRows \ Tail
<1>1. src \in [Holes -> Tail] /\ \A r \in Tail : \E hole \in Holes : src[hole] = r
  BY TailFillsHoles DEF Bijection, Surjection
<1>2. NumUsed \in Nat /\ Rows \subseteq Int
  BY NumUsedBounds DEF Rows
<1>3. Holes \subseteq Rows /\ Tail \subseteq UsedRows /\ UsedRows \subseteq Rows
  BY DEF Holes, Tail, FreeRows, UsedRows
<1>4. \A r \in Holes : useField'[r] = 1
  BY <1>1, <1>3 DEF MoveRows, UsedRows
<1>5. \A r \in Rows \ Holes : useField'[r] = IF r \in Tail THEN 0 ELSE useField[r]
  BY <1>1 DEF MoveRows
<1>6. UsedRows' = Holes \cup (UsedRows \ Tail)
  BY <1>3, <1>4, <1>5 DEF UsedRows
<1>7. \A r \in Rows : r \in Holes \cup (UsedRows \ Tail) <=> r < NumUsed
  BY <1>2 DEF Holes, Tail, FreeRows, UsedRows
<1>8. \A r : r \in 0 .. NumUsed - 1 <=> r \in Rows /\ r < NumUsed
  BY <1>2 DEF Rows
<1> QED BY <1>3, <1>6, <1>7, <1>8

\* Crunching puts the used rows above all the free ones and neither loses nor makes a row,
\* in a table of any size and whatever it does to the elements.
THEOREM CrunchAlwaysPacks == Spec => CrunchPacks
<1>1. TypeOK /\ TypeOK' => (CrunchStep /\ ~stray' => UsedRows' = 0 .. NumUsed - 1)
  <2> SUFFICES ASSUME TypeOK, TypeOK', NEW named \in BOOLEAN, Crunch(named), ~stray'
               PROVE  UsedRows' = 0 .. NumUsed - 1
    BY DEF CrunchStep
  <2>1. useField \in [Rows -> {0, 1}]
    BY DEF TypeOK
  <2>2. CASE NumUsed >= NumRows /\ UNCHANGED vars
    <3>1. NumUsed = NumRows
      BY <2>2, NumUsedBounds
    <3>2. UsedRows \subseteq Rows /\ IsFiniteSet(Rows) /\ Cardinality(Rows) = NumRows
      BY FS_Interval DEF Rows, UsedRows
    <3>3. UsedRows = Rows
      BY <3>1, <3>2, FS_Subset DEF NumUsed
    <3>4. UsedRows' = UsedRows
      BY <2>2 DEF vars, UsedRows
    <3> QED BY <3>1, <3>3, <3>4 DEF Rows
  <2>3. ASSUME NEW src \in Sources, NumUsed < NumRows, MoveRows(src)
        PROVE  UsedRows' = 0 .. NumUsed - 1
    BY <2>1, <2>3, MovedRows
  <2> QED BY <2>2, <2>3 DEF Crunch, Stray
<1> QED
  BY <1>1, TypeCorrect, PTL DEF CrunchPacks

\* When crunch gets the element sizes right, a row that takes over another one has its
\* elements afterwards, and the others keep theirs.
LEMMA MovedContents ==
  ASSUME NEW src \in Sources, NumUsed < NumRows, useField \in [Rows -> {0, 1}],
         MoveRows(src), \A k \in Columns : CopyWidth(k) = FieldWidth[k],
         NEW r \in Rows, NEW s \in Rows, s = IF r \in Holes THEN src[r] ELSE r
  PROVE  RowContents(r)' = RowContents(s)
<1>1. Holes \subseteq Rows /\ Rows \subseteq Nat
  BY DEF Holes, FreeRows, Rows
<1>2. ASSUME NEW k \in Columns, NEW b \in 0 .. FieldWidth[k] - 1
      PROVE  cells'[k][FieldWidth[k] * r + b] = cells[k][FieldWidth[k] * s + b]
  <2> DEFINE w == FieldWidth[k]
             c == w * r + b
             into == {hole \in Holes : c \in Span(w, hole)}
             from == CHOOSE h \in into : TRUE
  <2>1. w \in Nat \ {0} /\ r \in Nat /\ s \in Nat /\ b \in 0 .. w - 1
    BY <1>1
  <2>2. \A hole \in Holes : hole # r => c \notin Span(w, hole)
    <3>1. TAKE hole \in Holes
    <3>2. hole \in Nat
      BY <1>1
    <3> HIDE DEF w
    <3> QED BY <2>1, <3>2, SpansApart
  <2>3. c \in Span(w, r) /\ c \in Int /\ w * r \in Int /\ w * s \in Int
    <3> HIDE DEF w
    <3> QED BY <2>1 DEF Span
  <2>4. c \in CellsOf(k)
    <3>1. Span(w, r) \subseteq CellsOf(k)
      BY <2>1, SpanInColumn DEF CellsOf, Rows
    <3> HIDE DEF w, c
    <3> QED BY <2>3, <3>1
  <2>5. cells'[k][c] = IF into = {} THEN cells[k][c] ELSE cells[k][c + w * (src[from] - from)]
    <3> HIDE DEF c
    <3>1. cells'[k] = [x \in CellsOf(k) |->
            LET from2 == CHOOSE h \in {hole \in Holes : x \in Span(w, hole)} : TRUE
            IN  IF {hole \in Holes : x \in Span(w, hole)} = {} THEN cells[k][x]
                ELSE cells[k][x + w * (src[from2] - from2)]]
      BY DEF MoveRows
    <3> QED BY <2>4, <3>1
  <2>6. CASE r \in Holes
    <3>1. into = {r}
      BY <2>2, <2>3, <2>6
    <3>2. from = r
      BY <3>1
    <3>3. c + w * (src[r] - r) = w * s + b
      <4>1. src[r] = s
        BY <2>6
      <4> HIDE DEF w
      <4>2. w * (s - r) = w * s - w * r
        BY <2>1
      <4> QED BY <2>1, <2>3, <4>1, <4>2
    <3> HIDE DEF c, w, from, into
    <3>4. cells'[k][c] = cells[k][w * s + b]
      BY <2>5, <3>1, <3>2, <3>3
    <3> QED BY <3>4 DEF c, w
  <2>7. CASE r \notin Holes
    <3>1. into = {} /\ s = r
      BY <2>2, <2>7
    <3> HIDE DEF into, from
    <3> QED BY <2>5, <3>1
  <2> QED BY <2>6, <2>7
<1>3. \A k \in Columns : ElementAt(k, r)' = ElementAt(k, s)
  BY <1>2 DEF ElementAt
<1> QED BY <1>3 DEF RowContents

\* Crunching takes the elements of every used row along, if it knows how large they are.
THEOREM CrunchKeepsKnownElements ==
  ASSUME \A k \in Columns : CopyWidth(k) = FieldWidth[k]
  PROVE  Spec => CrunchKeepsElements
<1> DEFINE Keeps == \A content \in {RowContents(r) : r \in UsedRows} :
                      Copies(content)' = Copies(content)
<1>1. ASSUME TypeOK, NEW named \in BOOLEAN, Crunch(named), ~stray', NEW content
      PROVE  Copies(content)' = Copies(content)
  <2>1. CASE UNCHANGED vars
    BY <2>1 DEF vars, Copies, UsedRows, RowContents, ElementAt
  <2>2. ASSUME NEW src \in Sources, NumUsed < NumRows, MoveRows(src)
        PROVE  Copies(content)' = Copies(content)
    <3> DEFINE old == {r \in UsedRows : RowContents(r) = content}
               new == {r \in UsedRows' : RowContents(r)' = content}
               f == [r \in new |-> IF r \in Holes THEN src[r] ELSE r]
    <3>1. useField \in [Rows -> {0, 1}]
      BY <1>1 DEF TypeOK
    <3>2. /\ UsedRows' = 0 .. NumUsed - 1
          /\ \A r \in UsedRows' : r \notin Holes => r \in UsedRows \ Tail
      BY <2>2, <3>1, MovedRows
    <3>3. /\ src \in [Holes -> Tail]
          /\ \A g, h \in Holes : src[g] = src[h] => g = h
          /\ \A x \in Tail : \E hole \in Holes : src[hole] = x
      BY <2>2, <3>1, TailFillsHoles DEF Bijection, Injection, IsInjective, Surjection
    <3>4. /\ UsedRows \subseteq Rows /\ Tail \subseteq UsedRows /\ UsedRows' \subseteq Rows
          /\ Holes \subseteq Rows /\ Holes \subseteq UsedRows' /\ UsedRows \ Tail \subseteq UsedRows'
          /\ Holes \cap UsedRows = {}
      <4>1. NumUsed \in Nat
        BY NumUsedBounds
      <4> QED BY <3>2, <4>1 DEF UsedRows, Tail, Holes, FreeRows, Rows
    <3>5. \A r \in Holes : RowContents(r)' = RowContents(src[r])
      BY <2>2, <3>1, <3>3, <3>4, MovedContents
    <3>6. \A r \in Rows \ Holes : RowContents(r)' = RowContents(r)
      BY <2>2, <3>1, MovedContents
    <3>7. f \in [new -> old]
      BY <3>2, <3>3, <3>4, <3>5, <3>6
    <3>8. \A r, s \in new : f[r] = f[s] => r = s
      BY <3>2, <3>3, <3>4
    <3>9. ASSUME NEW x \in old PROVE \E r \in new : f[r] = x
      <4>1. CASE x \in Tail
        <5>1. PICK hole \in Holes : src[hole] = x
          BY <3>3, <4>1
        <5>2. hole \in new
          BY <3>4, <3>5, <5>1
        <5> QED BY <5>1, <5>2
      <4>2. CASE x \notin Tail
        <5>1. x \in new /\ x \notin Holes
          BY <3>4, <3>6, <4>2
        <5> QED BY <5>1
      <4> QED BY <4>1, <4>2
    <3>10. IsFiniteSet(new)
      <4>1. IsFiniteSet(Rows)
        BY FS_Interval DEF Rows
      <4> QED BY <3>4, <4>1, FS_Subset
    <3> HIDE DEF f
    <3>11. f \in Bijection(new, old)
      BY <3>7, <3>8, <3>9 DEF Bijection, Injection, IsInjective, Surjection
    <3>12. ExistsBijection(new, old)
      BY <3>11 DEF ExistsBijection
    <3> HIDE DEF new, old
    <3>13. Cardinality(old) = Cardinality(new)
      BY <3>10, <3>12, FS_Bijection
    <3> QED BY <3>13 DEF Copies, new, old
  <2> QED BY <1>1, <2>1, <2>2 DEF Crunch, Stray
<1>2. TypeOK => (CrunchStep /\ ~stray' => Keeps)
  BY <1>1 DEF CrunchStep
<1> QED
  BY <1>2, TypeCorrect, PTL DEF CrunchKeepsElements
-----------------------------------------------------------------------------
(***************************************************************************)
(* A table that is never crunched implements the map of TableAbs, whatever *)
(* its size, its columns and the program.                                  *)
(***************************************************************************)

(***************************************************************************)
(* The ids in use are counted by the rows in use.                          *)
(***************************************************************************)
LEMMA IdsAreFinite ==
  /\ IsFiniteSet(IdsInUse) /\ Cardinality(IdsInUse) \in Nat
  /\ IsFiniteSet(Rows) /\ Cardinality(Rows) = NumRows
  /\ IsFiniteSet(UsedRows) /\ Cardinality(UsedRows) \in Nat
  /\ Cardinality(IdsInUse) <= Cardinality(UsedRows)
<1>1. IsFiniteSet(Rows) /\ Cardinality(Rows) = NumRows
  BY FS_Interval DEF Rows
<1>2. UsedRows \subseteq Rows
  BY DEF UsedRows
<1>3. IsFiniteSet(UsedRows) /\ Cardinality(UsedRows) \in Nat
  BY <1>1, <1>2, FS_Subset, FS_CardinalityType
<1> DEFINE f == [r \in UsedRows |-> idField[r]]
<1>4. f \in Surjection(UsedRows, IdsInUse)
  BY DEF Surjection, IdsInUse
<1> HIDE DEF f
<1>5. IsFiniteSet(IdsInUse) /\ Cardinality(IdsInUse) <= Cardinality(UsedRows)
  BY <1>3, <1>4, FS_Surjection
<1>6. Cardinality(IdsInUse) \in Nat
  BY <1>5, FS_CardinalityType
<1> QED BY <1>1, <1>3, <1>5, <1>6

LEMMA RoomIsLeft == Promise!Room <=> Cardinality(IdsInUse) < NumRows
  BY DEF Promise!Room, Promise!Bound, Map, Promise!Cardinality, Cardinality

\* There is room for an id as long as there is a free row.
LEMMA FreeRowIsRoom ==
  ASSUME useField \in [Rows -> {0, 1}], FreeRows # {}
  PROVE  Promise!Room
<1>1. UsedRows \subseteq Rows /\ UsedRows # Rows
  BY DEF UsedRows, FreeRows
<1>2. Cardinality(UsedRows) <= NumRows /\ Cardinality(UsedRows) # NumRows
  BY <1>1, IdsAreFinite, FS_Subset
<1>3. Cardinality(IdsInUse) < NumRows
  BY <1>2, IdsAreFinite DEF Rows
<1> QED BY <1>3, RoomIsLeft

LEMMA NoFreeRowIsNoRoom ==
  ASSUME useField \in [Rows -> {0, 1}], UniqueIds, FreeRows = {}
  PROVE  ~Promise!Room
<1>1. UsedRows = Rows
  BY DEF UsedRows, FreeRows
<1> DEFINE f == [r \in UsedRows |-> idField[r]]
<1>2. f \in Injection(UsedRows, IdsInUse)
  BY DEF Injection, IsInjective, IdsInUse, UniqueIds
<1> HIDE DEF f
<1>3. Cardinality(UsedRows) <= Cardinality(IdsInUse)
  BY <1>2, IdsAreFinite, FS_Injection
<1>4. ~(Cardinality(IdsInUse) < NumRows)
  BY <1>1, <1>3, IdsAreFinite
<1> QED BY <1>4, RoomIsLeft

\* The id that insert finds by counting is the least that is not bound.
LEMMA CountedIdIsLeast ==
  ASSUME useField \in [Rows -> {0, 1}], FreeRows # {}
  PROVE  Promise!LeastUnused = Min(ZeroCounts)
<1> DEFINE S == (0 .. NumRows) \ IdsInUse
           m == Min(ZeroCounts)
<1>1. ZeroCounts # {} /\ ZeroCounts \subseteq Nat
  BY SomeCountIsZero DEF ZeroCounts, Rows
<1>2. m \in ZeroCounts /\ \A x \in ZeroCounts : m <= x
  BY <1>1, MinOfNats
<1>3. \A i \in Rows : i \in ZeroCounts <=> i \notin IdsInUse
  BY DEF ZeroCounts, RowsWithId, IdsInUse
<1>4. m \in Rows /\ m \in Nat /\ m <= NumRows
  BY <1>2 DEF ZeroCounts, Rows
<1>5. m \in S
  BY <1>2, <1>3, <1>4
<1>6. ASSUME NEW x \in S PROVE m <= x
  <2>1. x \in Rows \/ x = NumRows
    BY DEF Rows
  <2>2. x \in Rows => x \in ZeroCounts
    BY <1>3
  <2> QED BY <1>2, <1>4, <2>1, <2>2
<1>7. \A x \in S : (\A y \in S : x <= y) => x = m
  BY <1>4, <1>5, <1>6
<1> HIDE DEF m
<1>8. Min(S) = m
  <2>1. \E x \in S : \A y \in S : x <= y
    BY <1>5, <1>6
  <2> HIDE DEF S
  <2> QED BY <1>7, <2>1 DEF Min
<1>9. Promise!LeastUnused = Min(S)
  BY DEF Promise!LeastUnused, Promise!Bound, Map, Promise!Min, Min
<1> QED BY <1>8, <1>9 DEF m

(***************************************************************************)
(* The map behind a state.                                                 *)
(***************************************************************************)
\* The contents under the id of a used row are those of the row.
LEMMA MapOfRow ==
  ASSUME UniqueIds, NEW r \in UsedRows
  PROVE  idField[r] \in DOMAIN Map /\ Map[idField[r]] = RowContents(r)
<1> DEFINE s == CHOOSE s \in UsedRows : idField[s] = idField[r]
<1>1. s \in UsedRows /\ idField[s] = idField[r]
  OBVIOUS
<1>2. s = r
  BY <1>1 DEF UniqueIds
<1> HIDE DEF s
<1>3. idField[r] \in IdsInUse
  BY DEF IdsInUse
<1> QED BY <1>2, <1>3 DEF Map, s

\* A function with the ids in use as its domain, that gives each id the contents of its
\* row, is the map.
LEMMA MapIs ==
  ASSUME UniqueIds, NEW M, M = [i \in IdsInUse |-> M[i]],
         \A r \in UsedRows : M[idField[r]] = RowContents(r)
  PROVE  Map = M
<1>1. Map = [i \in IdsInUse |-> Map[i]]
  BY DEF Map
<1>2. ASSUME NEW i \in IdsInUse PROVE Map[i] = M[i]
  <2>1. PICK r \in UsedRows : idField[r] = i
    BY DEF IdsInUse
  <2>2. Map[idField[r]] = RowContents(r)
    BY MapOfRow
  <2> QED BY <2>1, <2>2
<1> QED BY <1>1, <1>2

\* The map as it is when the next row is claimed for an id, and no element is stored.
Claimed(id, row) ==
  IF id \in IdsInUse THEN Map
  ELSE [i \in IdsInUse \cup {id} |-> IF i = id THEN RowContents(row) ELSE Map[i]]

\* What a program can come by: the ids it names, and those that insert hands out.
IdsAreNamed == \A r \in UsedRows : idField[r] \in Ids \cup Rows

LEMMA ClaimGrows ==
  ASSUME TypeOK, UniqueIds, NEW id, NEW row, ClaimsFor(id, row)
  PROVE  /\ UsedRows' = UsedRows \cup {row}
         /\ \A r \in UsedRows' : idField'[r] = IF r = row THEN id ELSE idField[r]
         /\ \A r \in UsedRows : idField'[r] = idField[r]
         /\ IdsInUse' = IdsInUse \cup {id}
         /\ id \in IdsInUse <=> row \in UsedRows
         /\ UniqueIds'
<1>1. row \in Rows /\ useField \in [Rows -> {0, 1}] /\ idField \in [Rows -> Int]
  BY DEF ClaimsFor, TypeOK
<1>2. UsedRows' = UsedRows \cup {row}
  BY <1>1 DEF ClaimsFor, Claim, UsedRows
<1>3. \A r \in Rows : idField'[r] = IF r = row THEN id ELSE idField[r]
  BY <1>1 DEF ClaimsFor, Claim
<1>4. row \in UsedRows => idField[row] = id
  BY DEF ClaimsFor, RowsWithId, FreeRows, UsedRows
<1>5. UsedRows \subseteq Rows
  BY DEF UsedRows
<1>6. \A r \in UsedRows : idField'[r] = idField[r]
  BY <1>3, <1>4, <1>5
<1>7. \A r \in UsedRows' : idField'[r] = IF r = row THEN id ELSE idField[r]
  BY <1>1, <1>2, <1>3, <1>5
<1>8. IdsInUse' = IdsInUse \cup {id}
  BY <1>2, <1>6, <1>7 DEF IdsInUse
<1>9. \A r \in UsedRows : idField[r] = id => r = row
  BY DEF ClaimsFor, RowsWithId, UniqueIds
<1>10. id \in IdsInUse <=> row \in UsedRows
  BY <1>4, <1>9 DEF IdsInUse
<1>11. UniqueIds'
  BY <1>2, <1>7, <1>9 DEF UniqueIds
<1> QED BY <1>2, <1>6, <1>7, <1>8, <1>10, <1>11

LEMMA ClaimedContents ==
  ASSUME TypeOK, UniqueIds, NEW id, NEW row, ClaimsFor(id, row)
  PROVE  /\ Claimed(id, row) = [i \in IdsInUse' |-> Claimed(id, row)[i]]
         /\ \A r \in UsedRows' : Claimed(id, row)[idField'[r]] = RowContents(r)
<1> DEFINE M == Claimed(id, row)
<1>1. /\ UsedRows' = UsedRows \cup {row}
      /\ \A r \in UsedRows' : idField'[r] = IF r = row THEN id ELSE idField[r]
      /\ \A r \in UsedRows : idField'[r] = idField[r]
      /\ IdsInUse' = IdsInUse \cup {id}
      /\ id \in IdsInUse <=> row \in UsedRows
  BY ClaimGrows
<1>2. \A r \in UsedRows : idField[r] \in IdsInUse /\ Map[idField[r]] = RowContents(r)
  BY MapOfRow DEF IdsInUse
<1>3. CASE id \in IdsInUse
  <2>1. M = Map /\ IdsInUse' = IdsInUse /\ UsedRows' = UsedRows
    BY <1>1, <1>3 DEF Claimed
  <2>2. Map = [i \in IdsInUse |-> Map[i]]
    BY DEF Map
  <2> HIDE DEF M
  <2>3. M = [i \in IdsInUse' |-> M[i]] /\ \A r \in UsedRows' : M[idField'[r]] = RowContents(r)
    BY <1>1, <1>2, <2>1, <2>2
  <2> QED BY <2>3 DEF M
<1>4. CASE id \notin IdsInUse
  <2>1. M = [i \in IdsInUse \cup {id} |-> IF i = id THEN RowContents(row) ELSE Map[i]]
    BY <1>4 DEF Claimed
  <2> HIDE DEF M
  <2>2. M = [i \in IdsInUse' |-> M[i]]
    BY <1>1, <2>1
  <2>3. ASSUME NEW r \in UsedRows' PROVE M[idField'[r]] = RowContents(r)
    <3>1. CASE r = row
      BY <1>1, <2>1, <3>1
    <3>2. CASE r # row
      <4>1. r \in UsedRows /\ idField'[r] = idField[r] /\ idField[r] \in IdsInUse
        BY <1>1, <1>2, <3>2
      <4>2. idField[r] # id
        BY <1>4, <4>1
      <4> QED BY <1>2, <2>1, <4>1, <4>2
    <3> QED BY <3>1, <3>2
  <2> QED BY <2>2, <2>3 DEF M
<1> QED BY <1>3, <1>4


(***************************************************************************)
(* Storing an element changes that element of that row only.               *)
(***************************************************************************)
LEMMA StoreContents ==
  ASSUME MemoryOK(cells), NEW k \in Columns, NEW row \in Rows,
         NEW v \in [0 .. FieldWidth[k] - 1 -> CellContents],
         cells' = StoreAt(cells, k, row, v), NEW r \in Rows
  PROVE  RowContents(r)' =
           IF r = row THEN [RowContents(r) EXCEPT ![k] = v] ELSE RowContents(r)
<1> DEFINE w == FieldWidth[k]
           new == [c \in CellsOf(k) |->
                     IF c \in Span(w, row) THEN v[c - w * row] ELSE cells[k][c]]
<1>1. cells' = [cells EXCEPT ![k] = new] /\ DOMAIN cells = Columns
  BY DEF StoreAt, MemoryOK
<1>2. w \in Nat \ {0} /\ r \in Nat /\ row \in Nat /\ w * r \in Int /\ w * row \in Int
  BY DEF Rows
<1>3. ASSUME NEW b \in 0 .. w - 1
      PROVE  /\ w * r + b \in CellsOf(k)
             /\ r = row => w * r + b \in Span(w, row) /\ w * r + b - w * row = b
             /\ r # row => w * r + b \notin Span(w, row)
  <2>1. Span(w, r) \subseteq CellsOf(k)
    BY <1>2, SpanInColumn DEF CellsOf, Rows
  <2> HIDE DEF w
  <2>2. w * r + b \in Span(w, r)
    BY <1>2 DEF Span
  <2>3. r # row => w * r + b \notin Span(w, row)
    BY <1>2, SpansApart
  <2>4. r = row => w * r + b - w * row = b
    BY <1>2
  <2> QED BY <2>1, <2>2, <2>3, <2>4
<1>4. cells'[k] = new /\ \A j \in Columns : j # k => cells'[j] = cells[j]
  BY <1>1
<1>5. \A j \in Columns : j # k => ElementAt(j, r)' = ElementAt(j, r)
  BY <1>4 DEF ElementAt
<1>6. ElementAt(k, r)' = [b \in 0 .. w - 1 |-> new[w * r + b]]
  BY <1>4 DEF ElementAt
<1>7. CASE r = row
  <2>1. ASSUME NEW b \in 0 .. w - 1 PROVE new[w * r + b] = v[b]
    <3> DEFINE c == w * r + b
    <3>1. c \in CellsOf(k)
      BY <1>3
    <3>2. c \in Span(w, row)
      BY <1>3, <1>7
    <3> HIDE DEF w
    <3>3. c - w * row = b
      BY <1>2, <1>7
    <3> HIDE DEF c
    <3>4. new[c] = v[c - w * row]
      BY <3>1, <3>2
    <3> HIDE DEF new
    <3> QED BY <3>3, <3>4 DEF c
  <2> HIDE DEF new
  <2>2. ElementAt(k, r)' = v
    BY <1>6, <2>1
  <2> QED BY <1>5, <1>7, <2>2 DEF RowContents
<1>8. CASE r # row
  <2>1. \A b \in 0 .. w - 1 : new[w * r + b] = cells[k][w * r + b]
    BY <1>3, <1>8
  <2> HIDE DEF new
  <2>2. ElementAt(k, r)' = ElementAt(k, r)
    BY <1>6, <2>1 DEF ElementAt
  <2> QED BY <1>5, <1>8, <2>2 DEF RowContents
<1> QED BY <1>7, <1>8

(***************************************************************************)
(* The map after a step.                                                   *)
(***************************************************************************)
LEMMA NextMapIs ==
  ASSUME UniqueIds', NEW M, M = [i \in IdsInUse' |-> M[i]],
         \A r \in UsedRows' : M[idField'[r]] = RowContents(r)'
  PROVE  Map' = M
<1> DEFINE contents(r) ==
             [k \in Columns |-> [b \in 0 .. FieldWidth[k] - 1 |-> cells'[k][FieldWidth[k] * r + b]]]
           holder(i) == CHOOSE r \in UsedRows' : idField'[r] = i
<1>1. Map' = [i \in IdsInUse' |-> contents(holder(i))]
  BY DEF Map, RowContents, ElementAt
<1>2. \A r \in UsedRows' : M[idField'[r]] = contents(r)
  BY DEF RowContents, ElementAt
<1> HIDE DEF contents
<1>3. ASSUME NEW i \in IdsInUse' PROVE contents(holder(i)) = M[i]
  <2>1. holder(i) \in UsedRows' /\ idField'[holder(i)] = i
    BY DEF IdsInUse
  <2> HIDE DEF holder
  <2> QED BY <1>2, <2>1
<1> HIDE DEF holder
<1> QED BY <1>1, <1>3


\* Claiming a row without storing anything binds its id.
LEMMA ClaimedMap ==
  ASSUME TypeOK, UniqueIds, NEW id, NEW row, ClaimsFor(id, row), UNCHANGED cells
  PROVE  Map' = Claimed(id, row)
<1> DEFINE M == Claimed(id, row)
<1>1. M = [i \in IdsInUse' |-> M[i]] /\ \A r \in UsedRows' : M[idField'[r]] = RowContents(r)
  BY ClaimedContents
<1>2. \A r \in UsedRows' : RowContents(r)' = RowContents(r)
  BY DEF RowContents, ElementAt
<1>3. UniqueIds'
  BY ClaimGrows
<1> HIDE DEF M
<1>4. Map' = M
  BY <1>1, <1>2, <1>3, NextMapIs
<1> QED BY <1>4 DEF M

\* Storing an element after that changes this element of the id that the row has.
LEMMA StoredMap ==
  ASSUME TypeOK, UniqueIds, NEW id, NEW row, ClaimsFor(id, row),
         NEW target \in UsedRows', NEW k \in Columns,
         NEW v \in [0 .. FieldWidth[k] - 1 -> CellContents],
         cells' = StoreAt(cells, k, target, v)
  PROVE  Map' = [Claimed(id, row) EXCEPT ![idField'[target]] = [@ EXCEPT ![k] = v]]
<1> DEFINE M == Claimed(id, row)
           t == idField'[target]
           N == [M EXCEPT ![t] = [@ EXCEPT ![k] = v]]
<1>1. M = [i \in IdsInUse' |-> M[i]] /\ \A r \in UsedRows' : M[idField'[r]] = RowContents(r)
  BY ClaimedContents
<1>2. MemoryOK(cells)
  BY DEF TypeOK, MemoryOK, CellContents
<1>3. UsedRows' \subseteq Rows
  BY DEF UsedRows
<1>4. \A r \in UsedRows' : RowContents(r)' =
        IF r = target THEN [RowContents(r) EXCEPT ![k] = v] ELSE RowContents(r)
  BY <1>2, <1>3, StoreContents
<1>5. UniqueIds'
  BY ClaimGrows
<1>6. t \in IdsInUse'
  BY DEF IdsInUse
<1> HIDE DEF M
<1>7. N = [i \in IdsInUse' |-> N[i]]
  BY <1>1
<1>8. \A i \in IdsInUse' : N[i] = IF i = t THEN [M[t] EXCEPT ![k] = v] ELSE M[i]
  BY <1>1, <1>6
<1>9. ASSUME NEW r \in UsedRows' PROVE N[idField'[r]] = RowContents(r)'
  <2>1. idField'[r] = t <=> r = target
    BY <1>5 DEF UniqueIds
  <2>2. idField'[r] \in IdsInUse'
    BY DEF IdsInUse
  <2> HIDE DEF N, t
  <2> QED BY <1>1, <1>4, <1>8, <2>1, <2>2
<1> HIDE DEF N
<1>10. Map' = N
  BY <1>5, <1>7, <1>9, NextMapIs
<1> QED BY <1>10 DEF N, M

(***************************************************************************)
(* The steps of the map.                                                   *)
(***************************************************************************)
\* Claiming a row is one of the ways to bind its id, and needs room for a new one only.
LEMMA ClaimBinds ==
  ASSUME TypeOK, UniqueIds, NEW id, NEW row, ClaimsFor(id, row)
  PROVE  /\ Claimed(id, row) \in Promise!Binding(id)
         /\ id \in DOMAIN Map \/ Promise!Room
<1>1. DOMAIN Map = IdsInUse
  BY DEF Map
<1>2. \A k \in Columns : ElementAt(k, row) \in AllElements
  BY ElementIsContents DEF ClaimsFor, TypeOK, MemoryOK, CellContents, AllElements
<1>3. RowContents(row) \in [Columns -> AllElements]
  BY <1>2 DEF RowContents
<1>4. Claimed(id, row) \in Promise!Binding(id)
  BY <1>1, <1>3 DEF Claimed, Promise!Binding, Promise!Bound
<1>5. id \in IdsInUse \/ row \in FreeRows
  BY DEF ClaimsFor, RowsWithId, IdsInUse
<1>6. useField \in [Rows -> {0, 1}]
  BY DEF TypeOK
<1> QED BY <1>1, <1>4, <1>5, <1>6, FreeRowIsRoom


LEMMA SameMap ==
  ASSUME UNCHANGED <<idField, useField, cells>>
  PROVE  Map' = Map
  BY DEF Map, IdsInUse, UsedRows, RowContents, ElementAt

\* The table is left only where the map has broken its promise.
LEMMA StrayBreaks ==
  ASSUME TypeOK, UniqueIds, Stray, CountStrays \/ FreeRows = {}
  PROVE  Promise!AbsBreak
<1>1. Map' = Map /\ stray' = TRUE /\ UNCHANGED idVar
  BY SameMap DEF Stray
<1>2. CASE FreeRows = {}
  <2>1. ~Promise!Room
    BY <1>2, NoFreeRowIsNoRoom DEF TypeOK
  <2> QED BY <1>1, <2>1 DEF Promise!AbsBreak
<1>3. CASE CountStrays
  <2>1. PICK r \in UsedRows : idField[r] \notin Rows
    BY <1>3 DEF CountStrays
  <2>2. idField[r] \in Promise!Bound
    BY MapOfRow DEF Promise!Bound
  <2>3. idField[r] \notin 0 .. NumRows - 1
    BY <2>1 DEF Rows
  <2> QED BY <1>1, <2>2, <2>3 DEF Promise!AbsBreak
<1> QED BY <1>2, <1>3

LEMMA NoRowIsFull ==
  ASSUME TypeOK, NEW id, RowOf(id) = -1
  PROVE  FreeRows = {}
<1>1. RowsWithId(id) = {}
  <2>1. RowsWithId(id) # {} => RowOf(id) \in RowsWithId(id)
    BY ScansReturnRows DEF TypeOK
  <2>2. RowsWithId(id) \subseteq Rows /\ -1 \notin Rows
    BY DEF RowsWithId, UsedRows, Rows
  <2> QED BY <2>1, <2>2
<1>2. FreeRows # {} => Min(FreeRows) \in Rows
  BY ScansReturnRows DEF TypeOK, FreeRows
<1>3. FreeRows # {} => RowOf(id) = Min(FreeRows)
  BY <1>1 DEF RowOf
<1> QED BY <1>2, <1>3 DEF Rows

LEMMA ScanClaims ==
  ASSUME TypeOK, NEW id, RowOf(id) # -1, Claim(RowOf(id), id)
  PROVE  ClaimsFor(id, RowOf(id))
<1>1. RowOf(id) \in Rows
  BY ScansReturnRows DEF TypeOK
<1>2. \/ RowOf(id) \in RowsWithId(id)
      \/ RowOf(id) \in FreeRows /\ RowsWithId(id) = {}
  BY ScansReturnRows DEF TypeOK
<1> QED BY <1>1, <1>2 DEF ClaimsFor

LEMMA InsertBinds ==
  ASSUME TypeOK, UniqueIds, NEW named \in BOOLEAN, InsertRow(named)
  PROVE  Promise!AbsInsert(named) \/ Promise!AbsBreak
<1>1. CASE CountStrays \/ FreeRows = {}
  BY <1>1, StrayBreaks DEF InsertRow
<1>2. CASE ~CountStrays /\ FreeRows # {}
  <2> DEFINE row == Min(FreeRows)
             id0 == Min(ZeroCounts)
  <2>1. /\ Claim(row, id0)
        /\ idVar' = IF named THEN id0 ELSE idVar
        /\ UNCHANGED <<cells, stray>>
    BY <1>2 DEF InsertRow
  <2>2. row \in FreeRows /\ id0 \in ZeroCounts
    BY <1>2, ScansReturnRows DEF TypeOK
  <2>3. row \in Rows /\ RowsWithId(id0) = {}
    BY <2>2 DEF FreeRows, ZeroCounts
  <2>4. id0 = Promise!LeastUnused
    BY <1>2, CountedIdIsLeast DEF TypeOK
  <2> HIDE DEF row, id0
  <2>5. ClaimsFor(id0, row)
    BY <2>1, <2>2, <2>3 DEF ClaimsFor
  <2>6. Map' \in Promise!Binding(id0)
    BY <2>1, <2>5, ClaimedMap, ClaimBinds
  <2>7. Promise!Room
    BY <1>2, FreeRowIsRoom DEF TypeOK
  <2> QED BY <2>1, <2>4, <2>6, <2>7 DEF Promise!AbsInsert
<1> QED BY <1>1, <1>2

LEMMA ReadTouches ==
  ASSUME TypeOK, UniqueIds, NEW id, ReadRow(id)
  PROVE  Promise!AbsTouch(id) \/ Promise!AbsBreak
<1>1. CASE RowOf(id) = -1
  BY <1>1, NoRowIsFull, StrayBreaks DEF ReadRow
<1>2. CASE RowOf(id) # -1
  <2>1. Claim(RowOf(id), id) /\ UNCHANGED <<cells, idVar, stray>>
    BY <1>2 DEF ReadRow
  <2>2. ClaimsFor(id, RowOf(id))
    BY <1>2, <2>1, ScanClaims
  <2>3. Map' \in Promise!Binding(id) /\ (id \in DOMAIN Map \/ Promise!Room)
    BY <2>1, <2>2, ClaimedMap, ClaimBinds
  <2> QED BY <2>1, <2>3 DEF Promise!AbsTouch, Promise!Bound
<1> QED BY <1>1, <1>2

\* Storing an element along with a claim is a store of the map.
LEMMA ClaimedStore ==
  ASSUME TypeOK, UniqueIds, NEW id, NEW row, ClaimsFor(id, row),
         NEW target \in UsedRows', NEW t, t = idField'[target], NEW k \in Columns,
         NEW v \in [0 .. FieldWidth[k] - 1 -> CellContents],
         cells' = StoreAt(cells, k, target, v),
         UNCHANGED <<idVar, stray>>
  PROVE  Promise!AbsStore(t, id, k, v)
<1> DEFINE M == Claimed(id, row)
<1>1. M \in Promise!Binding(id) /\ (id \in DOMAIN Map \/ Promise!Room)
  BY ClaimBinds
<1>2. Map' = [M EXCEPT ![idField'[target]] = [@ EXCEPT ![k] = v]]
  BY StoredMap
<1>3. t \in DOMAIN Map \cup {id}
  <2>1. t \in IdsInUse'
    BY DEF IdsInUse
  <2>2. IdsInUse' = IdsInUse \cup {id} /\ DOMAIN Map = IdsInUse
    BY ClaimGrows DEF Map
  <2> QED BY <2>1, <2>2
<1> HIDE DEF M
<1>4. Map' = [M EXCEPT ![t] = [@ EXCEPT ![k] = v]]
  BY <1>2
<1> QED BY <1>1, <1>3, <1>4 DEF Promise!AbsStore, Promise!Bound


LEMMA WriteStores ==
  ASSUME TypeOK, UniqueIds, NEW id, NEW k \in Columns, NEW v \in Element(k),
         WriteRow(id, k, v)
  PROVE  Promise!AbsStore(id, id, k, v) \/ Promise!AbsBreak
<1>1. CASE RowOf(id) = -1
  BY <1>1, NoRowIsFull, StrayBreaks DEF WriteRow
<1>2. CASE RowOf(id) # -1
  <2> DEFINE row == RowOf(id)
  <2>1. Claim(row, id) /\ cells' = StoreAt(cells, k, row, v) /\ UNCHANGED <<idVar, stray>>
    BY <1>2 DEF WriteRow
  <2>2. ClaimsFor(id, row)
    BY <1>2, <2>1, ScanClaims
  <2> HIDE DEF row
  <2>3. row \in UsedRows' /\ id = idField'[row]
    BY <2>2, ClaimGrows
  <2>4. v \in [0 .. FieldWidth[k] - 1 -> CellContents]
    BY DEF Element, CellContents
  <2> QED BY <2>1, <2>2, <2>3, <2>4, ClaimedStore
<1> QED BY <1>1, <1>2

LEMMA DeleteUnbinds ==
  ASSUME TypeOK, UniqueIds, NEW id, DeleteRow(id)
  PROVE  UniqueIds' /\ Promise!AbsDelete(id)
<1> DEFINE M == [i \in IdsInUse \ {id} |-> Map[i]]
<1>1. /\ useField' = [r \in Rows |-> IF idField[r] = id THEN 0 ELSE useField[r]]
      /\ UNCHANGED <<idField, cells, idVar, stray>>
  BY DEF DeleteRow
<1>2. UsedRows' = {r \in UsedRows : idField[r] # id}
  BY <1>1 DEF UsedRows
<1>3. IdsInUse' = IdsInUse \ {id}
  BY <1>1, <1>2 DEF IdsInUse
<1>4. UniqueIds'
  BY <1>1, <1>2 DEF UniqueIds
<1>5. \A r \in UsedRows' : RowContents(r)' = RowContents(r)
  BY <1>1 DEF RowContents, ElementAt
<1>6. M = [i \in IdsInUse' |-> M[i]]
  BY <1>3
<1>7. ASSUME NEW r \in UsedRows' PROVE M[idField'[r]] = RowContents(r)'
  <2>1. r \in UsedRows /\ idField'[r] = idField[r] /\ idField[r] \in IdsInUse \ {id}
    BY <1>1, <1>2 DEF IdsInUse
  <2>2. Map[idField[r]] = RowContents(r)
    BY <2>1, MapOfRow
  <2> QED BY <1>5, <2>1, <2>2
<1> HIDE DEF M
<1>8. Map' = M
  BY <1>4, <1>6, <1>7, NextMapIs
<1>9. DOMAIN Map = IdsInUse
  BY DEF Map
<1> QED BY <1>1, <1>4, <1>8, <1>9 DEF M, Promise!AbsDelete, Promise!Bound

\* The row being filled keeps its id, whatever is claimed meanwhile.
LEMMA FillingStays ==
  ASSUME TypeOK, FillingRowIsUsed, filling # Idle
  PROVE  /\ filling.row \in UsedRows /\ filling.row \in Rows
         /\ filling.column \in Columns
         /\ idField[filling.row] \in IdsInUse
  BY DEF FillingRowIsUsed, UsedRows, TypeOK, IdsInUse

LEMMA FillStores ==
  ASSUME TypeOK, UniqueIds, FillingRowIsUsed, filling # Idle,
         NEW v \in Element(filling.column), StoreElement(v)
  PROVE  Promise!AbsStore(idField[filling.row], idField[filling.row], filling.column, v)
<1> DEFINE row == filling.row
           k == filling.column
           id == idField[row]
<1>1. row \in UsedRows /\ row \in Rows /\ k \in Columns
  BY FillingStays
<1>2. /\ UNCHANGED <<idField, useField, idVar, stray>>
      /\ cells' = StoreAt(cells, k, row, v)
  BY DEF StoreElement
<1>3. Claim(row, id)
  BY <1>1, <1>2 DEF Claim, UsedRows, TypeOK
<1>4. ClaimsFor(id, row)
  BY <1>1, <1>3 DEF ClaimsFor, RowsWithId
<1>5. row \in UsedRows' /\ id = idField'[row]
  BY <1>1, <1>2 DEF UsedRows
<1>6. v \in [0 .. FieldWidth[k] - 1 -> CellContents]
  BY DEF Element, CellContents
<1> HIDE DEF row, k, id
<1>7. Promise!AbsStore(id, id, k, v)
  BY <1>1, <1>2, <1>4, <1>5, <1>6, ClaimedStore
<1> QED BY <1>7 DEF row, k, id

LEMMA FillFromRowStores ==
  ASSUME TypeOK, UniqueIds, FillingRowIsUsed, NEW id, NEW k \in Columns,
         StoreFromRow(id, k)
  PROVE  \/ Promise!AbsBreak
         \/ /\ RowOf(id) \in Rows
            /\ ClaimsFor(id, RowOf(id))
            /\ cells' = StoreAt(cells, filling.column, filling.row, ElementAt(k, RowOf(id)))
            /\ ElementAt(k, RowOf(id)) \in AllElements
            /\ Promise!AbsStore(idField[filling.row], id, filling.column,
                                ElementAt(k, RowOf(id)))
<1>1. CASE RowOf(id) = -1
  BY <1>1, NoRowIsFull, StrayBreaks DEF StoreFromRow
<1>2. CASE RowOf(id) # -1
  <2> DEFINE row == filling.row
             c == filling.column
             from == RowOf(id)
             t == idField[row]
             v == ElementAt(k, from)
  <2>1. /\ Claim(from, id)
        /\ cells' = StoreAt(cells, c, row, v)
        /\ UNCHANGED <<idVar, stray>>
        /\ filling # Idle
        /\ FieldWidth[k] = FieldWidth[c]
    BY <1>2 DEF StoreFromRow
  <2>2. row \in UsedRows /\ c \in Columns
    BY <2>1, FillingStays
  <2>3. ClaimsFor(id, from)
    BY <1>2, <2>1, ScanClaims
  <2>4. from \in Rows
    BY <2>3 DEF ClaimsFor
  <2>5. v \in [0 .. FieldWidth[k] - 1 -> CellContents]
    BY <2>4, ElementIsContents DEF TypeOK, MemoryOK, CellContents
  <2>6. v \in AllElements
    BY <2>5 DEF AllElements, CellContents
  <2> HIDE DEF row, c, from, v
  <2>7. row \in UsedRows' /\ t = idField'[row]
    BY <2>2, <2>3, ClaimGrows
  <2>8. v \in [0 .. FieldWidth[c] - 1 -> CellContents]
    BY <2>1, <2>5
  <2> HIDE DEF t
  <2>9. Promise!AbsStore(t, id, c, v)
    BY <2>1, <2>2, <2>3, <2>7, <2>8, ClaimedStore
  <2> QED BY <2>1, <2>3, <2>4, <2>6, <2>9 DEF row, c, from, t, v
<1> QED BY <1>1, <1>2


\* The element a row reference yields is the one under its id: before the step, if the id
\* was bound, and else the one that memory held, which the step makes the id's.
LEMMA ReferencedElement ==
  ASSUME TypeOK, UniqueIds, NEW target \in UsedRows, NEW column \in Columns,
         NEW id, NEW k \in Columns, NEW from, from = RowOf(id), ClaimsFor(id, from),
         NEW v \in [0 .. FieldWidth[column] - 1 -> CellContents], v = ElementAt(k, from),
         cells' = StoreAt(cells, column, target, v)
  PROVE  v = IF id \in IdsInUse THEN Map[id][k] ELSE Map'[id][k]
<1>1. RowContents(from)[k] = v
  BY DEF RowContents
<1>2. CASE id \in IdsInUse
  <2>1. RowsWithId(id) # {}
    BY <1>2 DEF IdsInUse, RowsWithId
  <2>2. from \in RowsWithId(id)
    BY <2>1, ScansReturnRows DEF TypeOK
  <2>3. from \in UsedRows /\ idField[from] = id
    BY <2>2 DEF RowsWithId
  <2>4. Map[id] = RowContents(from)
    BY <2>3, MapOfRow
  <2> QED BY <1>1, <1>2, <2>4
<1>3. CASE id \notin IdsInUse
  <2> DEFINE M == Claimed(id, from)
             t == idField[target]
  <2>1. target \in UsedRows' /\ idField'[target] = t
    BY ClaimGrows
  <2>2. M[id] = RowContents(from) /\ DOMAIN M = IdsInUse \cup {id}
    BY <1>3 DEF Claimed
  <2>3. Map' = [M EXCEPT ![idField'[target]] = [@ EXCEPT ![column] = v]]
    BY <2>1, StoredMap
  <2>4. id # t
    BY <1>3 DEF IdsInUse
  <2> HIDE DEF M, t
  <2>5. Map'[id] = RowContents(from)
    BY <2>1, <2>2, <2>3, <2>4
  <2> QED BY <1>1, <1>3, <2>5
<1> QED BY <1>2, <1>3

LEMMA CountedRows ==
  ASSUME UniqueIds
  PROVE  NumUsed = Cardinality(IdsInUse)
<1> DEFINE f == [r \in UsedRows |-> idField[r]]
<1>1. f \in Injection(UsedRows, IdsInUse)
  BY DEF Injection, IsInjective, IdsInUse, UniqueIds
<1> HIDE DEF f
<1>2. Cardinality(UsedRows) <= Cardinality(IdsInUse)
  BY <1>1, IdsAreFinite, FS_Injection
<1> QED BY <1>2, IdsAreFinite DEF NumUsed

(***************************************************************************)
(* The theorems.                                                           *)
(***************************************************************************)
\* Whatever else a program does to it, a table that is never crunched carries out each
\* statement as the step of the map that the statement says it is.
THEOREM StatementsAreMapSteps ==
  ASSUME "crunch" \notin Statements
  PROVE  Spec => StatementsKeepPromise
<1> DEFINE inserts == \A named \in BOOLEAN :
             InsertRow(named) => Promise!AbsInsert(named) \/ Promise!AbsBreak
           named == \A id \in Ids :
             /\ ReadRow(id) => Promise!AbsTouch(id) \/ Promise!AbsBreak
             /\ DeleteRow(id) => Promise!AbsDelete(id)
             /\ \A k \in Columns : \A v \in Element(k) :
                  WriteRow(id, k, v) => Promise!AbsStore(id, id, k, v) \/ Promise!AbsBreak
           fills == filling # Idle =>
             LET target == idField[filling.row]
                 column == filling.column
             IN  /\ \A v \in Element(column) :
                      StoreElement(v) => Promise!AbsStore(target, target, column, v)
                 /\ \A id \in Ids, k \in Columns :
                      StoreFromRow(id, k) =>
                        \/ Promise!AbsStore(target, id, column,
                             IF id \in IdsInUse THEN Map[id][k] ELSE Map'[id][k])
                        \/ Promise!AbsBreak
           measures == Measure => numVar' = Cardinality(IdsInUse)
<1>1. ASSUME TypeOK, UniqueIds, FillingRowIsUsed
      PROVE  inserts /\ named /\ fills /\ measures
  <2>1. inserts
    BY <1>1, InsertBinds
  <2>2. named
    BY <1>1, ReadTouches, DeleteUnbinds, WriteStores
  <2>3. ASSUME filling # Idle, NEW v \in Element(filling.column), StoreElement(v)
        PROVE  Promise!AbsStore(idField[filling.row], idField[filling.row], filling.column, v)
    BY <1>1, <2>3, FillStores
  <2>4. ASSUME filling # Idle, NEW id \in Ids, NEW k \in Columns, StoreFromRow(id, k),
               ~Promise!AbsBreak
        PROVE  Promise!AbsStore(idField[filling.row], id, filling.column,
                 IF id \in IdsInUse THEN Map[id][k] ELSE Map'[id][k])
    <3> DEFINE v == ElementAt(k, RowOf(id))
    <3>1. /\ RowOf(id) \in Rows
          /\ ClaimsFor(id, RowOf(id))
          /\ cells' = StoreAt(cells, filling.column, filling.row, v)
          /\ Promise!AbsStore(idField[filling.row], id, filling.column, v)
      BY <1>1, <2>4, FillFromRowStores
    <3>2. v \in [0 .. FieldWidth[k] - 1 -> CellContents]
      BY <1>1, <3>1, ElementIsContents DEF TypeOK, MemoryOK, CellContents
    <3>3. FieldWidth[k] = FieldWidth[filling.column]
      BY <2>4 DEF StoreFromRow
    <3>4. v \in [0 .. FieldWidth[filling.column] - 1 -> CellContents]
      BY <3>2, <3>3
    <3>5. v = IF id \in IdsInUse THEN Map[id][k] ELSE Map'[id][k]
      <4>1. filling.row \in UsedRows /\ filling.column \in Columns
        BY <1>1, <2>4, FillingStays
      <4> QED BY <1>1, <2>4, <3>1, <3>4, <4>1, ReferencedElement
    <3> HIDE DEF v
    <3> QED BY <3>1, <3>5
  <2>5. fills
    BY <2>3, <2>4
  <2>6. measures
    BY <1>1, CountedRows DEF Measure
  <2> QED BY <2>1, <2>2, <2>5, <2>6
<1> QED
  BY <1>1, TypeCorrect, IdsStayUnique, FillingRowStaysUsed, PTL DEF StatementsKeepPromise


\* Every id in use is one the program names or one that insert has handed out.
THEOREM IdsStayNamed ==
  ASSUME "crunch" \notin Statements
  PROVE  Spec => []IdsAreNamed
<1>1. Init => IdsAreNamed
  BY DEF Init, IdsAreNamed, UsedRows
<1>2. TypeOK /\ UniqueIds /\ IdsAreNamed /\ [Next]_vars => IdsAreNamed'
  <2> SUFFICES ASSUME TypeOK, UniqueIds, IdsAreNamed, [Next]_vars
               PROVE  IdsAreNamed'
    OBVIOUS
  <2>1. CASE UNCHANGED <<idField, useField>>
    BY <2>1 DEF IdsAreNamed, UsedRows
  <2>2. ASSUME NEW id \in Ids \cup Rows, NEW row \in Rows, ClaimsFor(id, row)
        PROVE  IdsAreNamed'
    BY <2>2, ClaimGrows DEF IdsAreNamed
  <2>3. ASSUME NEW id \in Ids, DeleteRow(id)
        PROVE  IdsAreNamed'
    BY <2>3 DEF DeleteRow, UsedRows, TypeOK, IdsAreNamed
  <2>4. CASE UNCHANGED vars
    BY <2>1, <2>4 DEF vars
  <2> QED
    BY <2>1, <2>2, <2>3, <2>4, StepsClaim DEF ClaimStep
<1> QED
  BY <1>1, <1>2, TypeCorrect, IdsStayUnique, PTL DEF Spec

LEMMA ElementsAreContents ==
  ASSUME NEW k \in Columns
  PROVE  Element(k) \subseteq AllElements
<1>1. Element(k) \subseteq [0 .. FieldWidth[k] - 1 -> CellValues \cup {Garbage}]
  BY DEF Element
<1> QED BY <1>1 DEF AllElements

\* A table that is never crunched is a map from ids to elements, of every size, with any
\* columns and for every program.
THEOREM TableImplementsMap ==
  ASSUME "crunch" \notin Statements
  PROVE  Spec => ImplementsMap
<1>1. Init => Promise!AbsInit
  <2> SUFFICES ASSUME Init PROVE Promise!AbsInit
    OBVIOUS
  <2>1. IdsInUse = {}
    BY DEF Init, UsedRows, IdsInUse
  <2>2. Map = [id \in {} |-> {}]
    BY <2>1 DEF Map
  <2> QED BY <2>2 DEF Init, Promise!AbsInit
<1>2. TypeOK /\ UniqueIds /\ FillingRowIsUsed /\ IdsAreNamed /\ [Next]_vars
        => [Promise!AbsNext]_(Promise!absVars)
  <2> SUFFICES ASSUME TypeOK, UniqueIds, FillingRowIsUsed, IdsAreNamed, [Next]_vars
               PROVE  Promise!AbsNext \/ UNCHANGED <<Map, idVar, stray>>
    BY DEF Promise!absVars
  <2>1. ASSUME Promise!AbsBreak, ~stray
        PROVE  Promise!AbsNext
    BY <2>1 DEF Promise!AbsNext
  <2>2. ASSUME NEW named \in BOOLEAN, InsertRow(named)
        PROVE  Promise!AbsNext
    <3>1. ~stray
      BY <2>2 DEF InsertRow, Ready
    <3>2. Promise!AbsInsert(named) \/ Promise!AbsBreak
      BY <2>2, InsertBinds
    <3> QED BY <3>1, <3>2 DEF Promise!AbsNext
  <2>3. ASSUME filling # Idle, NEW v \in Element(filling.column), StoreElement(v)
        PROVE  Promise!AbsNext
    <3> DEFINE t == idField[filling.row]
    <3>1. ~stray
      BY <2>3 DEF StoreElement
    <3>2. Promise!AbsStore(t, t, filling.column, v)
      BY <2>3, FillStores
    <3>3. filling.column \in Columns /\ filling.row \in UsedRows
      BY <2>3, FillingStays
    <3>4. t \in Ids \cup Rows
      BY <3>3 DEF IdsAreNamed
    <3>5. v \in AllElements
      BY <3>3, ElementsAreContents
    <3> HIDE DEF t
    <3> QED BY <3>1, <3>2, <3>3, <3>4, <3>5 DEF Promise!AbsNext
  <2>4. ASSUME NEW id \in Ids, NEW k \in Columns, StoreFromRow(id, k)
        PROVE  Promise!AbsNext
    <3> DEFINE t == idField[filling.row]
               v == ElementAt(k, RowOf(id))
    <3>1. ~stray /\ filling # Idle
      BY <2>4 DEF StoreFromRow
    <3>2. \/ Promise!AbsBreak
          \/ v \in AllElements /\ Promise!AbsStore(t, id, filling.column, v)
      BY <2>4, FillFromRowStores
    <3>3. filling.column \in Columns /\ filling.row \in UsedRows
      BY <3>1, FillingStays
    <3>4. t \in Ids \cup Rows
      BY <3>3 DEF IdsAreNamed
    <3> HIDE DEF t, v
    <3> QED BY <3>1, <3>2, <3>3, <3>4 DEF Promise!AbsNext
  <2>5. ASSUME NEW id \in Ids, ReadRow(id)
        PROVE  Promise!AbsNext
    <3>1. ~stray
      BY <2>5 DEF ReadRow, Ready
    <3>2. Promise!AbsTouch(id) \/ Promise!AbsBreak
      BY <2>5, ReadTouches
    <3> QED BY <3>1, <3>2 DEF Promise!AbsNext
  <2>6. ASSUME NEW id \in Ids, NEW k \in Columns, NEW v \in Element(k), WriteRow(id, k, v)
        PROVE  Promise!AbsNext
    <3>1. ~stray
      BY <2>6 DEF WriteRow, Ready
    <3>2. Promise!AbsStore(id, id, k, v) \/ Promise!AbsBreak
      BY <2>6, WriteStores
    <3>3. v \in AllElements
      BY ElementsAreContents
    <3> QED BY <3>1, <3>2, <3>3 DEF Promise!AbsNext
  <2>7. ASSUME NEW id \in Ids, DeleteRow(id)
        PROVE  Promise!AbsNext
    <3>1. ~stray
      BY <2>7 DEF DeleteRow, Ready
    <3>2. Promise!AbsDelete(id)
      BY <2>7, DeleteUnbinds
    <3> QED BY <3>1, <3>2 DEF Promise!AbsNext
  <2>8. ASSUME Measure
        PROVE  UNCHANGED <<Map, idVar, stray>>
    BY <2>8, SameMap DEF Measure
  <2>9. CASE UNCHANGED vars
    BY <2>9, SameMap DEF vars
  <2> QED
    BY <2>2, <2>3, <2>4, <2>5, <2>6, <2>7, <2>8, <2>9 DEF Next
<1> QED
  BY <1>1, <1>2, TypeCorrect, IdsStayUnique, FillingRowStaysUsed, IdsStayNamed, PTL
  DEF Spec, ImplementsMap, Promise!AbsSpec
=============================================================================
