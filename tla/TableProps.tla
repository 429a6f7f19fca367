----------------------------- MODULE TableProps -----------------------------
(***************************************************************************)
(* What the table runtime and the code built around it guarantee to every  *)
(* program, and what its comments say of crunch.                           *)
(***************************************************************************)
EXTENDS Table

TypeOK ==
  /\ idField \in [Rows -> Int]
  /\ useField \in [Rows -> {0, 1}]
  /\ DOMAIN cells = Columns
  /\ \A k \in Columns : cells[k] \in [CellsOf(k) -> CellValues \cup {Garbage}]
  /\ filling \in {Idle} \cup [row : Rows, column : Columns]
  /\ idVar \in Int
  /\ numVar \in 0 .. NumRows
  /\ stray \in BOOLEAN

\* No two used rows carry the same id, although an insert, a row reference in
\* one of its elements and a delete may follow one another in any order: the
\* runtime never stores the id of a row without having searched for it.
UniqueIds ==
  \A r, s \in UsedRows : idField[r] = idField[s] => r = s

\* What StatementsKeepPromise rests on: while an insert waits for its remaining
\* elements its row is in use, so that no element expression can be given the
\* row and lose an element already stored.
FillingRowIsUsed ==
  filling # Idle => filling.row \in UsedRows

\* What the next property rests on: every used row's id is one that
\* core_table_insertRow can count.
IdsAreCounted == ~CountStrays

\* A program that names only ids between 0 and NumRows-1 leaves the table's
\* memory only when it asks a full table for one row more.  The ids that
\* insert hands out and those crunch writes are all between these bounds.
StrayOnlyWhenFull ==
  [][stray' /\ ~stray => NumUsed = NumRows]_vars

\* The contents of the table under each id, for ids that are unique.
RowContents(r) == [k \in Columns |-> ElementAt(k, r)]
IdsInUse == {idField[r] : r \in UsedRows}
Map == [id \in IdsInUse |-> RowContents(CHOOSE r \in UsedRows : idField[r] = id)]

AllElements ==
  UNION {[0 .. FieldWidth[k] - 1 -> CellValues \cup {Garbage}] : k \in Columns}

Promise == INSTANCE TableAbs WITH
  Capacity <- NumRows, Fields <- Columns, Contents <- AllElements,
  Named <- Ids \cup Rows,
  rows <- Map, idVar <- idVar, broken <- stray

\* A table that is never crunched is a map from ids to elements: rows are
\* claimed, reused and shared out so that no operation disturbs the elements
\* of an id it does not name, and insert binds the least unused id
\* (tabi_core.c, the comments of the five functions).
ImplementsMap == Promise!AbsSpec

\* And each statement is the step of that map which it says it is: delete
\* unbinds the id it names and no other, an insert stores the elements under
\* the id it was given although a row reference among them may bind another
\* id, and measure counts the ids.
StatementsKeepPromise ==
  [][/\ \A named \in BOOLEAN :
          InsertRow(named) => Promise!AbsInsert(named) \/ Promise!AbsBreak
     /\ \A id \in Ids :
          /\ ReadRow(id) => Promise!AbsTouch(id) \/ Promise!AbsBreak
          /\ DeleteRow(id) => Promise!AbsDelete(id)
          /\ \A k \in Columns : \A v \in Element(k) :
               WriteRow(id, k, v) =>
                 Promise!AbsStore(id, id, k, v) \/ Promise!AbsBreak
     /\ filling # Idle =>
          LET target == idField[filling.row]
              column == filling.column
          IN  /\ \A v \in Element(column) :
                   StoreElement(v) => Promise!AbsStore(target, target, column, v)
              /\ \A id \in Ids, k \in Columns :
                   StoreFromRow(id, k) =>
                     \/ Promise!AbsStore(target, id, column,
                          IF id \in IdsInUse THEN Map[id][k] ELSE Map'[id][k])
                     \/ Promise!AbsBreak
     /\ Measure => numVar' = Cardinality(IdsInUse)
    ]_vars

(***************************************************************************)
(* crunch                                                                  *)
(***************************************************************************)
CrunchStep == \E named \in BOOLEAN : Crunch(named)

\* Crunching puts the used rows above all the free ones and neither loses nor
\* makes a row.
CrunchPacks ==
  [][CrunchStep /\ ~stray' => UsedRows' = 0 .. NumUsed - 1]_vars

\* How many used rows hold these elements.
Copies(content) == Cardinality({r \in UsedRows : RowContents(r) = content})

\* Crunching takes the elements of every used row along: each combination of
\* elements is held by as many used rows after it as before.
CrunchKeepsElements ==
  [][CrunchStep /\ ~stray' =>
       \A content \in {RowContents(r) : r \in UsedRows} :
         Copies(content)' = Copies(content)]_vars

\* "Moves all used rows to the top of the table": what is stored under an id
\* is still stored under it.
CrunchMovesRows ==
  [][CrunchStep /\ ~stray' => Map' = Map]_vars
=============================================================================
