--------------------------- MODULE UETableCommands_proofs ---------------------------
(***************************************************************************)
(* Proofs about the commands on the table of the editor: merges and        *)
(* splits, again by layouts; the range of the selection, which stays in    *)
(* the table by the invariant TableOk; which commands may stop half done;  *)
(* and that none loses a word that is not asked to.                        *)
(***************************************************************************)
EXTENDS UETable_proofs

-----------------------------------------------------------------------------
(* Selected cells are merged.                                              *)

Inside(q, r, c) == q.beginRow <= r /\ r <= q.endRow /\ q.beginCol <= c /\ c <= q.endCol

(* A range of the grid, as a rectangle.                                    *)
Spread(q, R, C) ==
    /\ q.beginRow \in 1..R /\ q.endRow \in 1..R /\ q.beginRow <= q.endRow
    /\ q.beginCol \in 1..C /\ q.endCol \in 1..C /\ q.beginCol <= q.endCol

(* A cell that does not stick out of the range.                            *)
FitsIn(g, q) ==
    /\ q.beginRow <= g.row /\ g.row + g.cell.rowSpan - 1 <= q.endRow
    /\ q.beginCol <= g.col /\ g.col + g.cell.colSpan - 1 <= q.endCol

(* The cells of a range that cuts none become cell x.                      *)
Merging(G, R, C, q, x) ==
    /\ Laid(G, R, C, {}) /\ R \in Nat \ {0} /\ C \in Nat /\ Spread(q, R, C)
    /\ \A r \in 1..R, c \in 1..C : Inside(q, r, c) => FitsIn(G[r][c], q)
    /\ x \in Cell /\ x.rowSpan = q.endRow - q.beginRow + 1 /\ x.colSpan = q.endCol - q.beginCol + 1

Plain(g) == [row |-> g.row, col |-> g.col, cell |-> [g.cell EXCEPT !.selected = FALSE]]

MergedGrid(G, R, C, q, x) ==
    [r \in 1..R |-> [c \in 1..C |->
        IF Inside(q, r, c) THEN [row |-> q.beginRow, col |-> q.beginCol, cell |-> x] ELSE Plain(G[r][c])]]

\* A cell outside the range keeps out of it.
LEMMA KeepsOut ==
  ASSUME NEW R, NEW C, NEW G, NEW q, NEW x, Merging(G, R, C, q, x),
         NEW r \in 1..R, NEW c \in 1..C, ~Inside(q, r, c), NEW y, NEW z, Within(G[r][c], y, z)
  PROVE  ~Inside(q, y, z) /\ y \in 1..R /\ z \in 1..C /\ G[y][z] = G[r][c]
<1> DEFINE g == G[r][c]
<1>1. Box(G, R, C, r, c)
  BY Boxed DEF Merging
<1>2. y \in 1..R /\ z \in 1..C /\ G[y][z] = g
  BY <1>1, BoxAll
<1>3. SUFFICES ASSUME Inside(q, y, z)
               PROVE  FALSE
  BY <1>2
<1>4. FitsIn(g, q)
  BY <1>2, <1>3 DEF Merging
<1>5. /\ q.beginRow \in Int /\ q.endRow \in Int /\ q.beginCol \in Int /\ q.endCol \in Int
  BY DEF Merging, Spread
<1>6. /\ g.row \in Int /\ g.col \in Int /\ g.cell.rowSpan \in Int /\ g.cell.colSpan \in Int
      /\ g.row <= r /\ r < g.row + g.cell.rowSpan /\ g.col <= c /\ c < g.col + g.cell.colSpan
      /\ r \in Int /\ c \in Int
  BY <1>1 DEF Box
<1> HIDE DEF g
<1>7. Inside(q, r, c)
  BY <1>4, <1>5, <1>6 DEF FitsIn, Inside
<1> QED BY <1>7

\* The merged cells are a layout again.
LEMMA MergedLaid ==
  ASSUME NEW R, NEW C, NEW G, NEW q, NEW x, Merging(G, R, C, q, x)
  PROVE  Laid(MergedGrid(G, R, C, q, x), R, C, {})
<1> DEFINE D == MergedGrid(G, R, C, q, x)
           one == [row |-> q.beginRow, col |-> q.beginCol, cell |-> x]
<1>1. /\ Laid(G, R, C, {}) /\ R \in Nat \ {0} /\ C \in Nat
      /\ x \in Cell /\ x.rowSpan = q.endRow - q.beginRow + 1 /\ x.colSpan = q.endCol - q.beginCol + 1
      /\ q.beginRow \in 1..R /\ q.endRow \in 1..R /\ q.beginRow <= q.endRow
      /\ q.beginCol \in 1..C /\ q.endCol \in 1..C /\ q.beginCol <= q.endCol
  BY DEF Merging, Spread
<1>2. \A r \in 1..R, c \in 1..C : D[r][c] = IF Inside(q, r, c) THEN one ELSE Plain(G[r][c])
  BY DEF MergedGrid
<1> HIDE DEF D
<1>3. ASSUME NEW r \in 1..R, NEW c \in 1..C, Inside(q, r, c)
      PROVE  Box(D, R, C, r, c)
  <2>1. D[r][c] = one
    BY <1>2, <1>3
  <2>2. one.row = q.beginRow /\ one.col = q.beginCol /\ one.cell = x /\ one = [row |-> one.row, col |-> one.col, cell |-> one.cell]
    OBVIOUS
  <2>3. q.beginRow <= r /\ r <= q.endRow /\ q.beginCol <= c /\ c <= q.endCol
    BY <1>3 DEF Inside
  <2>4. ASSUME NEW y, NEW z, Within(one, y, z)
        PROVE  y \in 1..R /\ z \in 1..C /\ D[y][z] = one
    <3>1. /\ y \in Int /\ z \in Int /\ q.beginRow <= y /\ y < q.beginRow + x.rowSpan
          /\ q.beginCol <= z /\ z < q.beginCol + x.colSpan
      BY <2>2, <2>4 DEF Within
    <3>2. y \in 1..R /\ z \in 1..C /\ Inside(q, y, z)
      BY <1>1, <3>1 DEF Inside
    <3> QED BY <1>2, <3>2
  <2> HIDE DEF one
  <2> QED BY <1>1, <2>1, <2>2, <2>3, <2>4 DEF Box
<1>4. ASSUME NEW r \in 1..R, NEW c \in 1..C, ~Inside(q, r, c)
      PROVE  Box(D, R, C, r, c)
  <2> DEFINE g == G[r][c]
             d == Plain(g)
  <2>1. D[r][c] = d
    BY <1>2, <1>4
  <2>2. Box(G, R, C, r, c)
    BY <1>1, Boxed
  <2>3. ASSUME NEW y, NEW z, Within(g, y, z)
        PROVE  y \in 1..R /\ z \in 1..C /\ D[y][z] = d
    <3>1. ~Inside(q, y, z) /\ y \in 1..R /\ z \in 1..C /\ G[y][z] = g
      BY <1>4, <2>3, KeepsOut
    <3> QED BY <1>2, <3>1
  <2>a. g.cell \in Cell
    BY <2>2 DEF Box
  <2>4. /\ d.row = g.row /\ d.col = g.col /\ d.cell \in Cell
        /\ d.cell.rowSpan = g.cell.rowSpan /\ d.cell.colSpan = g.cell.colSpan
        /\ d = [row |-> d.row, col |-> d.col, cell |-> d.cell]
    <3> HIDE DEF g
    <3> QED BY <2>a DEF Plain, Cell
  <2>5. \A y, z : Within(d, y, z) => y \in 1..R /\ z \in 1..C /\ D[y][z] = d
    <3> HIDE DEF d, g
    <3> QED BY <2>3, <2>4 DEF Within
  <2> HIDE DEF d
  <2> QED BY <2>1, <2>2, <2>4, <2>5 DEF Box
<1>5. \A r \in 1..R, c \in 1..C : Box(D, R, C, r, c)
  BY <1>3, <1>4
<1> QED BY <1>1, <1>5, LaidFrom DEF D

\* The starts that stay in a row.
LEMMA MergedStarts ==
  ASSUME NEW R, NEW C, NEW G, NEW q, NEW x, Merging(G, R, C, q, x), NEW D, D = MergedGrid(G, R, C, q, x),
         NEW r \in 1..R
  PROVE  /\ Starts(D, r, C) = {c \in Starts(G, r, C) : ~Inside(q, r, c) \/ (r = q.beginRow /\ c = q.beginCol)}
         /\ \A c \in Starts(D, r, C) :
              CellsOf(D, r, C)[c] = IF Inside(q, r, c) THEN x ELSE [G[r][c].cell EXCEPT !.selected = FALSE]
<1> DEFINE one == [row |-> q.beginRow, col |-> q.beginCol, cell |-> x]
<1>1. /\ Laid(G, R, C, {}) /\ R \in Nat \ {0} /\ C \in Nat
      /\ q.beginRow \in 1..R /\ q.beginCol \in 1..C /\ q.beginRow <= q.endRow /\ q.beginCol <= q.endCol
      /\ q.endRow \in 1..R /\ q.endCol \in 1..C
      /\ \A y \in 1..R, z \in 1..C : Inside(q, y, z) => FitsIn(G[y][z], q)
  BY DEF Merging, Spread
<1>2. \A c \in 1..C : D[r][c] = IF Inside(q, r, c) THEN one ELSE Plain(G[r][c])
  BY DEF MergedGrid
<1>3. ASSUME NEW c \in 1..C
      PROVE  /\ D[r][c].row = (IF Inside(q, r, c) THEN q.beginRow ELSE G[r][c].row)
             /\ D[r][c].col = (IF Inside(q, r, c) THEN q.beginCol ELSE G[r][c].col)
             /\ D[r][c].cell = (IF Inside(q, r, c) THEN x ELSE [G[r][c].cell EXCEPT !.selected = FALSE])
  <2> DEFINE g == G[r][c]
  <2>1. D[r][c] = IF Inside(q, r, c) THEN one ELSE Plain(g)
    BY <1>2
  <2>2. one.row = q.beginRow /\ one.col = q.beginCol /\ one.cell = x
    OBVIOUS
  <2> HIDE DEF one, g
  <2>3. Plain(g).row = g.row /\ Plain(g).col = g.col /\ Plain(g).cell = [g.cell EXCEPT !.selected = FALSE]
    BY DEF Plain
  <2> QED BY <2>1, <2>2, <2>3 DEF g
<1> HIDE DEF one
<1>4. ASSUME NEW c \in 1..C, r = q.beginRow, c = q.beginCol
      PROVE  G[r][c].row = r /\ G[r][c].col = c /\ Inside(q, r, c)
  <2>1. Inside(q, r, c)
    BY <1>1, <1>4 DEF Inside
  <2>2. FitsIn(G[r][c], q) /\ Box(G, R, C, r, c)
    BY <1>1, <2>1, Boxed
  <2>3. /\ G[r][c].row \in Int /\ G[r][c].row <= r /\ G[r][c].col \in Int /\ G[r][c].col <= c
        /\ r \in Int /\ c \in Int /\ r <= G[r][c].row /\ c <= G[r][c].col
    BY <1>4, <2>2 DEF Box, FitsIn
  <2> QED BY <2>1, <2>3
<1>5. ASSUME NEW c \in 1..C
      PROVE  D[r][c].row = r /\ D[r][c].col = c
               <=> G[r][c].row = r /\ G[r][c].col = c /\ (~Inside(q, r, c) \/ (r = q.beginRow /\ c = q.beginCol))
  <2>1. CASE Inside(q, r, c)
    <3>1. D[r][c].row = q.beginRow /\ D[r][c].col = q.beginCol
      BY <1>3, <2>1
    <3> QED BY <1>4, <2>1, <3>1
  <2>2. CASE ~Inside(q, r, c)
    <3>1. D[r][c].row = G[r][c].row /\ D[r][c].col = G[r][c].col
      BY <1>3, <2>2
    <3> QED BY <2>2, <3>1
  <2> QED BY <2>1, <2>2
<1>6. Starts(D, r, C) = {c \in Starts(G, r, C) : ~Inside(q, r, c) \/ (r = q.beginRow /\ c = q.beginCol)}
  BY <1>5 DEF Starts
<1>7. ASSUME NEW c \in Starts(D, r, C)
      PROVE  CellsOf(D, r, C)[c] = IF Inside(q, r, c) THEN x ELSE [G[r][c].cell EXCEPT !.selected = FALSE]
  <2>1. c \in 1..C /\ CellsOf(D, r, C)[c] = D[r][c].cell
    BY DEF Starts, CellsOf
  <2> QED BY <1>3, <2>1
<1> QED BY <1>6, <1>7

\* The places of the cells in a range are those of the cells that begin in it.
LEMMA PlacesInIs ==
  ASSUME NEW t, Tiled(t), NEW R, NEW C, NEW G, NEW K, TableOf(t, R, C, G, K),
         NEW q, NEW x, Merging(G, R, C, q, x),
         NEW r \in 1..R, NEW i \in 1..Len(t.rows[r]), Stands(t, R, C, G, K, r, i)
  PROVE  <<r, i>> \in PlacesIn(t, q) <=> Inside(q, r, K[r][i])
<1> DEFINE c == K[r][i]
<1>1. /\ c \in 1..C /\ G[r][c].row = r /\ G[r][c].col = c
      /\ \A y \in 1..R, z \in 1..C :
            (t.index[<<y, z>>].row = r /\ t.index[<<y, z>>].cell = i) <=> G[y][z] = G[r][c]
  BY DEF Stands
<1> HIDE DEF c
<1>2. /\ q.beginRow \in 1..R /\ q.endRow \in 1..R /\ q.beginCol \in 1..C /\ q.endCol \in 1..C /\ R \in Nat /\ C \in Nat
  BY DEF Merging, Spread
<1>3. ASSUME Inside(q, r, c)
      PROVE  <<r, i>> \in PlacesIn(t, q)
  <2>1. <<r, c>> \in Positions(q)
    BY <1>1, <1>2, <1>3 DEF Inside, Positions
  <2>2. t.index[<<r, c>>].row = r /\ t.index[<<r, c>>].cell = i
    BY <1>1
  <2> QED BY <2>1, <2>2 DEF PlacesIn
<1>4. ASSUME <<r, i>> \in PlacesIn(t, q)
      PROVE  Inside(q, r, c)
  <2>1. PICK pos \in Positions(q) : <<r, i>> = <<t.index[pos].row, t.index[pos].cell>>
    BY <1>4 DEF PlacesIn
  <2> DEFINE y == pos[1]
             z == pos[2]
  <2>2. y \in q.beginRow..q.endRow /\ z \in q.beginCol..q.endCol /\ pos = <<y, z>>
    BY DEF Positions
  <2>3. y \in 1..R /\ z \in 1..C /\ Inside(q, y, z)
    BY <1>2, <2>2 DEF Inside
  <2>4. t.index[<<y, z>>].row = r /\ t.index[<<y, z>>].cell = i
    BY <2>1, <2>2
  <2> HIDE DEF y, z
  <2>5. G[y][z] = G[r][c]
    BY <1>1, <2>3, <2>4
  <2>6. Within(G[r][c], y, z)
    <3>1. Box(G, R, C, y, z)
      BY <2>3, Boxed DEF Merging
    <3> QED BY <2>5, <3>1 DEF Box, Within
  <2> QED BY <1>1, <2>3, <2>6, KeepsOut
<1> QED BY <1>3, <1>4 DEF c

(* The rows after a merge of the range q at its first cell.                *)
MergedCell(t, q, i) ==
    LET plain == Unmarked(t.rows)
        others == PlacesIn(t, q) \ {<<q.beginRow, i>>}
        moved == UNION {t.rows[p[1]][p[2]].text : p \in others}
    IN  [plain[q.beginRow][i] EXCEPT !.text = @ \union moved, !.colSpan = q.endCol - q.beginCol + 1,
                                     !.rowSpan = q.endRow - q.beginRow + 1]

MergedRows(t, q, i, x) ==
    Without([Unmarked(t.rows) EXCEPT ![q.beginRow][i] = x], PlacesIn(t, q) \ {<<q.beginRow, i>>})

\* Unmarking the cells leaves rows of cells.
LEMMA UnmarkedIs ==
  ASSUME NEW rows \in Seq(Seq(Cell))
  PROVE  /\ Unmarked(rows) \in Seq(Seq(Cell)) /\ Len(Unmarked(rows)) = Len(rows)
         /\ DOMAIN Unmarked(rows) = DOMAIN rows
         /\ \A r \in 1..Len(rows) : /\ Unmarked(rows)[r] \in Seq(Cell) /\ Len(Unmarked(rows)[r]) = Len(rows[r])
                                    /\ DOMAIN Unmarked(rows)[r] = 1..Len(rows[r])
                                    /\ \A i \in 1..Len(rows[r]) :
                                         Unmarked(rows)[r][i] = [rows[r][i] EXCEPT !.selected = FALSE]
<1> DEFINE m == Unmarked(rows)
<1>1. /\ m = [r \in DOMAIN rows |-> m[r]]
      /\ \A r \in DOMAIN rows : m[r] = [i \in DOMAIN rows[r] |-> m[r][i]]
      /\ \A r \in DOMAIN rows : \A i \in DOMAIN rows[r] : m[r][i] = [rows[r][i] EXCEPT !.selected = FALSE]
  BY DEF Unmarked
<1> HIDE DEF m
<1>2. \A r \in DOMAIN rows : \A i \in DOMAIN rows[r] : m[r][i] \in Cell
  <2>1. ASSUME NEW r \in DOMAIN rows, NEW i \in DOMAIN rows[r]
        PROVE  m[r][i] \in Cell
    <3>1. rows[r][i] \in Cell
      BY RowsTyped
    <3>2. m[r][i] = [rows[r][i] EXCEPT !.selected = FALSE]
      BY <1>1
    <3> QED BY <3>1, <3>2 DEF Cell
  <2> QED BY <2>1
<1>3. /\ m \in Seq(Seq(Cell)) /\ Len(m) = Len(rows)
      /\ \A r \in 1..Len(rows) : m[r] \in Seq(Cell) /\ Len(m[r]) = Len(rows[r]) /\ DOMAIN m[r] = 1..Len(rows[r])
  BY <1>1, <1>2, RowsChanged
<1>4. /\ DOMAIN rows = 1..Len(rows) /\ \A r \in 1..Len(rows) : DOMAIN rows[r] = 1..Len(rows[r])
  BY RowsTyped
<1>5. DOMAIN m = DOMAIN rows
  BY <1>1
<1>6. \A r \in 1..Len(rows) : \A i \in 1..Len(rows[r]) : m[r][i] = [rows[r][i] EXCEPT !.selected = FALSE]
  BY <1>1, <1>4
<1> QED BY <1>3, <1>5, <1>6 DEF m

\* What a merge leaves is the layout with one cell for the range.
LEMMA MergedLays ==
  ASSUME NEW t, Tiled(t), NEW R, NEW C, NEW G, NEW K, TableOf(t, R, C, G, K),
         \A r \in 1..R : \A i \in 1..Len(t.rows[r]) : Stands(t, R, C, G, K, r, i),
         NEW q, NEW x, Merging(G, R, C, q, x),
         NEW i \in 1..Len(t.rows[q.beginRow]), K[q.beginRow][i] = q.beginCol
  PROVE  /\ Lays(MergedRows(t, q, i, x), C, {}, MergedGrid(G, R, C, q, x)) /\ Len(MergedRows(t, q, i, x)) = R
         /\ MergedRows(t, q, i, x) \in Seq(Seq(Cell))
<1> DEFINE D == MergedGrid(G, R, C, q, x)
           b == q.beginRow
           gone == PlacesIn(t, q) \ {<<b, i>>}
           plain == Unmarked(t.rows)
           set == [plain EXCEPT ![b][i] = x]
           kept(r) == Ascending({j \in DOMAIN set[r] : <<r, j>> \notin gone})
           rows == MergedRows(t, q, i, x)
<1>1. /\ R \in Nat \ {0} /\ C \in Nat /\ t.rows \in Seq(Seq(Cell)) /\ Len(t.rows) = R /\ DOMAIN t.rows = 1..R
      /\ Laid(G, R, C, {}) /\ \A r \in 1..R : Line(t.rows[r], K[r], Starts(G, r, C), CellsOf(G, r, C))
  BY DEF TableOf
<1>a. \A r \in 1..R : Starts(G, r, C) \in SUBSET Int
  BY <1>1 DEF Starts
<1>2. b \in 1..R /\ x \in Cell /\ Inside(q, b, q.beginCol) /\ q.beginRow \in Int /\ q.beginCol \in Int
  BY DEF Merging, Spread, Inside
<1>3. /\ plain \in Seq(Seq(Cell)) /\ DOMAIN plain = 1..R
      /\ \A r \in 1..R : /\ plain[r] \in Seq(Cell) /\ Len(plain[r]) = Len(t.rows[r]) /\ DOMAIN plain[r] = 1..Len(t.rows[r])
                         /\ \A j \in 1..Len(t.rows[r]) : plain[r][j] = [t.rows[r][j] EXCEPT !.selected = FALSE]
  BY <1>1, UnmarkedIs
<1> HIDE DEF plain
<1>4. /\ set = [r \in 1..R |-> set[r]]
      /\ \A r \in 1..R : /\ set[r] \in Seq(Cell) /\ Len(set[r]) = Len(t.rows[r]) /\ DOMAIN set[r] = 1..Len(t.rows[r])
                         /\ \A j \in 1..Len(t.rows[r]) :
                              set[r][j] = IF r = b /\ j = i THEN x ELSE [t.rows[r][j] EXCEPT !.selected = FALSE]
  <2>1. set = [r \in 1..R |-> IF r = b THEN [plain[b] EXCEPT ![i] = x] ELSE plain[r]]
    BY <1>3
  <2> HIDE DEF set
  <2>2. ASSUME NEW r \in 1..R, r # b
        PROVE  set[r] = plain[r]
    BY <2>1, <2>2
  <2>3. set[b] = [plain[b] EXCEPT ![i] = x]
    BY <1>2, <2>1
  <2>4. plain[b] \in [1..Len(t.rows[b]) -> Cell] /\ Len(t.rows[b]) \in Nat
    <3>1. plain[b] \in Seq(Cell) /\ Len(plain[b]) = Len(t.rows[b])
      BY <1>2, <1>3
    <3> QED BY <3>1
  <2>5. set[b] \in [1..Len(t.rows[b]) -> Cell]
    BY <1>2, <2>3, <2>4
  <2>6. set[b] \in Seq(Cell) /\ Len(set[b]) = Len(t.rows[b]) /\ DOMAIN set[b] = 1..Len(t.rows[b])
    BY <2>4, <2>5, FcnIsSeq
  <2>7. \A j \in 1..Len(t.rows[b]) : set[b][j] = IF j = i THEN x ELSE plain[b][j]
    BY <2>3, <2>4
  <2>8. set = [r \in 1..R |-> set[r]]
    BY <2>1
  <2>9. ASSUME NEW r \in 1..R
        PROVE  /\ set[r] \in Seq(Cell) /\ Len(set[r]) = Len(t.rows[r]) /\ DOMAIN set[r] = 1..Len(t.rows[r])
               /\ \A j \in 1..Len(t.rows[r]) :
                    set[r][j] = IF r = b /\ j = i THEN x ELSE [t.rows[r][j] EXCEPT !.selected = FALSE]
    <3>1. CASE r = b
      BY <1>2, <1>3, <2>6, <2>7, <3>1
    <3>2. CASE r # b
      BY <1>3, <2>2, <3>2
    <3> QED BY <3>1, <3>2
  <2> QED BY <2>8, <2>9
<1>5. rows = [r \in 1..R |-> [k \in DOMAIN kept(r) |-> set[r][kept(r)[k]]]]
  <2>1. DOMAIN set = 1..R
    BY <1>4
  <2>2. rows = Without(set, gone)
    BY DEF MergedRows, plain
  <2> HIDE DEF set, gone
  <2> QED BY <2>1, <2>2 DEF Without
<1>6. ASSUME NEW r \in 1..R, NEW j \in 1..Len(t.rows[r])
      PROVE  /\ K[r][j] \in Starts(G, r, C) /\ t.rows[r][j] = G[r][K[r][j]].cell
             /\ <<r, j>> \in gone <=> Inside(q, r, K[r][j]) /\ ~(r = b /\ j = i)
             /\ (r = b /\ K[r][j] = q.beginCol) <=> (r = b /\ j = i)
  <2>1. Stands(t, R, C, G, K, r, j)
    OBVIOUS
  <2>2. <<r, j>> \in PlacesIn(t, q) <=> Inside(q, r, K[r][j])
    BY <2>1, PlacesInIs
  <2>3. K[r][j] \in Starts(G, r, C) /\ t.rows[r][j] = G[r][K[r][j]].cell
    BY <2>1 DEF Stands
  <2>4. r = b => (K[r][j] = q.beginCol <=> j = i)
    <3>1. Line(t.rows[b], K[b], Starts(G, b, C), CellsOf(G, b, C)) /\ Starts(G, b, C) \in SUBSET Int
      BY <1>1, <1>2, <1>a
    <3>2. \A m, n \in 1..Len(t.rows[b]) : K[b][m] = K[b][n] => m = n
      BY <3>1, LineFacts
    <3> QED BY <3>2
  <2> QED BY <2>2, <2>3, <2>4
<1> HIDE DEF set, gone, rows
<1>7. ASSUME NEW r \in 1..R
      PROVE  Lined(rows[r], Starts(D, r, C), CellsOf(D, r, C))
  <2> DEFINE X == Starts(G, r, C)
             Y == Starts(D, r, C)
             h == [c \in Y |-> c]
             S == set[r]
             f == CellsOf(D, r, C)
             v == rows[r]
  <2>1. /\ Y = {c \in X : ~Inside(q, r, c) \/ (r = b /\ c = q.beginCol)}
        /\ \A c \in Y : f[c] = IF Inside(q, r, c) THEN x ELSE [G[r][c].cell EXCEPT !.selected = FALSE]
    BY MergedStarts
  <2>2. X \in SUBSET Int /\ Line(t.rows[r], K[r], X, CellsOf(G, r, C))
    BY <1>1, <1>a
  <2> HIDE DEF X, Y, f, D
  <2>3. Y \in SUBSET X /\ Y \in SUBSET Int /\ h \in [Y -> Y] /\ (\A c, d \in Y : c < d => h[c] < h[d])
        /\ (\A z \in Y : \E y \in Y : h[y] = z) /\ \A c \in Y : h[c] = c
    BY <2>1, <2>2
  <2> HIDE DEF h
  <2>4. ASSUME NEW j \in 1..Len(t.rows[r])
        PROVE  /\ <<r, j>> \notin gone <=> K[r][j] \in Y
               /\ K[r][j] \in Y => S[j] = f[h[K[r][j]]]
    <3> DEFINE c == K[r][j]
    <3>1. /\ c \in X /\ t.rows[r][j] = G[r][c].cell
          /\ <<r, j>> \in gone <=> Inside(q, r, c) /\ ~(r = b /\ j = i)
          /\ (r = b /\ c = q.beginCol) <=> (r = b /\ j = i)
      BY <1>6 DEF X
    <3>2. S[j] = IF r = b /\ j = i THEN x ELSE [t.rows[r][j] EXCEPT !.selected = FALSE]
      BY <1>4
    <3> HIDE DEF c, S
    <3>3. <<r, j>> \notin gone <=> c \in Y
      BY <2>1, <3>1
    <3>4. ASSUME c \in Y
          PROVE  S[j] = f[h[c]]
      <4>1. h[c] = c /\ f[c] = IF Inside(q, r, c) THEN x ELSE [G[r][c].cell EXCEPT !.selected = FALSE]
        BY <2>1, <2>3, <3>4
      <4>2. Inside(q, r, c) <=> r = b /\ j = i
        BY <1>2, <2>1, <3>1, <3>4
      <4> QED BY <3>1, <3>2, <4>1, <4>2
    <3> QED BY <3>3, <3>4 DEF c
  <2>5. S \in Seq(Cell) /\ Len(S) = Len(t.rows[r]) /\ DOMAIN S = 1..Len(t.rows[r])
    BY <1>4
  <2> HIDE DEF S
  <2>6. kept(r) = Ascending({j \in DOMAIN S : K[r][j] \in Y})
    <3>1. {j \in DOMAIN S : <<r, j>> \notin gone} = {j \in DOMAIN S : K[r][j] \in Y}
      BY <2>4, <2>5
    <3> QED BY <3>1 DEF S
  <2>7. v = LET kp == Ascending({j \in DOMAIN S : K[r][j] \in Y}) IN [k \in DOMAIN kp |-> S[kp[k]]]
    BY <1>5, <2>6 DEF S
  <2> HIDE DEF v, kept
  <2>8. Keeps(t.rows[r], K[r], X, CellsOf(G, r, C), S, Y, Y, h, v, f)
    BY <2>2, <2>3, <2>4, <2>5, <2>7 DEF Keeps
  <2>9. Lined(v, Y, f)
    BY <2>8, LineKeep
  <2> QED BY <2>9 DEF Y, f, v
<1>8. rows = [r \in 1..R |-> rows[r]]
  BY <1>5
<1>9. Laid(D, R, C, {})
  BY MergedLaid
<1> HIDE DEF D
<1>10. Lays(rows, C, {}, D) /\ Len(rows) = R
  BY <1>1, <1>7, <1>8, <1>9, LaysFrom
<1>11. rows \in Seq(Seq(Cell))
  BY <1>10 DEF Lays
<1> QED BY <1>10, <1>11 DEF rows, D

\* A sequence cut in two and joined again.
LEMMA JoinedBack ==
  ASSUME NEW S, NEW u \in Seq(S), NEW m \in 1..Len(u)
  PROVE  SubSeq(u, 1, m) \o SubSeq(u, m + 1, Len(u)) = u
<1>1. Len(u) \in Nat /\ \A i \in 1..Len(u) : u[i] \in S
  BY LenProperties
<1> DEFINE a == SubSeq(u, 1, m)
           b == SubSeq(u, m + 1, Len(u))
           v == a \o b
<1>2. a \in Seq(S) /\ Len(a) = m /\ \A i \in 1..m : a[i] = u[i]
  <2>1. 1 \in Int /\ m \in Int /\ \A i \in 1..m : u[i] \in S
    BY <1>1
  <2>2. /\ a \in Seq(S)
        /\ Len(a) = IF 1 <= m THEN m - 1 + 1 ELSE 0
        /\ \A i \in 1..(m - 1 + 1) : a[i] = u[1 + i - 1]
    BY <2>1, SubSeqProperties
  <2> HIDE DEF a
  <2> QED BY <2>2, <1>1
<1>3. b \in Seq(S) /\ Len(b) = Len(u) - m /\ \A i \in 1..(Len(u) - m) : b[i] = u[m + i]
  <2>1. m + 1 \in Int /\ Len(u) \in Int /\ \A i \in (m + 1)..Len(u) : u[i] \in S
    BY <1>1
  <2>2. /\ b \in Seq(S)
        /\ Len(b) = IF m + 1 <= Len(u) THEN Len(u) - (m + 1) + 1 ELSE 0
        /\ \A i \in 1..(Len(u) - (m + 1) + 1) : b[i] = u[(m + 1) + i - 1]
    BY <2>1, SubSeqProperties
  <2> HIDE DEF b
  <2> QED BY <2>2, <1>1
<1> HIDE DEF a, b
<1>4. /\ v \in Seq(S) /\ Len(v) = Len(a) + Len(b)
      /\ \A j \in 1..(Len(a) + Len(b)) : v[j] = IF j <= Len(a) THEN a[j] ELSE b[j - Len(a)]
  BY <1>2, <1>3, ConcatProperties
<1> HIDE DEF v
<1>5. Len(v) = Len(u)
  BY <1>1, <1>2, <1>3, <1>4
<1>6. ASSUME NEW j \in 1..Len(u)
      PROVE  v[j] = u[j]
  <2>1. v[j] = IF j <= m THEN a[j] ELSE b[j - m]
    BY <1>2, <1>4, <1>5
  <2>2. CASE j <= m
    BY <1>2, <2>1, <2>2
  <2>3. CASE ~(j <= m)
    <3>1. j - m \in 1..(Len(u) - m) /\ m + (j - m) = j
      BY <1>1, <2>3
    <3> QED BY <1>3, <2>1, <2>3, <3>1
  <2> QED BY <2>2, <2>3
<1>7. v = [j \in 1..Len(v) |-> v[j]] /\ u = [j \in 1..Len(u) |-> u[j]]
  BY <1>4
<1>8. v = u
  BY <1>5, <1>6, <1>7
<1> QED BY <1>8 DEF v, a, b

(* A range that is neither as wide nor as high as the table and cuts no    *)
(* cell.                                                                   *)
Mergeable(t, R, C, G, K, q) ==
    /\ TableOf(t, R, C, G, K) /\ Tiled(t)
    /\ \A r \in 1..R, c \in 1..C : Agrees(t, G, K, r, c)
    /\ \A r \in 1..R : \A i \in 1..Len(t.rows[r]) : Stands(t, R, C, G, K, r, i)
    /\ Spread(q, R, C) /\ ~Cut(t, q) /\ q = t.cellsRange
    /\ q.beginCol > 1 \/ q.endCol < C
    /\ q.beginRow > 1 \/ q.endRow < R

(* A cell begins at the corner of the range.                               *)
InCorner(t, K, q) ==
    LET j == t.index[<<q.beginRow, q.beginCol>>]
    IN  /\ j.row = q.beginRow /\ j.cell \in 1..Len(t.rows[q.beginRow])
        /\ K[q.beginRow][j.cell] = q.beginCol

\* No cell of the range sticks out of it, and the first begins at its corner.
LEMMA CornerOf ==
  ASSUME NEW t, NEW R, NEW C, NEW G, NEW K, NEW q, Mergeable(t, R, C, G, K, q)
  PROVE  /\ \A r \in 1..R, c \in 1..C : Inside(q, r, c) => FitsIn(G[r][c], q)
         /\ InCorner(t, K, q)
<1>1. /\ TableOf(t, R, C, G, K) /\ \A r \in 1..R, c \in 1..C : Agrees(t, G, K, r, c)
      /\ ~Cut(t, q)
      /\ q.beginRow \in 1..R /\ q.endRow \in 1..R /\ q.beginRow <= q.endRow
      /\ q.beginCol \in 1..C /\ q.endCol \in 1..C /\ q.beginCol <= q.endCol
  BY DEF Mergeable, Spread
<1>2. R \in Nat /\ C \in Nat /\ Laid(G, R, C, {})
  BY <1>1 DEF TableOf
<1>3. ASSUME NEW r \in 1..R, NEW c \in 1..C, Inside(q, r, c)
      PROVE  FitsIn(G[r][c], q)
  <2>1. <<r, c>> \in Positions(q)
    BY <1>1, <1>3 DEF Inside, Positions
  <2>2. ~SticksOut(t.index[<<r, c>>], q)
    BY <1>1, <2>1 DEF Cut
  <2>3. Agrees(t, G, K, r, c)
    BY <1>1
  <2>4. Box(G, R, C, r, c)
    BY <1>2, Boxed
  <2> DEFINE g == G[r][c]
  <2>5. ~(g.row < q.beginRow) /\ ~(g.col < q.beginCol)
        /\ ~(g.row + g.cell.rowSpan - 1 > q.endRow) /\ ~(g.col + g.cell.colSpan - 1 > q.endCol)
    BY <2>2, <2>3 DEF SticksOut, Agrees
  <2>6. g.row \in Int /\ g.col \in Int /\ g.cell.rowSpan \in Int /\ g.cell.colSpan \in Int
    BY <2>4 DEF Box
  <2> HIDE DEF g
  <2>7. FitsIn(g, q)
    BY <1>1, <2>5, <2>6 DEF FitsIn
  <2> QED BY <2>7 DEF g
<1> DEFINE r == q.beginRow
           c == q.beginCol
<1>4. Inside(q, r, c) /\ r \in 1..R /\ c \in 1..C
  BY <1>1 DEF Inside
<1>5. FitsIn(G[r][c], q) /\ Box(G, R, C, r, c) /\ Agrees(t, G, K, r, c)
  BY <1>1, <1>2, <1>3, <1>4, Boxed
<1>6. G[r][c].row = r /\ G[r][c].col = c
  <2>1. /\ G[r][c].row \in Int /\ G[r][c].row <= r /\ G[r][c].col \in Int /\ G[r][c].col <= c
        /\ r \in Int /\ c \in Int /\ r <= G[r][c].row /\ c <= G[r][c].col
    BY <1>5 DEF Box, FitsIn
  <2> QED BY <2>1
<1> HIDE DEF r, c
<1>7. t.index[<<r, c>>].row = r /\ t.index[<<r, c>>].cell \in 1..Len(t.rows[r]) /\ K[r][t.index[<<r, c>>].cell] = c
  BY <1>5, <1>6 DEF Agrees
<1> QED BY <1>3, <1>7 DEF r, c, InCorner

\* The merged cell covers the range and has all its contents.
LEMMA MergedCellIs ==
  ASSUME NEW t, NEW R, NEW C, NEW G, NEW K, NEW q, Mergeable(t, R, C, G, K, q),
         NEW i, i = t.index[<<q.beginRow, q.beginCol>>].cell, NEW x, x = MergedCell(t, q, i)
  PROVE  /\ Merging(G, R, C, q, x)
         /\ x.text = UNION {TextAt(t, pos) : pos \in Positions(q)}
<1> DEFINE b == q.beginRow
           plain == Unmarked(t.rows)
           others == PlacesIn(t, q) \ {<<b, i>>}
           moved == UNION {t.rows[p[1]][p[2]].text : p \in others}
           own == t.rows[b][i].text
<1>1. /\ TableOf(t, R, C, G, K) /\ \A r \in 1..R, c \in 1..C : Agrees(t, G, K, r, c)
      /\ Spread(q, R, C)
      /\ q.beginRow \in 1..R /\ q.endRow \in 1..R /\ q.beginRow <= q.endRow
      /\ q.beginCol \in 1..C /\ q.endCol \in 1..C /\ q.beginCol <= q.endCol
  BY DEF Mergeable, Spread
<1>2. R \in Nat \ {0} /\ C \in Nat /\ Laid(G, R, C, {}) /\ t.rows \in Seq(Seq(Cell)) /\ Len(t.rows) = R
  BY <1>1 DEF TableOf
<1>3. /\ \A r \in 1..R, c \in 1..C : Inside(q, r, c) => FitsIn(G[r][c], q)
      /\ t.index[<<b, q.beginCol>>].row = b /\ i \in 1..Len(t.rows[b])
  BY CornerOf DEF InCorner
<1>4. ASSUME NEW pos \in Positions(q)
      PROVE  LET j == t.index[pos]
             IN  t.rows[j.row][j.cell] \in Cell /\ TextAt(t, pos) = t.rows[j.row][j.cell].text
  <2> DEFINE y == pos[1]
             z == pos[2]
  <2>1. y \in q.beginRow..q.endRow /\ z \in q.beginCol..q.endCol /\ pos = <<y, z>>
    BY DEF Positions
  <2>2. y \in 1..R /\ z \in 1..C
    BY <1>1, <1>2, <2>1
  <2> HIDE DEF y, z
  <2>3. Agrees(t, G, K, y, z) /\ Box(G, R, C, y, z)
    BY <1>1, <1>2, <2>2, Boxed
  <2>4. t.rows[t.index[<<y, z>>].row][t.index[<<y, z>>].cell] \in Cell
    BY <2>3 DEF Agrees, Box
  <2> QED BY <2>1, <2>4 DEF TextAt, CellOf
<1>5. t.rows[b][i] \in Cell
  BY <1>1, <1>2, <1>3, RowsTyped
<1>6. moved \in SUBSET Words /\ own \in SUBSET Words
  <2>1. ASSUME NEW p \in others
        PROVE  t.rows[p[1]][p[2]].text \in SUBSET Words
    <3>1. PICK pos \in Positions(q) : p = <<t.index[pos].row, t.index[pos].cell>>
      BY DEF PlacesIn
    <3>2. t.rows[p[1]][p[2]] \in Cell
      BY <1>4, <3>1
    <3> QED BY <3>2 DEF Cell
  <2>2. own \in SUBSET Words
    BY <1>5 DEF Cell
  <2> HIDE DEF others
  <2> QED BY <2>1, <2>2
<1>7. plain[b][i] = [t.rows[b][i] EXCEPT !.selected = FALSE] /\ plain[b][i] \in Cell /\ plain[b][i].text = own
  <2>1. plain[b][i] = [t.rows[b][i] EXCEPT !.selected = FALSE]
    <3>1. b \in 1..Len(t.rows) /\ i \in 1..Len(t.rows[b])
      BY <1>1, <1>2, <1>3
    <3>2. \A r \in 1..Len(t.rows) : \A j \in 1..Len(t.rows[r]) : plain[r][j] = [t.rows[r][j] EXCEPT !.selected = FALSE]
      BY <1>2, UnmarkedIs
    <3> HIDE DEF plain, b
    <3> QED BY <3>1, <3>2
  <2> QED BY <1>5, <2>1 DEF Cell
<1> DEFINE h == q.endRow - q.beginRow + 1
           w == q.endCol - q.beginCol + 1
           o == plain[b][i]
<1>8. x = [o EXCEPT !.text = @ \union moved, !.colSpan = w, !.rowSpan = h]
  BY DEF MergedCell
<1>9. h \in Nat \ {0} /\ w \in Nat \ {0}
  BY <1>1, <1>2
<1> HIDE DEF plain, o, h, w, others, moved, own
<1>10. o \in Cell /\ o.text = own
  BY <1>7 DEF o
<1>11. x \in Cell /\ x.rowSpan = h /\ x.colSpan = w /\ x.text = own \union moved
  <2> DEFINE s == o.text \union moved
  <2>1. s \in SUBSET Words
    BY <1>6, <1>10
  <2>2. x = [o EXCEPT !.text = s, !.colSpan = w, !.rowSpan = h]
    BY <1>8
  <2>4. s = own \union moved
    BY <1>10
  <2> HIDE DEF s
  <2>3. x \in Cell /\ x.rowSpan = h /\ x.colSpan = w /\ x.text = s
    BY <1>9, <1>10, <2>1, <2>2 DEF Cell
  <2> QED BY <2>3, <2>4
<1>12. Merging(G, R, C, q, x)
  BY <1>1, <1>2, <1>3, <1>11 DEF Merging, h, w
<1>13. own \union moved = UNION {TextAt(t, pos) : pos \in Positions(q)}
  <2>1. ASSUME NEW y \in own
        PROVE  \E pos \in Positions(q) : y \in TextAt(t, pos)
    <3>1. <<b, q.beginCol>> \in Positions(q)
      BY <1>1, <1>2 DEF Positions
    <3>2. TextAt(t, <<b, q.beginCol>>) = own
      BY <1>3, <1>4, <3>1 DEF own
    <3> QED BY <3>1, <3>2
  <2>2. ASSUME NEW y \in moved
        PROVE  \E pos \in Positions(q) : y \in TextAt(t, pos)
    <3>1. PICK p \in others : y \in t.rows[p[1]][p[2]].text
      BY <2>2 DEF moved
    <3>2. PICK pos \in Positions(q) : p = <<t.index[pos].row, t.index[pos].cell>>
      BY DEF PlacesIn, others
    <3>3. TextAt(t, pos) = t.rows[p[1]][p[2]].text
      BY <1>4, <3>2
    <3> QED BY <3>1, <3>3
  <2>3. ASSUME NEW pos \in Positions(q), NEW y \in TextAt(t, pos)
        PROVE  y \in own \/ y \in moved
    <3> DEFINE p == <<t.index[pos].row, t.index[pos].cell>>
    <3>1. p \in PlacesIn(t, q) /\ TextAt(t, pos) = t.rows[p[1]][p[2]].text
      BY <1>4 DEF PlacesIn
    <3>2. CASE p = <<b, i>>
      BY <2>3, <3>1, <3>2 DEF own
    <3>3. CASE p # <<b, i>>
      <4>1. p \in others
        BY <3>1, <3>3 DEF others
      <4> HIDE DEF p
      <4> QED BY <2>3, <3>1, <4>1 DEF moved
    <3> QED BY <3>2, <3>3
  <2> QED BY <2>1, <2>2, <2>3
<1> QED BY <1>11, <1>12, <1>13

(* The first cell of a range, and what it becomes.                         *)
Merges(t, q, i, x) == i = t.index[<<q.beginRow, q.beginCol>>].cell /\ x = MergedCell(t, q, i)

\* The merged cell, with its place and its new form named together.
LEMMA MergedOne ==
  ASSUME NEW t, NEW R, NEW C, NEW G, NEW K, NEW q, Mergeable(t, R, C, G, K, q), NEW i, NEW x, Merges(t, q, i, x)
  PROVE  /\ Merging(G, R, C, q, x) /\ x.text = UNION {TextAt(t, pos) : pos \in Positions(q)}
         /\ i \in 1..Len(t.rows[q.beginRow]) /\ K[q.beginRow][i] = q.beginCol
<1>1. i = t.index[<<q.beginRow, q.beginCol>>].cell /\ x = MergedCell(t, q, i)
  BY DEF Merges
<1>2. /\ t.index[<<q.beginRow, q.beginCol>>].cell \in 1..Len(t.rows[q.beginRow])
      /\ K[q.beginRow][t.index[<<q.beginRow, q.beginCol>>].cell] = q.beginCol
  <2>1. InCorner(t, K, q)
    BY CornerOf
  <2> QED BY <2>1 DEF InCorner
<1>3. Merging(G, R, C, q, x) /\ x.text = UNION {TextAt(t, pos) : pos \in Positions(q)}
  BY <1>1, MergedCellIs
<1> QED BY <1>1, <1>2, <1>3

\* mergeRange rebuilds the table from the merged rows.
LEMMA MergeRangeIs ==
  ASSUME NEW t, NEW R, NEW C, NEW G, NEW K, NEW q, Mergeable(t, R, C, G, K, q), NEW i, NEW x, Merges(t, q, i, x)
  PROVE  mergeRange(t) = update(MergedRows(t, q, i, x)) /\ Lays(MergedRows(t, q, i, x), C, {}, MergedGrid(G, R, C, q, x))
         /\ Len(MergedRows(t, q, i, x)) = R
<1> DEFINE spans == MergedSpans(t, q)
           r == q.beginRow
           others == PlacesIn(t, q) \ {<<r, i>>}
           plain == Unmarked(t.rows)
           moved == UNION {t.rows[p[1]][p[2]].text : p \in others}
           whole == spans.colSpan = t.colsNum /\ spans.rowSpan # 1
           one == [plain[r][i] EXCEPT !.text = @ \union moved, !.colSpan = spans.colSpan,
                                      !.rowSpan = IF whole THEN 1 ELSE spans.rowSpan]
           merged == Without([plain EXCEPT ![r][i] = one], others)
           deleted == IF whole THEN (r + 1)..spans.rowSpan ELSE {}
           rows == MergedRows(t, q, i, x)
<1>1. /\ TableOf(t, R, C, G, K) /\ Tiled(t) /\ ~Cut(t, q) /\ q = t.cellsRange
      /\ \A y \in 1..R : \A j \in 1..Len(t.rows[y]) : Stands(t, R, C, G, K, y, j)
      /\ q.beginRow \in 1..R /\ q.endRow \in 1..R /\ q.beginRow <= q.endRow
      /\ q.beginCol \in 1..C /\ q.endCol \in 1..C /\ q.beginCol <= q.endCol
      /\ q.beginCol > 1 \/ q.endCol < C
      /\ q.beginRow > 1 \/ q.endRow < R
  BY DEF Mergeable, Spread
<1>2. R \in Nat /\ C \in Nat /\ t.rowsNum = R /\ t.colsNum = C
  BY <1>1 DEF TableOf
<1>0. i = t.index[<<r, q.beginCol>>].cell
  BY DEF Merges
<1>3. mergeRange(t) = IF Cut(t, q) THEN Throw(t, plain)
        ELSE update(SubSeq(merged, 1, r) \o SubSeq(merged, r + 1 + Cardinality(deleted), Len(merged)))
  BY <1>0, <1>1 DEF mergeRange
<1>4. /\ spans.rowSpan = q.endRow - q.beginRow + 1 /\ spans.colSpan = q.endCol - q.beginCol + 1 /\ ~whole
  <2> DEFINE h == q.endRow - q.beginRow + 1
             w == q.endCol - q.beginCol + 1
  <2>1. h # R /\ w \in Int /\ 1 <= w /\ w # C /\ h \in Int
    <3> DEFINE a == q.beginRow
               b == q.endRow
               c == q.beginCol
               d == q.endCol
    <3>1. /\ a \in 1..R /\ b \in 1..R /\ a <= b /\ c \in 1..C /\ d \in 1..C /\ c <= d
          /\ c > 1 \/ d < C
          /\ a > 1 \/ b < R
          /\ h = b - a + 1 /\ w = d - c + 1
      BY <1>1
    <3> HIDE DEF a, b, c, d, h, w
    <3> QED BY <1>2, <3>1
  <2>2. Max({1, w}) = w
    <3>1. {1, w} \in SUBSET Int /\ w \in {1, w} /\ \A y \in {1, w} : y <= w
      BY <2>1
    <3> HIDE DEF w
    <3> QED BY <3>1, MaxIs
  <2>3. spans = [rowSpan |-> h, colSpan |-> IF h = t.rowsNum THEN 1 ELSE Max({1, w})]
    BY DEF MergedSpans
  <2> HIDE DEF h, w, spans
  <2>4. spans.rowSpan = h /\ spans.colSpan = w
    BY <1>2, <2>1, <2>2, <2>3
  <2> QED BY <1>2, <2>1, <2>4 DEF h, w
<1>5. merged = rows
  <2> DEFINE o == plain[r][i]
             h == q.endRow - q.beginRow + 1
             w == q.endCol - q.beginCol + 1
  <2>1. one = [o EXCEPT !.text = @ \union moved, !.colSpan = spans.colSpan,
                        !.rowSpan = IF whole THEN 1 ELSE spans.rowSpan]
    OBVIOUS
  <2>2. x = [o EXCEPT !.text = @ \union moved, !.colSpan = w, !.rowSpan = h]
    BY DEF MergedCell, Merges
  <2>3. spans.colSpan = w /\ spans.rowSpan = h /\ ~whole
    BY <1>4
  <2> HIDE DEF spans, o, moved, w, h, whole
  <2>4. one = x
    BY <2>1, <2>2, <2>3
  <2> HIDE DEF one
  <2> QED BY <2>4 DEF MergedRows
<1>6. deleted = {} /\ Cardinality({}) = 0
  BY <1>4, FS_EmptySet
<1>7. Merging(G, R, C, q, x) /\ i \in 1..Len(t.rows[q.beginRow]) /\ K[q.beginRow][i] = q.beginCol
  BY MergedOne
<1>9. Lays(rows, C, {}, MergedGrid(G, R, C, q, x)) /\ Len(rows) = R /\ rows \in Seq(Seq(Cell))
  BY <1>1, <1>7, MergedLays
<1> HIDE DEF merged, deleted, spans, rows
<1>10. mergeRange(t) = update(SubSeq(rows, 1, r) \o SubSeq(rows, r + 1, Len(rows)))
  <2>1. r + 1 + Cardinality(deleted) = r + 1
    BY <1>1, <1>2, <1>6
  <2> QED BY <1>1, <1>3, <1>5, <2>1
<1>11. SubSeq(rows, 1, r) \o SubSeq(rows, r + 1, Len(rows)) = rows
  <2> DEFINE SC == Seq(Cell)
  <2>1. rows \in Seq(SC) /\ r \in 1..Len(rows)
    BY <1>1, <1>9
  <2> HIDE DEF SC, r
  <2> QED BY <2>1, JoinedBack
<1> QED BY <1>9, <1>10, <1>11 DEF rows

(* The merge of the range makes one cell of exactly its area, with all its *)
(* contents.                                                               *)
MadeOne(t, u, q) ==
    LET one == u.index[<<q.beginRow, q.beginCol>>]
    IN  Area(one) = Positions(q) /\ CellOf(u, one).text = UNION {TextAt(t, pos) : pos \in Positions(q)}

\* Merging a range that cuts no cell makes one cell of it.
LEMMA MergeMakesOne ==
  ASSUME NEW t, NEW R, NEW C, NEW G, NEW K, NEW q, Mergeable(t, R, C, G, K, q)
  PROVE  MadeOne(t, mergeRange(t), q)
<1> DEFINE i == t.index[<<q.beginRow, q.beginCol>>].cell
           x == MergedCell(t, q, i)
           rows == MergedRows(t, q, i, x)
           D == MergedGrid(G, R, C, q, x)
           u == mergeRange(t)
           one == u.index[<<q.beginRow, q.beginCol>>]
<1>0. Merges(t, q, i, x)
  BY DEF Merges
<1> HIDE DEF i, x
<1>1. u = update(rows) /\ Lays(rows, C, {}, D) /\ Len(rows) = R
  BY <1>0, MergeRangeIs
<1>2. Merging(G, R, C, q, x) /\ x.text = UNION {TextAt(t, pos) : pos \in Positions(q)}
  BY <1>0, MergedOne
<1>3. /\ q.beginRow \in 1..R /\ q.endRow \in 1..R /\ q.beginRow <= q.endRow /\ R \in Nat /\ C \in Nat
      /\ q.beginCol \in 1..C /\ q.endCol \in 1..C /\ q.beginCol <= q.endCol
      /\ x.rowSpan = q.endRow - q.beginRow + 1 /\ x.colSpan = q.endCol - q.beginCol + 1
  BY <1>2 DEF Merging, Spread
<1>4. Inside(q, q.beginRow, q.beginCol)
  BY <1>3 DEF Inside
<1>5. D[q.beginRow][q.beginCol] = [row |-> q.beginRow, col |-> q.beginCol, cell |-> x]
  BY <1>3, <1>4 DEF MergedGrid
<1> HIDE DEF rows, D, u
<1>6. LooksLike(u, rows, C, D)
  BY <1>1, UpdateLays
<1>7. /\ one.row = q.beginRow /\ one.col = q.beginCol /\ CellOf(u, one) = x
      /\ one.rowSpan = x.rowSpan /\ one.colSpan = x.colSpan
  <2>1. \A r \in 1..R, c \in 1..C :
          /\ u.index[<<r, c>>].row = D[r][c].row /\ u.index[<<r, c>>].col = D[r][c].col
          /\ CellOf(u, u.index[<<r, c>>]) = D[r][c].cell
          /\ u.index[<<r, c>>].rowSpan = D[r][c].cell.rowSpan
          /\ u.index[<<r, c>>].colSpan = D[r][c].cell.colSpan
    BY <1>1, <1>6 DEF LooksLike
  <2> QED BY <1>3, <1>5, <2>1
<1> HIDE DEF one
<1>8. Area(one) = Positions(q)
  <2>1. /\ one.row + one.rowSpan - 1 = q.endRow /\ one.col + one.colSpan - 1 = q.endCol
    BY <1>3, <1>7
  <2> QED BY <1>7, <2>1 DEF Area, Positions
<1> QED BY <1>2, <1>7, <1>8 DEF one, u, MadeOne

-----------------------------------------------------------------------------
(* A cell is split.                                                        *)

(* A tiled table with its layout, in full.                                 *)
Standing(t, R, C, G, K) ==
    /\ Tiled(t) /\ TableOf(t, R, C, G, K)
    /\ \A r \in 1..R, c \in 1..C : Agrees(t, G, K, r, c)
    /\ \A r \in 1..R : \A i \in 1..Len(t.rows[r]) : Stands(t, R, C, G, K, r, i)

\* A tiled table with rows has a layout.
LEMMA StandingTiled ==
  ASSUME NEW t, Tiled(t), t.rowsNum > 0
  PROVE  Standing(t, t.rowsNum, t.colsNum, GridOf(t), ColumnsOf(t))
BY TableOfTiled DEF Standing

\* What the index says of a cell is what it says of the cell's first position.
LEMMA InfoOfIs ==
  ASSUME NEW t, NEW R, NEW C, NEW G, NEW K, Standing(t, R, C, G, K), NEW r \in 1..R, NEW i \in 1..Len(t.rows[r])
  PROVE  /\ InfoOf(t, <<r, i>>) = t.index[<<r, K[r][i]>>]
         /\ InfoOf(t, <<r, i>>) = Info(t.rows, r, i, K[r][i])
<1> DEFINE c == K[r][i]
           S == {t.index[pos] : pos \in DOMAIN t.index}
           j == t.index[<<r, c>>]
<1>1. /\ TableOf(t, R, C, G, K) /\ Stands(t, R, C, G, K, r, i)
      /\ \A x \in 1..R, y \in 1..C : Agrees(t, G, K, x, y)
  BY DEF Standing
<1>2. /\ c \in 1..C /\ G[r][c].col = c /\ j = Info(t.rows, r, i, c)
      /\ \A x \in 1..R, y \in 1..C :
            (t.index[<<x, y>>].row = r /\ t.index[<<x, y>>].cell = i) <=> G[x][y] = G[r][c]
  BY <1>1 DEF Stands
<1> HIDE DEF c
<1>3. DOMAIN t.index = (1..R) \X (1..C)
  BY <1>1 DEF TableOf
<1>4. j \in S /\ j.row = r /\ j.cell = i
  <2>1. <<r, c>> \in DOMAIN t.index
    BY <1>2, <1>3
  <2> QED BY <1>2, <2>1 DEF Info
<1>5. ASSUME NEW info \in S, info.row = r, info.cell = i
      PROVE  info = j
  <2>1. PICK pos \in DOMAIN t.index : info = t.index[pos]
    OBVIOUS
  <2>2. PICK x \in 1..R, y \in 1..C : pos = <<x, y>>
    BY <1>3
  <2>3. G[x][y] = G[r][c]
    BY <1>2, <1>5, <2>1, <2>2
  <2>4. Agrees(t, G, K, x, y)
    BY <1>1
  <2>5. info.col = G[x][y].col /\ info = Info(t.rows, info.row, info.cell, info.col)
    BY <2>1, <2>2, <2>4 DEF Agrees
  <2> QED BY <1>2, <1>5, <2>3, <2>5
<1> HIDE DEF S
<1>6. InfoIn(t.index, <<r, i>>) = j
  <2>1. InfoIn(t.index, <<r, i>>) = CHOOSE info \in S : info.row = r /\ info.cell = i
    BY DEF InfoIn, S
  <2> QED BY <1>4, <1>5, <2>1
<1> QED BY <1>2, <1>6 DEF InfoOf, c

(* One of the cells that a cell is split into.                             *)
PartBox(g, D, r, c) ==
    LET d == D[r][c]
    IN  /\ d = [row |-> d.row, col |-> d.col, cell |-> d.cell] /\ d.cell \in Cell
        /\ d.row \in Int /\ d.col \in Int /\ d.cell.rowSpan \in Int /\ d.cell.colSpan \in Int
        /\ 1 <= d.cell.rowSpan /\ 1 <= d.cell.colSpan
        /\ g.row <= d.row /\ d.row <= r /\ r < d.row + d.cell.rowSpan
        /\ d.row + d.cell.rowSpan <= g.row + g.cell.rowSpan
        /\ g.col <= d.col /\ d.col <= c /\ c < d.col + d.cell.colSpan
        /\ d.col + d.cell.colSpan <= g.col + g.cell.colSpan
        /\ \A x, y : Within(d, x, y) => D[x][y] = d

(* Layout D is G with the cell that begins at row r0 and column c0 split.  *)
Splits(G, R, C, r0, c0, D) ==
    LET g == G[r0][c0]
    IN  /\ Laid(G, R, C, {}) /\ R \in Nat \ {0} /\ C \in Nat
        /\ r0 \in 1..R /\ c0 \in 1..C /\ g.row = r0 /\ g.col = c0
        /\ \A r \in 1..R, c \in 1..C : Within(g, r, c) => PartBox(g, D, r, c)
        /\ \A r \in 1..R, c \in 1..C : ~Within(g, r, c) => D[r][c] = G[r][c]

\* A cell that does not cover a position keeps out of the cell that does.
LEMMA KeepsOff ==
  ASSUME NEW R, NEW C, NEW G, NEW g, NEW r0 \in 1..R, NEW c0 \in 1..C, g = G[r0][c0], Laid(G, R, C, {}),
         NEW r \in 1..R, NEW c \in 1..C, ~Within(g, r, c), NEW x, NEW y, Within(G[r][c], x, y)
  PROVE  ~Within(g, x, y) /\ x \in 1..R /\ y \in 1..C /\ G[x][y] = G[r][c]
<1> DEFINE d == G[r][c]
<1>1. Box(G, R, C, r, c) /\ Box(G, R, C, r0, c0)
  BY Boxed
<1>2. x \in 1..R /\ y \in 1..C /\ G[x][y] = d
  BY <1>1, BoxAll
<1>3. SUFFICES ASSUME Within(g, x, y)
               PROVE  FALSE
  BY <1>2
<1>4. G[x][y] = g
  BY <1>1, <1>3, BoxAll
<1>5. Within(d, r, c)
  BY <1>1 DEF Box, Within
<1> QED BY <1>2, <1>4, <1>5

\* A layout with one cell split is a layout.
LEMMA SplitLaid ==
  ASSUME NEW R, NEW C, NEW G, NEW r0, NEW c0, NEW D, Splits(G, R, C, r0, c0, D)
  PROVE  Laid(D, R, C, {})
<1> DEFINE g == G[r0][c0]
<1>1. /\ Laid(G, R, C, {}) /\ R \in Nat \ {0} /\ C \in Nat
      /\ r0 \in 1..R /\ c0 \in 1..C /\ g.row = r0 /\ g.col = c0
      /\ \A r \in 1..R, c \in 1..C : Within(g, r, c) => PartBox(g, D, r, c)
      /\ \A r \in 1..R, c \in 1..C : ~Within(g, r, c) => D[r][c] = G[r][c]
  BY DEF Splits
<1>2. Box(G, R, C, r0, c0)
  BY <1>1, Boxed
<1>3. /\ g.row \in Int /\ g.col \in Int /\ g.cell.rowSpan \in Int /\ g.cell.colSpan \in Int
      /\ 1 <= g.row /\ g.row + g.cell.rowSpan <= R + 1 /\ 1 <= g.col /\ g.col + g.cell.colSpan <= C + 1
  BY <1>2 DEF Box
<1> HIDE DEF g
<1>4. ASSUME NEW r \in 1..R, NEW c \in 1..C, Within(g, r, c)
      PROVE  Box(D, R, C, r, c)
  <2> DEFINE d == D[r][c]
  <2>1. PartBox(g, D, r, c)
    BY <1>1, <1>4
  <2>2. /\ d = [row |-> d.row, col |-> d.col, cell |-> d.cell] /\ d.cell \in Cell
        /\ d.row \in Int /\ d.col \in Int /\ d.cell.rowSpan \in Int /\ d.cell.colSpan \in Int
        /\ 1 <= d.cell.rowSpan /\ 1 <= d.cell.colSpan
        /\ g.row <= d.row /\ d.row <= r /\ r < d.row + d.cell.rowSpan
        /\ d.row + d.cell.rowSpan <= g.row + g.cell.rowSpan
        /\ g.col <= d.col /\ d.col <= c /\ c < d.col + d.cell.colSpan
        /\ d.col + d.cell.colSpan <= g.col + g.cell.colSpan
        /\ \A x, y : Within(d, x, y) => D[x][y] = d
    BY <2>1 DEF PartBox
  <2> HIDE DEF d
  <2>3. ASSUME NEW x, NEW y, Within(d, x, y)
        PROVE  x \in 1..R /\ y \in 1..C
    <3>1. /\ x \in Int /\ y \in Int
          /\ d.row <= x /\ x < d.row + d.cell.rowSpan
          /\ d.col <= y /\ y < d.col + d.cell.colSpan
      BY <2>3 DEF Within
    <3> QED BY <1>1, <1>3, <2>2, <3>1
  <2>4. \A x, y : Within(d, x, y) => x \in 1..R /\ y \in 1..C /\ D[x][y] = d
    BY <2>2, <2>3
  <2>5. r \in Int /\ c \in Int /\ R \in Int /\ C \in Int /\ r <= R /\ c <= C
    BY <1>1
  <2> QED BY <1>1, <1>3, <2>2, <2>4, <2>5 DEF Box, d
<1>5. ASSUME NEW r \in 1..R, NEW c \in 1..C, ~Within(g, r, c)
      PROVE  Box(D, R, C, r, c)
  <2> DEFINE d == G[r][c]
  <2>1. D[r][c] = d
    BY <1>1, <1>5
  <2>2. Box(G, R, C, r, c)
    BY <1>1, Boxed
  <2>3. ASSUME NEW y, NEW z, Within(d, y, z)
        PROVE  y \in 1..R /\ z \in 1..C /\ D[y][z] = d
    <3>1. g = G[r0][c0]
      BY DEF g
    <3>2. ~Within(g, y, z) /\ y \in 1..R /\ z \in 1..C /\ G[y][z] = d
      BY <1>1, <1>5, <2>3, <3>1, KeepsOff
    <3> QED BY <1>1, <3>2
  <2> QED BY <2>1, <2>2, <2>3 DEF Box
<1>6. \A r \in 1..R, c \in 1..C : Box(D, R, C, r, c)
  BY <1>4, <1>5
<1> QED BY <1>1, <1>6, LaidFrom

(* The layout when a cell is split into rows.                              *)
RowSplitGrid(G, R, C, r0, c0) ==
    LET g == G[r0][c0]
    IN  [r \in 1..R |-> [c \in 1..C |->
            IF Within(g, r, c)
            THEN [row |-> r, col |-> c0, cell |-> IF r = r0 THEN [g.cell EXCEPT !.rowSpan = 1]
                                                            ELSE [BlankCell EXCEPT !.colSpan = g.cell.colSpan]]
            ELSE G[r][c]]]

(* A cell that begins at row r0 and column c0.                             *)
Begins(G, R, C, r0, c0) ==
    /\ Laid(G, R, C, {}) /\ R \in Nat \ {0} /\ C \in Nat
    /\ r0 \in 1..R /\ c0 \in 1..C /\ G[r0][c0].row = r0 /\ G[r0][c0].col = c0

\* The cell's measures.
LEMMA BeginsAt ==
  ASSUME NEW G, NEW R, NEW C, NEW r0, NEW c0, Begins(G, R, C, r0, c0), NEW g, g = G[r0][c0]
  PROVE  /\ R \in Int /\ C \in Int /\ r0 \in Int /\ c0 \in Int /\ 1 <= r0 /\ 1 <= c0 /\ g.row = r0 /\ g.col = c0
         /\ g.cell \in Cell /\ g.cell.rowSpan \in Int /\ g.cell.colSpan \in Int
         /\ 1 <= g.cell.rowSpan /\ 1 <= g.cell.colSpan
         /\ r0 + g.cell.rowSpan <= R + 1 /\ c0 + g.cell.colSpan <= C + 1
         /\ \A x, y : Within(g, x, y) => x \in 1..R /\ y \in 1..C /\ G[x][y] = g
<1>1. Box(G, R, C, r0, c0) /\ r0 \in 1..R /\ c0 \in 1..C /\ g.row = r0 /\ g.col = c0 /\ R \in Int /\ C \in Int
  BY Boxed DEF Begins
<1> QED BY <1>1 DEF Box

\* A row of the split cell's area is one of its parts.
LEMMA RowSplits ==
  ASSUME NEW G, NEW R, NEW C, NEW r0, NEW c0, Begins(G, R, C, r0, c0), NEW D, D = RowSplitGrid(G, R, C, r0, c0)
  PROVE  Splits(G, R, C, r0, c0, D)
<1> DEFINE g == G[r0][c0]
           own == [g.cell EXCEPT !.rowSpan = 1]
           low == [BlankCell EXCEPT !.colSpan = g.cell.colSpan]
           part(r) == [row |-> r, col |-> c0, cell |-> IF r = r0 THEN own ELSE low]
<1>1. /\ R \in Int /\ C \in Int /\ r0 \in Int /\ c0 \in Int /\ 1 <= r0 /\ 1 <= c0 /\ g.row = r0 /\ g.col = c0
      /\ g.cell \in Cell /\ g.cell.rowSpan \in Int /\ g.cell.colSpan \in Int
      /\ 1 <= g.cell.rowSpan /\ 1 <= g.cell.colSpan
      /\ r0 + g.cell.rowSpan <= R + 1 /\ c0 + g.cell.colSpan <= C + 1
      /\ \A x, y : Within(g, x, y) => x \in 1..R /\ y \in 1..C /\ G[x][y] = g
  BY BeginsAt
<1>2. \A r \in 1..R, c \in 1..C : D[r][c] = IF Within(g, r, c) THEN part(r) ELSE G[r][c]
  BY DEF RowSplitGrid
<1> HIDE DEF g
<1>3. own \in Cell /\ own.rowSpan = 1 /\ own.colSpan = g.cell.colSpan
  <2>1. 1 \in Nat \ {0}
    OBVIOUS
  <2> QED BY <1>1, <2>1, WithRowSpan
<1>4. low \in Cell /\ low.rowSpan = 1 /\ low.colSpan = g.cell.colSpan
  <2>1. g.cell.colSpan \in Nat \ {0}
    BY <1>1
  <2> QED BY <2>1, BlankIs, WithColSpan
<1> HIDE DEF own, low
<1>5. ASSUME NEW r \in 1..R, NEW c \in 1..C, Within(g, r, c)
      PROVE  PartBox(g, D, r, c)
  <2> DEFINE d == part(r)
  <2>1. /\ d.row = r /\ d.col = c0 /\ d.cell = (IF r = r0 THEN own ELSE low)
        /\ d = [row |-> d.row, col |-> d.col, cell |-> d.cell]
    OBVIOUS
  <2>2. D[r][c] = d
    BY <1>2, <1>5
  <2> HIDE DEF d
  <2>3. d.cell \in Cell /\ d.cell.rowSpan = 1 /\ d.cell.colSpan = g.cell.colSpan
    BY <1>3, <1>4, <2>1
  <2>4. r \in Int /\ c \in Int /\ r0 <= r /\ r < r0 + g.cell.rowSpan /\ c0 <= c /\ c < c0 + g.cell.colSpan
    BY <1>1, <1>5 DEF Within
  <2>5. ASSUME NEW x, NEW y, Within(d, x, y)
        PROVE  D[x][y] = d
    <3>1. /\ x \in Int /\ y \in Int /\ r <= x /\ x < r + 1 /\ c0 <= y /\ y < c0 + g.cell.colSpan
      BY <2>1, <2>3, <2>5 DEF Within
    <3>2. x = r
      BY <2>4, <3>1
    <3>3. Within(g, x, y)
      BY <1>1, <2>4, <3>1, <3>2 DEF Within
    <3>4. x \in 1..R /\ y \in 1..C
      BY <1>1, <3>3
    <3>5. D[x][y] = part(x)
      BY <1>2, <3>3, <3>4
    <3> QED BY <3>2, <3>5 DEF d
  <2> QED BY <1>1, <2>1, <2>2, <2>3, <2>4, <2>5 DEF PartBox
<1>6. \A r \in 1..R, c \in 1..C : ~Within(g, r, c) => D[r][c] = G[r][c]
  BY <1>2
<1> QED BY <1>5, <1>6 DEF Splits, Begins, g

\* The cells that begin in a row then: the rows below the first gain one.
LEMMA RowSplitStarts ==
  ASSUME NEW G, NEW R, NEW C, NEW r0, NEW c0, Begins(G, R, C, r0, c0), NEW D, D = RowSplitGrid(G, R, C, r0, c0),
         NEW g, g = G[r0][c0], NEW r \in 1..R
  PROVE  /\ ~(r0 < r /\ r < r0 + g.cell.rowSpan) => Starts(D, r, C) = Starts(G, r, C)
         /\ r0 < r /\ r < r0 + g.cell.rowSpan =>
              /\ Starts(D, r, C) = Starts(G, r, C) \union {c0} /\ c0 \notin Starts(G, r, C) /\ G[r][c0].col = c0
              /\ D[r][c0].cell = [BlankCell EXCEPT !.colSpan = g.cell.colSpan]
         /\ \A c \in Starts(G, r, C) :
              D[r][c].cell = IF r = r0 /\ c = c0 THEN [g.cell EXCEPT !.rowSpan = 1] ELSE G[r][c].cell
<1> DEFINE own == [g.cell EXCEPT !.rowSpan = 1]
           low == [BlankCell EXCEPT !.colSpan = g.cell.colSpan]
           part == [row |-> r, col |-> c0, cell |-> IF r = r0 THEN own ELSE low]
<1>1. /\ R \in Int /\ C \in Int /\ r0 \in Int /\ c0 \in Int /\ 1 <= r0 /\ 1 <= c0 /\ g.row = r0 /\ g.col = c0
      /\ g.cell.rowSpan \in Int /\ g.cell.colSpan \in Int /\ 1 <= g.cell.rowSpan /\ 1 <= g.cell.colSpan
      /\ \A x, y : Within(g, x, y) => x \in 1..R /\ y \in 1..C /\ G[x][y] = g
  BY BeginsAt
<1>2. \A c \in 1..C : D[r][c] = IF Within(g, r, c) THEN part ELSE G[r][c]
  BY DEF RowSplitGrid
<1>3. part.row = r /\ part.col = c0 /\ part.cell = IF r = r0 THEN own ELSE low
  OBVIOUS
<1>4. c0 \in 1..C /\ r \in Int
  BY DEF Begins
<1> HIDE DEF own, low, part
<1>5. ASSUME NEW c \in 1..C, Within(g, r, c)
      PROVE  /\ c \in Starts(G, r, C) <=> r = r0 /\ c = c0
             /\ c \in Starts(D, r, C) <=> c = c0
             /\ r0 <= r /\ r < r0 + g.cell.rowSpan
  <2>1. G[r][c] = g /\ D[r][c] = part
    BY <1>1, <1>2, <1>5
  <2>2. r0 <= r /\ r < r0 + g.cell.rowSpan
    BY <1>1, <1>5 DEF Within
  <2>3. c \in Starts(G, r, C) <=> g.row = r /\ g.col = c
    BY <2>1 DEF Starts
  <2>4. c \in Starts(D, r, C) <=> part.row = r /\ part.col = c
    BY <2>1 DEF Starts
  <2> QED BY <1>1, <1>3, <2>2, <2>3, <2>4
<1>6. ASSUME NEW c \in 1..C, ~Within(g, r, c)
      PROVE  (c \in Starts(D, r, C) <=> c \in Starts(G, r, C)) /\ D[r][c] = G[r][c]
  BY <1>2, <1>6 DEF Starts
<1>7. Within(g, r, c0) <=> r0 <= r /\ r < r0 + g.cell.rowSpan
  BY <1>1, <1>4 DEF Within
<1>8. Starts(D, r, C) \in SUBSET (1..C) /\ Starts(G, r, C) \in SUBSET (1..C)
  BY DEF Starts
<1>9. ASSUME ~(r0 < r /\ r < r0 + g.cell.rowSpan)
      PROVE  Starts(D, r, C) = Starts(G, r, C)
  <2>1. ASSUME NEW c \in 1..C
        PROVE  c \in Starts(D, r, C) <=> c \in Starts(G, r, C)
    <3>1. ASSUME Within(g, r, c)
          PROVE  r = r0
      BY <1>1, <1>4, <1>5, <1>9, <3>1
    <3> QED BY <1>5, <1>6, <3>1
  <2> QED BY <1>8, <2>1
<1>10. ASSUME r0 < r, r < r0 + g.cell.rowSpan
       PROVE  /\ Starts(D, r, C) = Starts(G, r, C) \union {c0} /\ c0 \notin Starts(G, r, C) /\ G[r][c0].col = c0
              /\ D[r][c0].cell = low
  <2>1. r # r0 /\ Within(g, r, c0)
    BY <1>1, <1>4, <1>7, <1>10
  <2>2. c0 \notin Starts(G, r, C) /\ c0 \in Starts(D, r, C) /\ G[r][c0] = g /\ D[r][c0] = part
    BY <1>1, <1>2, <1>4, <1>5, <2>1
  <2>3. \A c \in 1..C : c # c0 => (c \in Starts(D, r, C) <=> c \in Starts(G, r, C))
    BY <1>5, <1>6, <2>1
  <2>4. Starts(D, r, C) = Starts(G, r, C) \union {c0}
    BY <1>8, <2>2, <2>3
  <2> QED BY <1>1, <1>3, <2>1, <2>2, <2>4
<1>11. ASSUME NEW c \in Starts(G, r, C)
       PROVE  D[r][c].cell = IF r = r0 /\ c = c0 THEN own ELSE G[r][c].cell
  <2>1. c \in 1..C
    BY <1>8
  <2>2. CASE Within(g, r, c)
    <3>1. r = r0 /\ c = c0 /\ D[r][c] = part
      BY <1>2, <1>5, <2>1, <2>2
    <3> QED BY <1>3, <3>1
  <2>3. CASE ~Within(g, r, c)
    <3>1. ~(r = r0 /\ c = c0)
      BY <1>1, <1>7, <2>3
    <3> QED BY <1>6, <2>1, <2>3, <3>1
  <2> QED BY <2>2, <2>3
<1> QED BY <1>9, <1>10, <1>11 DEF own, low

WithCell(rows, b, i, x) == [rows EXCEPT ![b][i] = x]

HasCell(m, rows, b, i, x) ==
    /\ m = [r \in 1..Len(rows) |-> m[r]]
    /\ \A r \in 1..Len(rows) :
          /\ m[r] \in Seq(Cell) /\ Len(m[r]) = Len(rows[r]) /\ DOMAIN m[r] = 1..Len(rows[r])
          /\ \A j \in 1..Len(rows[r]) : m[r][j] = IF r = b /\ j = i THEN x ELSE rows[r][j]

\* Rows with one cell replaced.
LEMMA CellSet ==
  ASSUME NEW rows \in Seq(Seq(Cell)), NEW b \in 1..Len(rows), NEW i \in 1..Len(rows[b]), NEW x \in Cell,
         NEW m, m = WithCell(rows, b, i, x)
  PROVE  HasCell(m, rows, b, i, x)
<1> DEFINE R == Len(rows)
<1>1. /\ DOMAIN rows = 1..R
      /\ \A r \in 1..R : rows[r] \in Seq(Cell) /\ Len(rows[r]) \in Nat /\ DOMAIN rows[r] = 1..Len(rows[r])
  BY RowsTyped
<1>2. m = [r \in 1..R |-> IF r = b THEN [rows[b] EXCEPT ![i] = x] ELSE rows[r]]
  BY <1>1 DEF WithCell
<1> HIDE DEF R
<1>3. m = [r \in 1..R |-> m[r]]
  BY <1>2
<1>4. m[b] = [rows[b] EXCEPT ![i] = x] /\ \A r \in 1..R : r # b => m[r] = rows[r]
  BY <1>2 DEF R
<1>5. rows[b] \in [1..Len(rows[b]) -> Cell] /\ Len(rows[b]) \in Nat /\ b \in 1..R
  <2>1. rows[b] \in Seq(Cell)
    BY <1>1 DEF R
  <2> QED BY <1>1, <2>1 DEF R
<1>6. m[b] \in [1..Len(rows[b]) -> Cell] /\ \A j \in 1..Len(rows[b]) : m[b][j] = IF j = i THEN x ELSE rows[b][j]
  BY <1>4, <1>5
<1>7. m[b] \in Seq(Cell) /\ Len(m[b]) = Len(rows[b]) /\ DOMAIN m[b] = 1..Len(rows[b])
  BY <1>5, <1>6, FcnIsSeq
<1>8. ASSUME NEW r \in 1..R
      PROVE  /\ m[r] \in Seq(Cell) /\ Len(m[r]) = Len(rows[r]) /\ DOMAIN m[r] = 1..Len(rows[r])
             /\ \A j \in 1..Len(rows[r]) : m[r][j] = IF r = b /\ j = i THEN x ELSE rows[r][j]
  <2>1. CASE r = b
    BY <1>6, <1>7, <2>1
  <2>2. CASE r # b
    BY <1>1, <1>4, <2>2
  <2> QED BY <2>1, <2>2
<1> QED BY <1>3, <1>8 DEF R, HasCell

(* The cell at a place, to be split.                                       *)
Splitting(t, R, C, G, K, r0, i0, c0) ==
    /\ Standing(t, R, C, G, K) /\ r0 \in 1..R /\ i0 \in 1..Len(t.rows[r0]) /\ c0 = K[r0][i0]

Tells(info, t, G, r0, i0, c0) ==
    /\ info = t.index[<<r0, c0>>] /\ info.row = r0 /\ info.col = c0 /\ info.cell = i0
    /\ info.rowSpan = G[r0][c0].cell.rowSpan /\ info.colSpan = G[r0][c0].cell.colSpan

\* What the index says of the cell, and what the layout does.
LEMMA SplitOf ==
  ASSUME NEW t, NEW R, NEW C, NEW G, NEW K, NEW r0, NEW i0, NEW c0, Splitting(t, R, C, G, K, r0, i0, c0)
  PROVE  /\ Begins(G, R, C, r0, c0) /\ t.rows[r0][i0] = G[r0][c0].cell
         /\ Tells(InfoOf(t, <<r0, i0>>), t, G, r0, i0, c0)
<1>1. /\ Standing(t, R, C, G, K) /\ TableOf(t, R, C, G, K) /\ Stands(t, R, C, G, K, r0, i0)
      /\ r0 \in 1..R /\ i0 \in 1..Len(t.rows[r0]) /\ c0 = K[r0][i0]
  BY DEF Splitting, Standing
<1>2. InfoOf(t, <<r0, i0>>) = t.index[<<r0, c0>>] /\ InfoOf(t, <<r0, i0>>) = Info(t.rows, r0, i0, c0)
  BY <1>1, InfoOfIs
<1>3. c0 \in 1..C /\ G[r0][c0].row = r0 /\ G[r0][c0].col = c0 /\ t.rows[r0][i0] = G[r0][c0].cell
  BY <1>1 DEF Stands
<1>4. Laid(G, R, C, {}) /\ R \in Nat \ {0} /\ C \in Nat
  BY <1>1 DEF TableOf
<1>5. Begins(G, R, C, r0, c0)
  BY <1>1, <1>3, <1>4 DEF Begins
<1> QED BY <1>2, <1>3, <1>5 DEF Info, Tells

\* Splitting into rows rebuilds the table from rows of the split layout.
LEMMA RowSplitLays ==
  ASSUME NEW t, NEW R, NEW C, NEW G, NEW K, NEW r0, NEW i0, NEW c0, Splitting(t, R, C, G, K, r0, i0, c0)
  PROVE  \E rows : /\ splitToRows(t, <<r0, i0>>) = update(rows) /\ Lays(rows, C, {}, RowSplitGrid(G, R, C, r0, c0))
                   /\ Len(rows) = R
<1> DEFINE D == RowSplitGrid(G, R, C, r0, c0)
           g == G[r0][c0]
           info == InfoOf(t, <<r0, i0>>)
           own == [g.cell EXCEPT !.rowSpan = 1]
           low == [BlankCell EXCEPT !.colSpan = info.colSpan]
           lower == (info.row + 1)..(info.row + info.rowSpan - 1)
           place(r) == info.col - getPreviewMergedCellsNum(t, r, info.col)
           cut == [t.rows EXCEPT ![r0][i0].rowSpan = 1]
           rows == [r \in DOMAIN cut |-> IF r \in lower THEN InsertAt(cut[r], place(r), low) ELSE cut[r]]
<1>1. /\ Begins(G, R, C, r0, c0) /\ t.rows[r0][i0] = g.cell
      /\ info.row = r0 /\ info.col = c0 /\ info.rowSpan = g.cell.rowSpan /\ info.colSpan = g.cell.colSpan
  <2>1. /\ Begins(G, R, C, r0, c0) /\ t.rows[r0][i0] = G[r0][c0].cell
        /\ Tells(InfoOf(t, <<r0, i0>>), t, G, r0, i0, c0)
    BY SplitOf
  <2> QED BY <2>1 DEF Tells
<1>2. splitToRows(t, <<r0, i0>>) = update(rows)
  BY DEF splitToRows
<1>3. /\ TableOf(t, R, C, G, K) /\ \A r \in 1..R, c \in 1..C : Agrees(t, G, K, r, c)
      /\ r0 \in 1..R /\ i0 \in 1..Len(t.rows[r0]) /\ c0 = K[r0][i0]
  BY DEF Splitting, Standing
<1>4. /\ R \in Nat \ {0} /\ C \in Nat /\ t.rows \in Seq(Seq(Cell)) /\ Len(t.rows) = R /\ DOMAIN t.rows = 1..R
      /\ \A r \in 1..R : Line(t.rows[r], K[r], Starts(G, r, C), CellsOf(G, r, C))
  BY <1>3 DEF TableOf
<1>5. /\ r0 \in Int /\ c0 \in Int /\ c0 \in 1..C /\ g.cell \in Cell /\ g.cell.rowSpan \in Int /\ 1 <= g.cell.rowSpan
      /\ g.cell.colSpan \in Nat \ {0}
  <2>1. /\ r0 \in Int /\ c0 \in Int /\ g.cell \in Cell /\ g.cell.rowSpan \in Int /\ g.cell.colSpan \in Int
        /\ 1 <= g.cell.rowSpan /\ 1 <= g.cell.colSpan
    BY <1>1, BeginsAt
  <2>2. c0 \in 1..C
    BY <1>1 DEF Begins
  <2> QED BY <2>1, <2>2
<1>6. own \in Cell /\ low \in Cell /\ low = [BlankCell EXCEPT !.colSpan = g.cell.colSpan]
  <2>1. 1 \in Nat \ {0}
    OBVIOUS
  <2>2. own \in Cell
    <3> HIDE DEF g
    <3> QED BY <1>5, <2>1, WithRowSpan
  <2>3. low = [BlankCell EXCEPT !.colSpan = g.cell.colSpan]
    BY <1>1
  <2> HIDE DEF low, g
  <2>4. low \in Cell
    BY <1>5, <2>3, BlankIs, WithColSpan
  <2> QED BY <2>2, <2>3, <2>4
<1>7. /\ cut = [r \in 1..R |-> cut[r]]
      /\ \A r \in 1..R : /\ cut[r] \in Seq(Cell) /\ Len(cut[r]) = Len(t.rows[r])
                         /\ \A j \in 1..Len(t.rows[r]) :
                              cut[r][j] = IF r = r0 /\ j = i0 THEN own ELSE t.rows[r][j]
  <2>1. cut = [t.rows EXCEPT ![r0][i0] = [t.rows[r0][i0] EXCEPT !.rowSpan = 1]]
    OBVIOUS
  <2>2. cut = WithCell(t.rows, r0, i0, own)
    BY <1>1, <2>1 DEF WithCell
  <2>3. r0 \in 1..Len(t.rows)
    BY <1>3, <1>4
  <2> HIDE DEF cut, own
  <2>4. HasCell(cut, t.rows, r0, i0, own)
    BY <1>3, <1>4, <1>6, <2>2, <2>3, CellSet
  <2> QED BY <1>4, <2>4 DEF HasCell
<1>8. rows = [r \in 1..R |-> rows[r]]
  BY <1>7
<1>9. ASSUME NEW r \in 1..R
      PROVE  rows[r] = IF r0 < r /\ r < r0 + g.cell.rowSpan THEN InsertAt(cut[r], place(r), low) ELSE cut[r]
  <2>1. r \in DOMAIN cut
    BY <1>7
  <2>2. r \in lower <=> r0 < r /\ r < r0 + g.cell.rowSpan
    <3>1. lower = (r0 + 1)..(r0 + g.cell.rowSpan - 1) /\ r \in Int
      BY <1>1
    <3> HIDE DEF lower, g
    <3> QED BY <1>5, <3>1
  <2> HIDE DEF cut, lower, low, place
  <2> QED BY <2>1, <2>2
<1> HIDE DEF cut, rows, lower, own, low, D
<1>10. ASSUME NEW r \in 1..R
       PROVE  Lined(rows[r], Starts(D, r, C), CellsOf(D, r, C))
  <2> DEFINE X == Starts(G, r, C)
             Y == Starts(D, r, C)
             f == CellsOf(D, r, C)
             v == cut[r]
             at == K[r]
  <2>1. /\ ~(r0 < r /\ r < r0 + g.cell.rowSpan) => Y = X
        /\ r0 < r /\ r < r0 + g.cell.rowSpan =>
              Y = X \union {c0} /\ c0 \notin X /\ G[r][c0].col = c0 /\ D[r][c0].cell = low
        /\ \A c \in X : D[r][c].cell = IF r = r0 /\ c = c0 THEN own ELSE G[r][c].cell
    BY <1>1, <1>6, RowSplitStarts DEF own, D
  <2>2. X \in SUBSET Int /\ X \in SUBSET (1..C) /\ Line(t.rows[r], at, X, CellsOf(G, r, C)) /\ Y \in SUBSET (1..C)
    <3>1. X \in SUBSET (1..C) /\ Y \in SUBSET (1..C)
      BY DEF Starts
    <3>2. X \in SUBSET Int
      BY <3>1
    <3> QED BY <1>4, <3>1, <3>2
  <2>3. /\ Len(t.rows[r]) \in Nat
        /\ \A j \in 1..Len(t.rows[r]) : at[j] \in X /\ t.rows[r][j] = CellsOf(G, r, C)[at[j]]
        /\ \A i, j \in 1..Len(t.rows[r]) : at[i] = at[j] => i = j
    BY <2>2, LineFacts
  <2>4. \A j \in 1..Len(t.rows[r]) : at[j] \in X /\ t.rows[r][j] = G[r][at[j]].cell
    BY <2>2, <2>3 DEF CellsOf
  <2> DEFINE w == [c \in 1..C |-> D[r][c].cell]
  <2>5. ASSUME NEW j \in 1..Len(t.rows[r])
        PROVE  v[j] = w[at[j]]
    <3>1. at[j] \in 1..C /\ D[r][at[j]].cell = IF r = r0 /\ at[j] = c0 THEN own ELSE t.rows[r][j]
      BY <2>1, <2>2, <2>4
    <3>2. r = r0 => (at[j] = c0 <=> j = i0)
      BY <1>3, <2>3
    <3>3. v[j] = IF r = r0 /\ j = i0 THEN own ELSE t.rows[r][j]
      BY <1>7
    <3> HIDE DEF v, at
    <3> QED BY <3>1, <3>2, <3>3
  <2>6. f = w
    BY DEF CellsOf
  <2> HIDE DEF f, w, v, at, X, Y
  <2>7. v \in Seq(Cell) /\ Len(v) = Len(t.rows[r])
    BY <1>7 DEF v
  <2>8. Line(v, at, X, w)
    BY <2>2, <2>5, <2>7, LineSame
  <2>9. CASE ~(r0 < r /\ r < r0 + g.cell.rowSpan)
    <3>1. rows[r] = v /\ Y = X
      BY <1>9, <2>1, <2>9 DEF v
    <3> QED BY <2>6, <2>8, <3>1 DEF Lined, Y, f
  <2>10. CASE r0 < r /\ r < r0 + g.cell.rowSpan
    <3> DEFINE n == Cardinality({x \in X : x < c0})
               m == n + 1
    <3>1. n \in 0..Len(v) /\ \A i \in 1..Len(v) : i <= n <=> at[i] < c0
      BY <1>5, <2>2, <2>8, LineCount
    <3>2. n \in Nat /\ getPreviewMergedCellsNum(t, r, c0) = (c0 - 1) - n
      <4>1. G[r][c0].col = c0 /\ \A c \in 1..C : Agrees(t, G, K, r, c)
        BY <1>3, <2>1, <2>10
      <4> QED BY <1>3, <1>5, <4>1, PreviewIs DEF X
    <3> HIDE DEF n
    <3>3. place(r) = m
      <4>1. place(r) = c0 - getPreviewMergedCellsNum(t, r, c0)
        BY <1>1
      <4> HIDE DEF place
      <4> QED BY <1>5, <3>2, <4>1
    <3>4. m \in 1..(Len(v) + 1) /\ \A i \in 1..Len(v) : i < m <=> at[i] < c0
      BY <2>3, <2>7, <3>1, <3>2
    <3> HIDE DEF place, m
    <3>5. rows[r] = InsertAt(v, m, low)
      BY <1>9, <2>10, <3>3 DEF v
    <3>6. Inserted(rows[r], v, m, low)
      BY <1>6, <2>7, <3>4, <3>5, InsertAtIs
    <3>7. Y = X \union {c0} /\ c0 \notin X /\ w[c0] = low
      BY <1>5, <2>1, <2>10 DEF w
    <3>8. Gains(v, at, X, w, c0, m, low, rows[r], w)
      BY <1>5, <2>2, <2>8, <3>4, <3>6, <3>7 DEF Gains
    <3>9. Lined(rows[r], X \union {c0}, w)
      BY <3>8, LineGains
    <3> QED BY <2>6, <3>7, <3>9 DEF Y, f
  <2> QED BY <2>9, <2>10
<1>11. Laid(D, R, C, {})
  BY <1>1, RowSplits, SplitLaid DEF D
<1>12. Lays(rows, C, {}, D) /\ Len(rows) = R
  BY <1>4, <1>8, <1>10, <1>11, LaysFrom
<1> QED BY <1>2, <1>12 DEF D

(* Row u with w - 1 cells put in behind cell i.                            *)
Spliced(v, u, i, w, own, new) ==
    /\ v \in Seq(Cell) /\ Len(v) = Len(u) + w - 1
    /\ \A j \in 1..Len(v) : v[j] = IF j < i THEN u[j] ELSE IF j = i THEN own
                                   ELSE IF j < i + w THEN new ELSE u[j - w + 1]

\* The row that splitToCols makes.
LEMMA SplicedIs ==
  ASSUME NEW u \in Seq(Cell), NEW i \in 1..Len(u), NEW w \in Nat \ {0}, NEW own \in Cell, NEW new \in Cell,
         NEW more, more = [k \in 1..(w - 1) |-> new]
  PROVE  Spliced(SubSeq(u, 1, i - 1) \o <<own>> \o more \o SubSeq(u, i + 1, Len(u)), u, i, w, own, new)
<1> DEFINE n == Len(u)
           a == SubSeq(u, 1, i - 1)
           one == <<own>>
           z == SubSeq(u, i + 1, n)
           b == a \o one
           d == b \o more
           v == d \o z
<1>1. n \in Nat /\ \A j \in 1..n : u[j] \in Cell
  BY LenProperties
<1>2. a \in Seq(Cell) /\ Len(a) = i - 1 /\ \A j \in 1..(i - 1) : a[j] = u[j]
  <2>1. 1 \in Int /\ i - 1 \in Int /\ \A j \in 1..(i - 1) : u[j] \in Cell
    BY <1>1
  <2>2. /\ a \in Seq(Cell)
        /\ Len(a) = IF 1 <= i - 1 THEN (i - 1) - 1 + 1 ELSE 0
        /\ \A j \in 1..((i - 1) - 1 + 1) : a[j] = u[1 + j - 1]
    BY <2>1, SubSeqProperties
  <2> HIDE DEF a
  <2> QED BY <1>1, <2>2
<1>3. z \in Seq(Cell) /\ Len(z) = n - i /\ \A j \in 1..(n - i) : z[j] = u[i + j]
  <2>1. i + 1 \in Int /\ n \in Int /\ \A j \in (i + 1)..n : u[j] \in Cell
    BY <1>1
  <2>2. /\ z \in Seq(Cell)
        /\ Len(z) = IF i + 1 <= n THEN n - (i + 1) + 1 ELSE 0
        /\ \A j \in 1..(n - (i + 1) + 1) : z[j] = u[(i + 1) + j - 1]
    BY <2>1, SubSeqProperties
  <2>3. n - (i + 1) + 1 = n - i
    BY <1>1
  <2>4. \A j \in 1..(n - i) : (i + 1) + j - 1 = i + j
    BY <1>1
  <2>5. i \in Int /\ i <= n /\ 1 <= i
    BY <1>1
  <2> HIDE DEF z, n
  <2> QED BY <1>1, <2>2, <2>3, <2>4, <2>5
<1>4. one \in Seq(Cell) /\ Len(one) = 1 /\ one[1] = own
  OBVIOUS
<1>5. more \in Seq(Cell) /\ Len(more) = w - 1 /\ \A j \in 1..(w - 1) : more[j] = new
  <2>1. more \in [1..(w - 1) -> Cell] /\ w - 1 \in Nat
    OBVIOUS
  <2> QED BY <2>1, FcnIsSeq
<1> HIDE DEF a, one, z, n
<1>6. /\ b \in Seq(Cell) /\ Len(b) = i
      /\ \A j \in 1..i : b[j] = IF j < i THEN u[j] ELSE own
  <2>1. /\ b \in Seq(Cell) /\ Len(b) = Len(a) + Len(one)
        /\ \A j \in 1..(Len(a) + Len(one)) : b[j] = IF j <= Len(a) THEN a[j] ELSE one[j - Len(a)]
    BY <1>2, <1>4, ConcatProperties
  <2> HIDE DEF b
  <2>2. Len(b) = i
    BY <1>1, <1>2, <1>4, <2>1
  <2>3. ASSUME NEW j \in 1..i
        PROVE  b[j] = IF j < i THEN u[j] ELSE own
    <3>1. j \in Int /\ 1 <= j /\ j <= i /\ i \in Int
      BY <1>1
    <3>2. b[j] = IF j <= i - 1 THEN a[j] ELSE one[j - (i - 1)]
      BY <1>2, <1>4, <2>1, <3>1
    <3>3. j = i => j - (i - 1) = 1
      BY <3>1
    <3> QED BY <1>2, <1>4, <3>1, <3>2, <3>3
  <2> QED BY <2>1, <2>2, <2>3
<1> HIDE DEF b
<1>7. /\ d \in Seq(Cell) /\ Len(d) = i + w - 1
      /\ \A j \in 1..(i + w - 1) : d[j] = IF j < i THEN u[j] ELSE IF j = i THEN own ELSE new
  <2>1. /\ d \in Seq(Cell) /\ Len(d) = Len(b) + Len(more)
        /\ \A j \in 1..(Len(b) + Len(more)) : d[j] = IF j <= Len(b) THEN b[j] ELSE more[j - Len(b)]
    BY <1>5, <1>6, ConcatProperties
  <2> HIDE DEF d
  <2>2. Len(d) = i + w - 1
    BY <1>1, <1>5, <1>6, <2>1
  <2>3. ASSUME NEW j \in 1..(i + w - 1)
        PROVE  d[j] = IF j < i THEN u[j] ELSE IF j = i THEN own ELSE new
    <3>1. j \in Int /\ 1 <= j /\ j <= i + w - 1 /\ i \in Int /\ w \in Int
      BY <1>1
    <3>2. d[j] = IF j <= i THEN b[j] ELSE more[j - i]
      BY <1>5, <1>6, <2>1, <3>1
    <3>3. j > i => j - i \in 1..(w - 1)
      BY <3>1
    <3> QED BY <1>5, <1>6, <3>1, <3>2, <3>3
  <2> QED BY <2>1, <2>2, <2>3
<1> HIDE DEF d
<1>8. /\ v \in Seq(Cell) /\ Len(v) = n + w - 1
      /\ \A j \in 1..(n + w - 1) : v[j] = IF j <= i + w - 1 THEN d[j] ELSE z[j - (i + w - 1)]
  <2>1. /\ v \in Seq(Cell) /\ Len(v) = Len(d) + Len(z)
        /\ \A j \in 1..(Len(d) + Len(z)) : v[j] = IF j <= Len(d) THEN d[j] ELSE z[j - Len(d)]
    BY <1>3, <1>7, ConcatProperties
  <2> HIDE DEF v
  <2>2. Len(d) + Len(z) = n + w - 1 /\ Len(d) = i + w - 1
    BY <1>1, <1>3, <1>7
  <2> QED BY <2>1, <2>2
<1>9. i \in Int /\ i <= n /\ 1 <= i
  BY <1>1 DEF n
<1>10. ASSUME NEW j \in 1..Len(v)
       PROVE  v[j] = IF j < i THEN u[j] ELSE IF j = i THEN own ELSE IF j < i + w THEN new ELSE u[j - w + 1]
  <2>1. j \in Int /\ 1 <= j /\ j <= n + w - 1 /\ w \in Int /\ 1 <= w /\ n \in Int /\ j \in 1..(n + w - 1)
    BY <1>1, <1>8
  <2> HIDE DEF v
  <2>2. v[j] = IF j <= i + w - 1 THEN d[j] ELSE z[j - (i + w - 1)]
    BY <1>8, <2>1
  <2>3. CASE j <= i + w - 1
    <3>1. j \in 1..(i + w - 1) /\ j < i + w
      BY <1>9, <2>1, <2>3
    <3>2. v[j] = IF j < i THEN u[j] ELSE IF j = i THEN own ELSE new
      BY <1>7, <2>2, <2>3, <3>1
    <3> QED BY <3>1, <3>2
  <2>4. CASE ~(j <= i + w - 1)
    <3> DEFINE k == j - (i + w - 1)
    <3>1. k \in 1..(n - i) /\ i + k = j - w + 1 /\ ~(j < i) /\ j # i /\ ~(j < i + w)
      BY <1>9, <2>1, <2>4
    <3>2. v[j] = z[k]
      BY <2>2, <2>4
    <3> HIDE DEF k
    <3>3. z[k] = u[i + k]
      BY <1>3, <3>1
    <3> QED BY <3>1, <3>2, <3>3
  <2> QED BY <2>3, <2>4
<1>11. Len(v) = Len(u) + w - 1
  BY <1>8 DEF n
<1> HIDE DEF v
<1>12. Spliced(v, u, i, w, own, new)
  BY <1>8, <1>10, <1>11 DEF Spliced
<1> QED BY <1>12 DEF v, d, b, a, one, z, n

(* Cell i of a row, w columns wide, becomes w cells.                       *)
Widens(row, at, X, f, i, w, own, new, v, g) ==
    /\ X \in SUBSET Int /\ Line(row, at, X, f) /\ i \in 1..Len(row) /\ w \in Nat \ {0}
    /\ Spliced(v, row, i, w, own, new)
    /\ \A x \in X : x <= at[i] \/ at[i] + w <= x
    /\ g[at[i]] = own
    /\ \A x \in (at[i] + 1)..(at[i] + w - 1) : g[x] = new
    /\ \A x \in X : x # at[i] => g[x] = f[x]

\* The cells of such a row.
LEMMA LineWidens ==
  ASSUME NEW row, NEW at, NEW X, NEW f, NEW i, NEW w, NEW own, NEW new, NEW v, NEW g,
         Widens(row, at, X, f, i, w, own, new, v, g)
  PROVE  Lined(v, X \union (at[i]..(at[i] + w - 1)), g)
<1> DEFINE n == Len(row)
           c0 == at[i]
           Y == X \union (c0..(c0 + w - 1))
           b == [j \in 1..Len(v) |-> IF j < i THEN at[j] ELSE IF j < i + w THEN c0 + (j - i) ELSE at[j - w + 1]]
<1>1. /\ X \in SUBSET Int /\ Line(row, at, X, f) /\ i \in 1..n /\ w \in Nat \ {0}
      /\ v \in Seq(Cell) /\ Len(v) = n + w - 1
      /\ \A j \in 1..Len(v) : v[j] = IF j < i THEN row[j] ELSE IF j = i THEN own
                                     ELSE IF j < i + w THEN new ELSE row[j - w + 1]
      /\ \A x \in X : x <= c0 \/ c0 + w <= x
      /\ g[c0] = own
      /\ \A x \in (c0 + 1)..(c0 + w - 1) : g[x] = new
      /\ \A x \in X : x # c0 => g[x] = f[x]
  BY DEF Widens, Spliced
<1>2. /\ n \in Nat
      /\ \A j \in 1..n : at[j] \in X /\ at[j] \in Int /\ row[j] = f[at[j]]
      /\ \A j, k \in 1..n : (at[j] = at[k] => j = k) /\ (at[j] < at[k] <=> j < k)
  BY <1>1, LineFacts
<1>3. \A x \in X : \E j \in 1..n : at[j] = x
  BY <1>1 DEF Line
<1> HIDE DEF n, c0, b
<1>4. /\ c0 \in X /\ c0 \in Int /\ i \in Int /\ 1 <= i /\ i <= n /\ w \in Int /\ 1 <= w /\ n \in Int
      /\ Len(v) = n + w - 1
  BY <1>1, <1>2 DEF c0
<1>5. \A j \in 1..n : (j < i => at[j] < c0) /\ (j > i => c0 + w <= at[j]) /\ (at[j] < c0 => j < i) /\ (at[j] > c0 => j > i)
  <2>1. ASSUME NEW j \in 1..n
        PROVE  (j < i => at[j] < c0) /\ (j > i => c0 + w <= at[j]) /\ (at[j] < c0 => j < i) /\ (at[j] > c0 => j > i)
    <3>1. at[j] \in X /\ at[j] \in Int /\ j \in Int
      BY <1>2, <1>4
    <3>2. (at[j] < c0 <=> j < i) /\ (c0 < at[j] <=> i < j)
      BY <1>1, <1>2 DEF c0
    <3>3. at[j] <= c0 \/ c0 + w <= at[j]
      BY <1>1, <3>1
    <3> QED BY <1>4, <3>1, <3>2, <3>3
  <2> QED BY <2>1
<1>6. ASSUME NEW j \in 1..Len(v)
      PROVE  /\ j \in Int /\ b[j] \in Int /\ b[j] \in Y /\ v[j] = g[b[j]]
             /\ j < i => j \in 1..n /\ b[j] = at[j] /\ b[j] < c0
             /\ ~(j < i) /\ j < i + w => b[j] = c0 + (j - i)
             /\ ~(j < i + w) => j - w + 1 \in 1..n /\ b[j] = at[j - w + 1] /\ c0 + w <= b[j]
  <2>1. /\ j \in Int /\ 1 <= j /\ j <= n + w - 1
        /\ b[j] = IF j < i THEN at[j] ELSE IF j < i + w THEN c0 + (j - i) ELSE at[j - w + 1]
        /\ v[j] = IF j < i THEN row[j] ELSE IF j = i THEN own ELSE IF j < i + w THEN new ELSE row[j - w + 1]
    <3>1. j \in Int /\ 1 <= j /\ j <= n + w - 1
      BY <1>4
    <3> QED BY <1>1, <3>1 DEF b
  <2>2. CASE j < i
    <3>1. j \in 1..n /\ b[j] = at[j] /\ v[j] = row[j] /\ j < i + w
      BY <1>4, <2>1, <2>2
    <3>2. at[j] < c0 /\ at[j] \in X /\ at[j] \in Int /\ row[j] = f[at[j]]
      BY <1>2, <1>5, <2>2, <3>1
    <3>3. at[j] # c0 /\ g[at[j]] = f[at[j]]
      BY <1>1, <1>4, <3>2
    <3> QED BY <1>4, <2>1, <2>2, <3>1, <3>2, <3>3
  <2>3. CASE ~(j < i) /\ j < i + w
    <3>1. /\ b[j] = c0 + (j - i) /\ b[j] \in c0..(c0 + w - 1) /\ b[j] \in Int
          /\ j = i => b[j] = c0
          /\ j # i => b[j] \in (c0 + 1)..(c0 + w - 1)
      BY <1>4, <2>1, <2>3
    <3>2. v[j] = IF j = i THEN own ELSE new
      BY <2>1, <2>3
    <3>3. v[j] = g[b[j]]
      BY <1>1, <3>1, <3>2
    <3> QED BY <1>4, <2>1, <2>3, <3>1, <3>3
  <2>4. CASE ~(j < i + w)
    <3> DEFINE k == j - w + 1
    <3>1. k \in 1..n /\ k > i /\ ~(j < i) /\ j # i
      BY <1>4, <2>1, <2>4
    <3>2. b[j] = at[k] /\ v[j] = row[k]
      BY <2>1, <2>4, <3>1
    <3> HIDE DEF k
    <3>3. c0 + w <= at[k] /\ at[k] \in X /\ at[k] \in Int /\ row[k] = f[at[k]]
      BY <1>2, <1>5, <3>1
    <3>4. at[k] # c0 /\ g[at[k]] = f[at[k]]
      BY <1>1, <1>4, <3>3
    <3> QED BY <2>1, <2>4, <3>1, <3>2, <3>3, <3>4 DEF k
  <2> QED BY <2>2, <2>3, <2>4
<1>7. b = [j \in 1..Len(v) |-> b[j]]
  BY DEF b
<1>8. b \in [1..Len(v) -> Y]
  <2> HIDE DEF Y
  <2> QED BY <1>6, <1>7
<1>9. Rising(b)
  <2>1. ASSUME NEW j \in 1..Len(v), NEW k \in 1..Len(v), j < k
        PROVE  b[j] < b[k]
    <3>1. j \in Int /\ k \in Int /\ b[j] \in Int /\ b[k] \in Int
      BY <1>6
    <3>2. CASE k < i
      <4>1. j < i /\ j \in 1..n /\ k \in 1..n /\ b[j] = at[j] /\ b[k] = at[k]
        BY <1>4, <1>6, <2>1, <3>1, <3>2
      <4> QED BY <1>2, <2>1, <4>1
    <3>3. CASE ~(k < i) /\ k < i + w
      <4>1. b[k] = c0 + (k - i)
        BY <1>6, <3>3
      <4>2. CASE j < i
        <5>1. b[j] < c0
          BY <1>6, <4>2
        <5> QED BY <1>4, <3>1, <3>3, <4>1, <5>1
      <4>3. CASE ~(j < i)
        <5>1. b[j] = c0 + (j - i)
          BY <1>4, <1>6, <2>1, <3>1, <3>3, <4>3
        <5> QED BY <1>4, <2>1, <3>1, <4>1, <5>1
      <4> QED BY <4>2, <4>3
    <3>4. CASE ~(k < i + w)
      <4>1. k - w + 1 \in 1..n /\ b[k] = at[k - w + 1] /\ c0 + w <= b[k]
        BY <1>6, <3>4
      <4>2. CASE j < i
        <5>1. b[j] < c0
          BY <1>6, <4>2
        <5> QED BY <1>4, <3>1, <4>1, <5>1
      <4>3. CASE ~(j < i) /\ j < i + w
        <5>1. b[j] = c0 + (j - i)
          BY <1>6, <4>3
        <5> QED BY <1>4, <3>1, <4>1, <4>3, <5>1
      <4>4. CASE ~(j < i + w)
        <5>1. j - w + 1 \in 1..n /\ b[j] = at[j - w + 1]
          BY <1>6, <4>4
        <5>2. j - w + 1 < k - w + 1
          BY <1>4, <2>1, <3>1
        <5> QED BY <1>2, <4>1, <5>1, <5>2
      <4>5. j < i => j < i + w
        BY <1>4, <3>1
      <4> QED BY <4>2, <4>3, <4>4
    <3> QED BY <3>2, <3>3, <3>4
  <2> QED BY <1>8, <2>1 DEF Rising
<1>10. ASSUME NEW y \in Y
       PROVE  \E j \in 1..Len(v) : b[j] = y
  <2>1. CASE y \in c0..(c0 + w - 1)
    <3> DEFINE j == i + (y - c0)
    <3>1. j \in 1..Len(v) /\ ~(j < i) /\ j < i + w /\ c0 + (j - i) = y
      BY <1>4, <2>1
    <3> HIDE DEF j
    <3>2. b[j] = y
      BY <1>6, <3>1
    <3> QED BY <3>1, <3>2
  <2>2. CASE y \in X /\ y \notin c0..(c0 + w - 1)
    <3>1. PICK k \in 1..n : at[k] = y
      BY <1>3, <2>2
    <3>2. y \in Int /\ k \in Int /\ (y < c0 \/ c0 < y)
      BY <1>1, <1>4, <2>2
    <3>3. CASE y < c0
      <4>1. k < i /\ k \in 1..Len(v)
        BY <1>4, <1>5, <3>1, <3>2, <3>3
      <4>2. b[k] = at[k]
        BY <1>6, <4>1
      <4> QED BY <3>1, <4>1, <4>2
    <3>4. CASE c0 < y
      <4> DEFINE j == k + w - 1
      <4>1. k > i /\ k <= n
        BY <1>4, <1>5, <3>1, <3>2, <3>4
      <4>2. j \in 1..Len(v) /\ ~(j < i + w) /\ j - w + 1 = k
        BY <1>4, <3>2, <4>1
      <4> HIDE DEF j
      <4>3. b[j] = at[k]
        BY <1>6, <4>2
      <4> QED BY <3>1, <4>2, <4>3
    <3> QED BY <3>2, <3>3, <3>4
  <2> QED BY <2>1, <2>2
<1>11. Line(v, b, Y, g)
  BY <1>1, <1>6, <1>8, <1>9, <1>10 DEF Line
<1> QED BY <1>11 DEF Lined, c0

(* The layout when a cell is split into columns.                           *)
ColSplitGrid(G, R, C, r0, c0) ==
    LET g == G[r0][c0]
    IN  [r \in 1..R |-> [c \in 1..C |->
            IF Within(g, r, c)
            THEN [row |-> r0, col |-> c, cell |-> IF c = c0 THEN [g.cell EXCEPT !.colSpan = 1]
                                                            ELSE [BlankCell EXCEPT !.rowSpan = g.cell.rowSpan]]
            ELSE G[r][c]]]

\* A column of the split cell's area is one of its parts.
LEMMA ColSplits ==
  ASSUME NEW G, NEW R, NEW C, NEW r0, NEW c0, Begins(G, R, C, r0, c0), NEW D, D = ColSplitGrid(G, R, C, r0, c0)
  PROVE  Splits(G, R, C, r0, c0, D)
<1> DEFINE g == G[r0][c0]
           own == [g.cell EXCEPT !.colSpan = 1]
           new == [BlankCell EXCEPT !.rowSpan = g.cell.rowSpan]
           part(c) == [row |-> r0, col |-> c, cell |-> IF c = c0 THEN own ELSE new]
<1>1. /\ R \in Int /\ C \in Int /\ r0 \in Int /\ c0 \in Int /\ 1 <= r0 /\ 1 <= c0 /\ g.row = r0 /\ g.col = c0
      /\ g.cell \in Cell /\ g.cell.rowSpan \in Int /\ g.cell.colSpan \in Int
      /\ 1 <= g.cell.rowSpan /\ 1 <= g.cell.colSpan
      /\ r0 + g.cell.rowSpan <= R + 1 /\ c0 + g.cell.colSpan <= C + 1
      /\ \A x, y : Within(g, x, y) => x \in 1..R /\ y \in 1..C /\ G[x][y] = g
  BY BeginsAt
<1>2. \A r \in 1..R, c \in 1..C : D[r][c] = IF Within(g, r, c) THEN part(c) ELSE G[r][c]
  BY DEF ColSplitGrid
<1> HIDE DEF g
<1>3. own \in Cell /\ own.colSpan = 1 /\ own.rowSpan = g.cell.rowSpan
  <2>1. 1 \in Nat \ {0}
    OBVIOUS
  <2> QED BY <1>1, <2>1, WithColSpan
<1>4. new \in Cell /\ new.colSpan = 1 /\ new.rowSpan = g.cell.rowSpan
  <2>1. g.cell.rowSpan \in Nat \ {0}
    BY <1>1
  <2> QED BY <2>1, BlankIs, WithRowSpan
<1> HIDE DEF own, new
<1>5. ASSUME NEW r \in 1..R, NEW c \in 1..C, Within(g, r, c)
      PROVE  PartBox(g, D, r, c)
  <2> DEFINE d == part(c)
  <2>1. /\ d.row = r0 /\ d.col = c /\ d.cell = (IF c = c0 THEN own ELSE new)
        /\ d = [row |-> d.row, col |-> d.col, cell |-> d.cell]
    OBVIOUS
  <2>2. D[r][c] = d
    BY <1>2, <1>5
  <2> HIDE DEF d
  <2>3. d.cell \in Cell /\ d.cell.colSpan = 1 /\ d.cell.rowSpan = g.cell.rowSpan
    BY <1>3, <1>4, <2>1
  <2>4. r \in Int /\ c \in Int /\ r0 <= r /\ r < r0 + g.cell.rowSpan /\ c0 <= c /\ c < c0 + g.cell.colSpan
    BY <1>1, <1>5 DEF Within
  <2>5. ASSUME NEW x, NEW y, Within(d, x, y)
        PROVE  D[x][y] = d
    <3>1. /\ x \in Int /\ y \in Int /\ r0 <= x /\ x < r0 + g.cell.rowSpan /\ c <= y /\ y < c + 1
      BY <2>1, <2>3, <2>5 DEF Within
    <3>2. y = c
      BY <2>4, <3>1
    <3>3. Within(g, x, y)
      BY <1>1, <2>4, <3>1, <3>2 DEF Within
    <3>4. x \in 1..R /\ y \in 1..C
      BY <1>1, <3>3
    <3>5. D[x][y] = part(y)
      BY <1>2, <3>3, <3>4
    <3> QED BY <3>2, <3>5 DEF d
  <2> QED BY <1>1, <2>1, <2>2, <2>3, <2>4, <2>5 DEF PartBox
<1>6. \A r \in 1..R, c \in 1..C : ~Within(g, r, c) => D[r][c] = G[r][c]
  BY <1>2
<1> QED BY <1>5, <1>6 DEF Splits, Begins, g

\* The cells that begin in a row then: the cell's row has more of them.
LEMMA ColSplitStarts ==
  ASSUME NEW G, NEW R, NEW C, NEW r0, NEW c0, Begins(G, R, C, r0, c0), NEW D, D = ColSplitGrid(G, R, C, r0, c0),
         NEW g, g = G[r0][c0], NEW r \in 1..R
  PROVE  /\ r # r0 => Starts(D, r, C) = Starts(G, r, C)
         /\ r = r0 =>
              /\ Starts(D, r, C) = Starts(G, r, C) \union (c0..(c0 + g.cell.colSpan - 1))
              /\ \A x \in Starts(G, r, C) : x <= c0 \/ c0 + g.cell.colSpan <= x
              /\ \A x \in (c0 + 1)..(c0 + g.cell.colSpan - 1) :
                    D[r][x].cell = [BlankCell EXCEPT !.rowSpan = g.cell.rowSpan]
         /\ \A c \in Starts(G, r, C) :
              D[r][c].cell = IF r = r0 /\ c = c0 THEN [g.cell EXCEPT !.colSpan = 1] ELSE G[r][c].cell
<1> DEFINE own == [g.cell EXCEPT !.colSpan = 1]
           new == [BlankCell EXCEPT !.rowSpan = g.cell.rowSpan]
           part(c) == [row |-> r0, col |-> c, cell |-> IF c = c0 THEN own ELSE new]
           w == g.cell.colSpan
<1>1. /\ R \in Int /\ C \in Int /\ r0 \in Int /\ c0 \in Int /\ 1 <= r0 /\ 1 <= c0 /\ g.row = r0 /\ g.col = c0
      /\ g.cell.rowSpan \in Int /\ w \in Int /\ 1 <= g.cell.rowSpan /\ 1 <= w
      /\ \A x, y : Within(g, x, y) => x \in 1..R /\ y \in 1..C /\ G[x][y] = g
  BY BeginsAt
<1>2. \A c \in 1..C : D[r][c] = IF Within(g, r, c) THEN part(c) ELSE G[r][c]
  BY DEF ColSplitGrid
<1>3. \A c : part(c).row = r0 /\ part(c).col = c /\ part(c).cell = IF c = c0 THEN own ELSE new
  OBVIOUS
<1>4. c0 \in 1..C /\ r \in Int
  BY DEF Begins
<1> HIDE DEF own, new, part, w
<1>5. ASSUME NEW c \in 1..C, Within(g, r, c)
      PROVE  /\ c \in Starts(G, r, C) <=> r = r0 /\ c = c0
             /\ c \in Starts(D, r, C) <=> r = r0
             /\ c0 <= c /\ c < c0 + w
  <2>1. G[r][c] = g /\ D[r][c] = part(c)
    BY <1>1, <1>2, <1>5
  <2>2. c0 <= c /\ c < c0 + w
    BY <1>1, <1>5 DEF Within, w
  <2>3. c \in Starts(G, r, C) <=> g.row = r /\ g.col = c
    BY <2>1 DEF Starts
  <2>4. c \in Starts(D, r, C) <=> part(c).row = r /\ part(c).col = c
    BY <2>1 DEF Starts
  <2> QED BY <1>1, <1>3, <2>2, <2>3, <2>4
<1>6. ASSUME NEW c \in 1..C, ~Within(g, r, c)
      PROVE  (c \in Starts(D, r, C) <=> c \in Starts(G, r, C)) /\ D[r][c] = G[r][c]
  BY <1>2, <1>6 DEF Starts
<1>7. ASSUME r = r0, NEW c \in c0..(c0 + w - 1)
      PROVE  c \in 1..C /\ Within(g, r, c)
  <2>1. Within(g, r, c)
    BY <1>1, <1>4, <1>7 DEF Within, w
  <2> QED BY <1>1, <2>1
<1>8. Starts(D, r, C) \in SUBSET (1..C) /\ Starts(G, r, C) \in SUBSET (1..C)
  BY DEF Starts
<1>9. ASSUME r # r0
      PROVE  Starts(D, r, C) = Starts(G, r, C)
  <2>1. ASSUME NEW c \in 1..C
        PROVE  c \in Starts(D, r, C) <=> c \in Starts(G, r, C)
    BY <1>5, <1>6, <1>9
  <2> QED BY <1>8, <2>1
<1>10. ASSUME r = r0
       PROVE  /\ Starts(D, r, C) = Starts(G, r, C) \union (c0..(c0 + w - 1))
              /\ \A x \in Starts(G, r, C) : x <= c0 \/ c0 + w <= x
              /\ \A x \in (c0 + 1)..(c0 + w - 1) : D[r][x].cell = new
  <2>1. ASSUME NEW c
        PROVE  c \in Starts(D, r, C) <=> c \in Starts(G, r, C) \/ c \in c0..(c0 + w - 1)
    <3>1. CASE c \in c0..(c0 + w - 1)
      <4>1. c \in 1..C /\ Within(g, r, c)
        BY <1>7, <1>10, <3>1
      <4> QED BY <1>5, <1>10, <3>1, <4>1
    <3>2. CASE c \in 1..C /\ c \notin c0..(c0 + w - 1)
      <4>1. ~Within(g, r, c)
        BY <1>1, <1>4, <1>5, <3>2
      <4> QED BY <1>6, <3>2, <4>1
    <3>3. CASE c \notin 1..C /\ c \notin c0..(c0 + w - 1)
      BY <1>8, <3>3
    <3> QED BY <3>1, <3>2, <3>3
  <2>2. ASSUME NEW x \in Starts(G, r, C)
        PROVE  x <= c0 \/ c0 + w <= x
    <3>1. x \in 1..C /\ x \in Int
      BY <1>8
    <3>2. CASE x \in c0..(c0 + w - 1)
      <4>1. x = c0
        BY <1>5, <1>7, <1>10, <3>1, <3>2
      <4> QED BY <1>1, <4>1
    <3>3. CASE x \notin c0..(c0 + w - 1)
      BY <1>1, <3>1, <3>3
    <3> QED BY <3>2, <3>3
  <2>3. ASSUME NEW x \in (c0 + 1)..(c0 + w - 1)
        PROVE  D[r][x].cell = new
    <3>1. x \in c0..(c0 + w - 1) /\ x # c0
      BY <1>1
    <3>2. x \in 1..C /\ Within(g, r, x)
      BY <1>7, <1>10, <3>1
    <3>3. D[r][x] = part(x)
      BY <1>2, <3>2
    <3> QED BY <1>3, <3>1, <3>3
  <2> QED BY <2>1, <2>2, <2>3
<1>11. ASSUME NEW c \in Starts(G, r, C)
       PROVE  D[r][c].cell = IF r = r0 /\ c = c0 THEN own ELSE G[r][c].cell
  <2>1. c \in 1..C
    BY <1>8
  <2>2. CASE Within(g, r, c)
    <3>1. r = r0 /\ c = c0 /\ D[r][c] = part(c)
      BY <1>2, <1>5, <2>1, <2>2
    <3> QED BY <1>3, <3>1
  <2>3. CASE ~Within(g, r, c)
    <3>1. ~(r = r0 /\ c = c0)
      BY <1>1, <1>7, <2>3
    <3> QED BY <1>6, <2>1, <2>3, <3>1
  <2> QED BY <2>2, <2>3
<1> QED BY <1>9, <1>10, <1>11 DEF own, new, w

\* Splitting into columns rebuilds the table from rows of the split layout.
LEMMA ColSplitLays ==
  ASSUME NEW t, NEW R, NEW C, NEW G, NEW K, NEW r0, NEW i0, NEW c0, Splitting(t, R, C, G, K, r0, i0, c0)
  PROVE  \E rows : /\ splitToCols(t, <<r0, i0>>) = update(rows) /\ Lays(rows, C, {}, ColSplitGrid(G, R, C, r0, c0))
                   /\ Len(rows) = R
<1> DEFINE D == ColSplitGrid(G, R, C, r0, c0)
           g == G[r0][c0]
           info == InfoOf(t, <<r0, i0>>)
           own == [g.cell EXCEPT !.colSpan = 1]
           new == [BlankCell EXCEPT !.rowSpan = g.cell.rowSpan]
           w == g.cell.colSpan
           more == [k \in 1..(info.colSpan - 1) |-> [BlankCell EXCEPT !.rowSpan = info.rowSpan]]
           row == t.rows[r0]
           wide == SubSeq(row, 1, i0 - 1) \o <<[row[i0] EXCEPT !.colSpan = 1]>> \o more \o SubSeq(row, i0 + 1, Len(row))
           rows == [t.rows EXCEPT ![r0] = wide]
<1>1. /\ Begins(G, R, C, r0, c0) /\ t.rows[r0][i0] = g.cell
      /\ info.row = r0 /\ info.col = c0 /\ info.rowSpan = g.cell.rowSpan /\ info.colSpan = g.cell.colSpan
  <2>1. /\ Begins(G, R, C, r0, c0) /\ t.rows[r0][i0] = G[r0][c0].cell
        /\ Tells(InfoOf(t, <<r0, i0>>), t, G, r0, i0, c0)
    BY SplitOf
  <2> QED BY <2>1 DEF Tells
<1>2. splitToCols(t, <<r0, i0>>) = update(rows)
  BY DEF splitToCols
<1>3. TableOf(t, R, C, G, K) /\ r0 \in 1..R /\ i0 \in 1..Len(row) /\ c0 = K[r0][i0]
  BY DEF Splitting, Standing
<1>4. /\ R \in Nat \ {0} /\ C \in Nat /\ t.rows \in Seq(Seq(Cell)) /\ Len(t.rows) = R /\ DOMAIN t.rows = 1..R
      /\ \A r \in 1..R : Line(t.rows[r], K[r], Starts(G, r, C), CellsOf(G, r, C))
  BY <1>3 DEF TableOf
<1>5. /\ r0 \in Int /\ c0 \in Int /\ c0 \in 1..C /\ g.cell \in Cell /\ w \in Nat \ {0} /\ g.cell.rowSpan \in Nat \ {0}
  <2>1. /\ r0 \in Int /\ c0 \in Int /\ g.cell \in Cell /\ g.cell.rowSpan \in Int /\ w \in Int
        /\ 1 <= g.cell.rowSpan /\ 1 <= w
    BY <1>1, BeginsAt
  <2>2. c0 \in 1..C
    BY <1>1 DEF Begins
  <2> QED BY <2>1, <2>2
<1>6. own \in Cell /\ new \in Cell
  <2>1. 1 \in Nat \ {0}
    OBVIOUS
  <2> HIDE DEF g
  <2>2. own \in Cell
    BY <1>5, <2>1, WithColSpan
  <2>3. new \in Cell
    BY <1>5, BlankIs, WithRowSpan
  <2> QED BY <2>2, <2>3
<1>7. wide = SubSeq(row, 1, i0 - 1) \o <<own>> \o more \o SubSeq(row, i0 + 1, Len(row)) /\ more = [k \in 1..(w - 1) |-> new]
  BY <1>1
<1>8. row \in Seq(Cell) /\ \A r \in 1..R : t.rows[r] \in Seq(Cell)
  BY <1>3, <1>4, RowsTyped
<1>9. rows = [r \in 1..R |-> rows[r]] /\ rows[r0] = wide /\ \A r \in 1..R : r # r0 => rows[r] = t.rows[r]
  BY <1>3, <1>4
<1> HIDE DEF own, new, more, wide, rows, D, row, w
<1>10. Spliced(wide, row, i0, w, own, new)
  BY <1>3, <1>5, <1>6, <1>7, <1>8, SplicedIs
<1>11. ASSUME NEW r \in 1..R
       PROVE  Lined(rows[r], Starts(D, r, C), CellsOf(D, r, C))
  <2> DEFINE X == Starts(G, r, C)
             Y == Starts(D, r, C)
             f == CellsOf(D, r, C)
             h == CellsOf(G, r, C)
             at == K[r]
  <2>1. /\ r # r0 => Y = X
        /\ r = r0 =>
              /\ Y = X \union (c0..(c0 + w - 1))
              /\ \A x \in X : x <= c0 \/ c0 + w <= x
              /\ \A x \in (c0 + 1)..(c0 + w - 1) : D[r][x].cell = new
        /\ \A c \in X : D[r][c].cell = IF r = r0 /\ c = c0 THEN own ELSE G[r][c].cell
    BY <1>1, ColSplitStarts DEF own, new, D, w
  <2>2. X \in SUBSET Int /\ X \in SUBSET (1..C) /\ Line(t.rows[r], at, X, h) /\ Y \in SUBSET (1..C)
    <3>1. X \in SUBSET (1..C) /\ Y \in SUBSET (1..C)
      BY DEF Starts
    <3>2. X \in SUBSET Int
      BY <3>1
    <3> QED BY <1>4, <3>1, <3>2
  <2>3. /\ \A c \in X : h[c] = G[r][c].cell /\ f[c] = D[r][c].cell
        /\ \A c \in Y : f[c] = D[r][c].cell
    BY <2>2 DEF CellsOf
  <2>4. \A j \in 1..Len(t.rows[r]) : at[j] \in X /\ t.rows[r][j] = h[at[j]]
    BY <2>2, LineFacts
  <2> HIDE DEF f, h, at, X, Y
  <2>5. CASE r # r0
    <3>1. rows[r] = t.rows[r] /\ Y = X
      BY <1>9, <2>1, <2>5
    <3>2. \A j \in 1..Len(t.rows[r]) : t.rows[r][j] = f[at[j]]
      BY <2>1, <2>3, <2>4, <2>5
    <3>3. Line(t.rows[r], at, X, f)
      BY <1>8, <2>2, <3>2, LineSame
    <3> QED BY <3>1, <3>3 DEF Lined, Y, f
  <2>6. CASE r = r0
    <3>1. at[i0] = c0 /\ c0 \in X /\ row = t.rows[r]
      BY <1>3, <2>4, <2>6 DEF at, row
    <3>2. f[c0] = own /\ \A x \in X : x # c0 => f[x] = h[x]
      BY <2>1, <2>3, <2>6, <3>1
    <3>3. \A x \in (c0 + 1)..(c0 + w - 1) : f[x] = new
      <4>1. \A x \in (c0 + 1)..(c0 + w - 1) : x \in Y
        BY <1>5, <2>1, <2>6
      <4> QED BY <2>1, <2>3, <2>6, <4>1
    <3>4. Widens(row, at, X, h, i0, w, own, new, wide, f)
      BY <1>3, <1>5, <1>10, <2>1, <2>2, <2>6, <3>1, <3>2, <3>3 DEF Widens
    <3>5. Lined(wide, X \union (at[i0]..(at[i0] + w - 1)), f)
      BY <3>4, LineWidens
    <3> QED BY <1>9, <2>1, <2>6, <3>1, <3>5 DEF Y, f
  <2> QED BY <2>5, <2>6
<1>12. Laid(D, R, C, {})
  BY <1>1, ColSplits, SplitLaid DEF D
<1>13. Lays(rows, C, {}, D) /\ Len(rows) = R
  BY <1>4, <1>9, <1>11, <1>12, LaysFrom
<1> QED BY <1>2, <1>13 DEF D

(* What the index says of a position, and that it says the same of two     *)
(* tables, where the content is the same too.                              *)
Shows(u, r, c, row, col, rowSpan, colSpan) ==
    LET j == u.index[<<r, c>>]
    IN  j.row = row /\ j.col = col /\ j.rowSpan = rowSpan /\ j.colSpan = colSpan

SameAt(u, t, r, c) ==
    /\ Shows(u, r, c, t.index[<<r, c>>].row, t.index[<<r, c>>].col, t.index[<<r, c>>].rowSpan, t.index[<<r, c>>].colSpan)
    /\ TextAt(u, <<r, c>>) = TextAt(t, <<r, c>>)

Sized(u, R, C) == Tiled(u) /\ u.state = "ready" /\ u.rowsNum = R /\ u.colsNum = C

InBlock(r, c, r0, c0, h, w) == r0 <= r /\ r < r0 + h /\ c0 <= c /\ c < c0 + w

(* The block is split into rows, the first k of them into cells.           *)
PartSplit(u, t, R, C, r0, c0, h, w, k) ==
    /\ Sized(u, R, C)
    /\ \A r \in 1..R, c \in 1..C :
          /\ InBlock(r, c, r0, c0, h, w) /\ r < r0 + k => Shows(u, r, c, r, c, 1, 1)
          /\ InBlock(r, c, r0, c0, h, w) /\ r >= r0 + k => Shows(u, r, c, r, c0, 1, w)
          /\ ~InBlock(r, c, r0, c0, h, w) => SameAt(u, t, r, c)

\* What a rebuilt table shows where the layout is the old one.
LEMMA SameWhere ==
  ASSUME NEW t, NEW R, NEW C, NEW G, NEW K, Standing(t, R, C, G, K),
         NEW u, NEW rows, NEW D, LooksLike(u, rows, C, D), Len(rows) = R,
         NEW r \in 1..R, NEW c \in 1..C, D[r][c] = G[r][c]
  PROVE  SameAt(u, t, r, c)
<1>1. Agrees(t, G, K, r, c)
  BY DEF Standing
<1>2. TextAt(t, <<r, c>>) = G[r][c].cell.text /\ TextAt(u, <<r, c>>) = D[r][c].cell.text
  BY <1>1, TextIn, TextLike
<1>3. Shows(u, r, c, G[r][c].row, G[r][c].col, G[r][c].cell.rowSpan, G[r][c].cell.colSpan)
  BY DEF LooksLike, Shows
<1>4. /\ t.index[<<r, c>>].row = G[r][c].row /\ t.index[<<r, c>>].col = G[r][c].col
      /\ t.index[<<r, c>>].rowSpan = G[r][c].cell.rowSpan /\ t.index[<<r, c>>].colSpan = G[r][c].cell.colSpan
  BY <1>1 DEF Agrees
<1> QED BY <1>2, <1>3, <1>4 DEF SameAt

\* What it shows of a position in general.
LEMMA ShownBy ==
  ASSUME NEW u, NEW rows, NEW C, NEW D, LooksLike(u, rows, C, D), NEW r \in 1..Len(rows), NEW c \in 1..C
  PROVE  Shows(u, r, c, D[r][c].row, D[r][c].col, D[r][c].cell.rowSpan, D[r][c].cell.colSpan)
BY DEF LooksLike, Shows

\* The area of the cell as a block.
LEMMA BlockIs ==
  ASSUME NEW G, NEW R, NEW C, NEW r0, NEW c0, Begins(G, R, C, r0, c0), NEW r \in 1..R, NEW c \in 1..C
  PROVE  Within(G[r0][c0], r, c) <=> InBlock(r, c, r0, c0, G[r0][c0].cell.rowSpan, G[r0][c0].cell.colSpan)
<1>1. G[r0][c0].row = r0 /\ G[r0][c0].col = c0 /\ r \in Int /\ c \in Int
  BY DEF Begins
<1> QED BY <1>1 DEF Within, InBlock

\* A cell split into rows.
LEMMA SplitRowsSeen ==
  ASSUME NEW t, NEW R, NEW C, NEW G, NEW K, NEW r0, NEW i0, NEW c0, Splitting(t, R, C, G, K, r0, i0, c0),
         NEW h, h = G[r0][c0].cell.rowSpan, NEW w, w = G[r0][c0].cell.colSpan
  PROVE  PartSplit(splitToRows(t, <<r0, i0>>), t, R, C, r0, c0, h, w, 0)
<1> DEFINE D == RowSplitGrid(G, R, C, r0, c0)
           g == G[r0][c0]
           u == splitToRows(t, <<r0, i0>>)
           own == [g.cell EXCEPT !.rowSpan = 1]
           low == [BlankCell EXCEPT !.colSpan = w]
<1>1. PICK rows : u = update(rows) /\ Lays(rows, C, {}, D) /\ Len(rows) = R
  BY RowSplitLays
<1>2. LooksLike(u, rows, C, D)
  BY <1>1, UpdateLays
<1>3. Begins(G, R, C, r0, c0) /\ Standing(t, R, C, G, K)
  BY SplitOf DEF Splitting
<1>4. r0 \in Int /\ g.cell \in Cell /\ h \in Int /\ 1 <= h /\ w \in Nat \ {0}
  <2>1. /\ r0 \in Int /\ g.cell \in Cell /\ g.cell.rowSpan \in Int /\ g.cell.colSpan \in Int
        /\ 1 <= g.cell.rowSpan /\ 1 <= g.cell.colSpan
    BY <1>3, BeginsAt
  <2> HIDE DEF g
  <2> QED BY <2>1 DEF g
<1>5. own.rowSpan = 1 /\ own.colSpan = w /\ low.rowSpan = 1 /\ low.colSpan = w
  <2> HIDE DEF g
  <2>1. 1 \in Nat \ {0}
    OBVIOUS
  <2>2. own.rowSpan = 1 /\ own.colSpan = g.cell.colSpan
    BY <1>4, <2>1, WithRowSpan
  <2>3. low.rowSpan = 1 /\ low.colSpan = w
    BY <1>4, BlankIs, WithColSpan
  <2> QED BY <2>2, <2>3 DEF g
<1>6. Sized(u, R, C)
  BY <1>1, <1>2 DEF LooksLike, Sized
<1>7. ASSUME NEW r \in 1..R, NEW c \in 1..C
      PROVE  D[r][c] = IF Within(g, r, c) THEN [row |-> r, col |-> c0, cell |-> IF r = r0 THEN own ELSE low] ELSE G[r][c]
  BY DEF RowSplitGrid
<1> HIDE DEF u, D, own, low
<1>8. ASSUME NEW r \in 1..R, NEW c \in 1..C
      PROVE  /\ InBlock(r, c, r0, c0, h, w) /\ r < r0 + 0 => Shows(u, r, c, r, c, 1, 1)
             /\ InBlock(r, c, r0, c0, h, w) /\ r >= r0 + 0 => Shows(u, r, c, r, c0, 1, w)
             /\ ~InBlock(r, c, r0, c0, h, w) => SameAt(u, t, r, c)
  <2>1. Within(g, r, c) <=> InBlock(r, c, r0, c0, h, w)
    BY <1>3, BlockIs
  <2>2. InBlock(r, c, r0, c0, h, w) => ~(r < r0 + 0)
    BY <1>4 DEF InBlock
  <2>3. ASSUME Within(g, r, c)
        PROVE  Shows(u, r, c, r, c0, 1, w)
    <3> DEFINE x == IF r = r0 THEN own ELSE low
               d == [row |-> r, col |-> c0, cell |-> x]
    <3>1. D[r][c] = d
      BY <1>7, <2>3
    <3>2. d.row = r /\ d.col = c0 /\ d.cell = x
      OBVIOUS
    <3>3. x.rowSpan = 1 /\ x.colSpan = w
      BY <1>5
    <3> HIDE DEF d, x
    <3>4. Shows(u, r, c, D[r][c].row, D[r][c].col, D[r][c].cell.rowSpan, D[r][c].cell.colSpan)
      BY <1>1, <1>2, ShownBy
    <3> QED BY <3>1, <3>2, <3>3, <3>4
  <2>4. ASSUME ~Within(g, r, c)
        PROVE  SameAt(u, t, r, c)
    <3>1. D[r][c] = G[r][c]
      BY <1>7, <2>4
    <3> QED BY <1>1, <1>2, <1>3, <3>1, SameWhere
  <2> QED BY <2>1, <2>2, <2>3, <2>4
<1> QED BY <1>6, <1>8 DEF PartSplit, u

(* A cell split into columns.                                              *)
ColsSeen(v, u, R, C, r0, c0, h, w) ==
    /\ Sized(v, R, C)
    /\ \A r \in 1..R, c \in 1..C :
          /\ InBlock(r, c, r0, c0, h, w) => Shows(v, r, c, r0, c, h, 1)
          /\ ~InBlock(r, c, r0, c0, h, w) => SameAt(v, u, r, c)

\* The cell becomes as many as it has columns, the others stay.
LEMMA SplitColsSeen ==
  ASSUME NEW t, NEW R, NEW C, NEW G, NEW K, NEW r0, NEW i0, NEW c0, Splitting(t, R, C, G, K, r0, i0, c0),
         NEW h, h = G[r0][c0].cell.rowSpan, NEW w, w = G[r0][c0].cell.colSpan
  PROVE  ColsSeen(splitToCols(t, <<r0, i0>>), t, R, C, r0, c0, h, w)
<1> DEFINE D == ColSplitGrid(G, R, C, r0, c0)
           g == G[r0][c0]
           u == splitToCols(t, <<r0, i0>>)
           own == [g.cell EXCEPT !.colSpan = 1]
           new == [BlankCell EXCEPT !.rowSpan = h]
<1>1. PICK rows : u = update(rows) /\ Lays(rows, C, {}, D) /\ Len(rows) = R
  BY ColSplitLays
<1>2. LooksLike(u, rows, C, D)
  BY <1>1, UpdateLays
<1>3. Begins(G, R, C, r0, c0) /\ Standing(t, R, C, G, K)
  BY SplitOf DEF Splitting
<1>4. g.cell \in Cell /\ h \in Nat \ {0}
  <2>1. /\ g.cell \in Cell /\ g.cell.rowSpan \in Int /\ 1 <= g.cell.rowSpan
    BY <1>3, BeginsAt
  <2> HIDE DEF g
  <2> QED BY <2>1 DEF g
<1>5. own.rowSpan = h /\ own.colSpan = 1 /\ new.rowSpan = h /\ new.colSpan = 1
  <2> HIDE DEF g
  <2>1. 1 \in Nat \ {0}
    OBVIOUS
  <2>2. own.colSpan = 1 /\ own.rowSpan = g.cell.rowSpan
    BY <1>4, <2>1, WithColSpan
  <2>3. new.colSpan = 1 /\ new.rowSpan = h
    BY <1>4, BlankIs, WithRowSpan
  <2> QED BY <2>2, <2>3 DEF g
<1>6. Sized(u, R, C)
  BY <1>1, <1>2 DEF LooksLike, Sized
<1>7. ASSUME NEW r \in 1..R, NEW c \in 1..C
      PROVE  D[r][c] = IF Within(g, r, c) THEN [row |-> r0, col |-> c, cell |-> IF c = c0 THEN own ELSE new] ELSE G[r][c]
  BY DEF ColSplitGrid
<1> HIDE DEF u, D, own, new
<1>8. ASSUME NEW r \in 1..R, NEW c \in 1..C
      PROVE  /\ InBlock(r, c, r0, c0, h, w) => Shows(u, r, c, r0, c, h, 1)
             /\ ~InBlock(r, c, r0, c0, h, w) => SameAt(u, t, r, c)
  <2>1. Within(g, r, c) <=> InBlock(r, c, r0, c0, h, w)
    BY <1>3, BlockIs
  <2>3. ASSUME Within(g, r, c)
        PROVE  Shows(u, r, c, r0, c, h, 1)
    <3> DEFINE x == IF c = c0 THEN own ELSE new
               d == [row |-> r0, col |-> c, cell |-> x]
    <3>1. D[r][c] = d
      BY <1>7, <2>3
    <3>2. d.row = r0 /\ d.col = c /\ d.cell = x
      OBVIOUS
    <3>3. x.rowSpan = h /\ x.colSpan = 1
      BY <1>5
    <3> HIDE DEF d, x
    <3>4. Shows(u, r, c, D[r][c].row, D[r][c].col, D[r][c].cell.rowSpan, D[r][c].cell.colSpan)
      BY <1>1, <1>2, ShownBy
    <3> QED BY <3>1, <3>2, <3>3, <3>4
  <2>4. ASSUME ~Within(g, r, c)
        PROVE  SameAt(u, t, r, c)
    <3>1. D[r][c] = G[r][c]
      BY <1>7, <2>4
    <3> QED BY <1>1, <1>2, <1>3, <3>1, SameWhere
  <2> QED BY <2>1, <2>3, <2>4
<1> QED BY <1>6, <1>8 DEF ColsSeen, u

\* What two tables show alike they show alike of a third.
LEMMA ShowsSame ==
  ASSUME NEW v, NEW u, NEW r, NEW c, SameAt(v, u, r, c), NEW row, NEW col, NEW rs, NEW cs, Shows(u, r, c, row, col, rs, cs)
  PROVE  Shows(v, r, c, row, col, rs, cs)
BY DEF SameAt, Shows

\* That a position has the same cell in two tables is transitive.
LEMMA SameSame ==
  ASSUME NEW v, NEW u, NEW t, NEW r, NEW c, SameAt(v, u, r, c), SameAt(u, t, r, c)
  PROVE  SameAt(v, t, r, c)
BY DEF SameAt, Shows

(* A block of a table of R rows and C columns.                             *)
BlockIn(R, C, r0, c0, h, w) ==
    /\ R \in Nat \ {0} /\ C \in Nat /\ r0 \in 1..R /\ c0 \in 1..C
    /\ h \in Nat \ {0} /\ w \in Nat \ {0} /\ r0 + h <= R + 1 /\ c0 + w <= C + 1

(* Row r of a block begins with a cell as wide as the block.               *)
RowToSplit(u, R, C, r, c0, w) ==
    /\ r \in 1..R
    /\ Splitting(u, R, C, GridOf(u), ColumnsOf(u), r, u.index[<<r, c0>>].cell, c0)
    /\ GridOf(u)[r][c0].cell.rowSpan = 1 /\ GridOf(u)[r][c0].cell.colSpan = w

\* The next row of the block is a cell of its own to split.
LEMMA NextRow ==
  ASSUME NEW u, NEW t, NEW R, NEW C, NEW r0, NEW c0, NEW h, NEW w, BlockIn(R, C, r0, c0, h, w),
         NEW k \in Nat, k < h, PartSplit(u, t, R, C, r0, c0, h, w, k)
  PROVE  RowToSplit(u, R, C, r0 + k, c0, w)
<1> DEFINE r == r0 + k
           j == u.index[<<r, c0>>]
           G == GridOf(u)
           K == ColumnsOf(u)
<1>1. r \in 1..R /\ c0 \in 1..C /\ InBlock(r, c0, r0, c0, h, w) /\ r >= r0 + k /\ R > 0
  BY DEF BlockIn, InBlock
<1>2. Sized(u, R, C) /\ Shows(u, r, c0, r, c0, 1, w)
  BY <1>1 DEF PartSplit
<1>3. Standing(u, R, C, G, K)
  BY <1>1, <1>2, StandingTiled DEF Sized
<1> HIDE DEF r, G, K
<1>4. Agrees(u, G, K, r, c0)
  BY <1>1, <1>3 DEF Standing
<1>5. j.row = r /\ j.col = c0 /\ j.rowSpan = 1 /\ j.colSpan = w
  BY <1>2 DEF Shows
<1>6. /\ j.rowSpan = G[r][c0].cell.rowSpan /\ j.colSpan = G[r][c0].cell.colSpan
      /\ j.cell \in 1..Len(u.rows[j.row]) /\ K[j.row][j.cell] = j.col
  BY <1>4 DEF Agrees
<1>7. Splitting(u, R, C, G, K, r, j.cell, c0)
  BY <1>1, <1>3, <1>5, <1>6 DEF Splitting
<1>8. RowToSplit(u, R, C, r, c0, w)
  BY <1>1, <1>5, <1>6, <1>7 DEF RowToSplit, G, K
<1> QED BY <1>8 DEF r

\* It becomes cells, too.
LEMMA NextRowSplit ==
  ASSUME NEW u, NEW t, NEW R, NEW C, NEW r0, NEW c0, NEW h, NEW w, BlockIn(R, C, r0, c0, h, w),
         NEW k \in Nat, k < h, PartSplit(u, t, R, C, r0, c0, h, w, k)
  PROVE  PartSplit(splitToCols(u, <<r0 + k, u.index[<<r0 + k, c0>>].cell>>), t, R, C, r0, c0, h, w, k + 1)
<1> DEFINE r == r0 + k
           i == u.index[<<r, c0>>].cell
           v == splitToCols(u, <<r, i>>)
           G == GridOf(u)
           K == ColumnsOf(u)
<1>1. /\ r \in 1..R
      /\ Splitting(u, R, C, G, K, r, i, c0)
      /\ G[r][c0].cell.rowSpan = 1 /\ G[r][c0].cell.colSpan = w
  <2>1. RowToSplit(u, R, C, r0 + k, c0, w)
    BY NextRow
  <2> QED BY <2>1 DEF RowToSplit
<1> HIDE DEF r, i, G, K
<1>2. ColsSeen(v, u, R, C, r, c0, 1, w)
  BY <1>1, SplitColsSeen
<1> HIDE DEF v
<1>3. ASSUME NEW x \in 1..R, NEW y \in 1..C
      PROVE  /\ InBlock(x, y, r0, c0, h, w) /\ x < r0 + (k + 1) => Shows(v, x, y, x, y, 1, 1)
             /\ InBlock(x, y, r0, c0, h, w) /\ x >= r0 + (k + 1) => Shows(v, x, y, x, c0, 1, w)
             /\ ~InBlock(x, y, r0, c0, h, w) => SameAt(v, t, x, y)
  <2>1. /\ InBlock(x, y, r, c0, 1, w) => Shows(v, x, y, r, y, 1, 1)
        /\ ~InBlock(x, y, r, c0, 1, w) => SameAt(v, u, x, y)
    BY <1>2 DEF ColsSeen
  <2>2. /\ InBlock(x, y, r0, c0, h, w) /\ x < r0 + k => Shows(u, x, y, x, y, 1, 1)
        /\ InBlock(x, y, r0, c0, h, w) /\ x >= r0 + k => Shows(u, x, y, x, c0, 1, w)
        /\ ~InBlock(x, y, r0, c0, h, w) => SameAt(u, t, x, y)
    BY DEF PartSplit
  <2>3. r0 \in Int /\ c0 \in Int /\ h \in Int /\ w \in Int /\ x \in Int /\ y \in Int /\ r = r0 + k
    BY DEF BlockIn, r
  <2>4. InBlock(x, y, r, c0, 1, w) => x = r /\ InBlock(x, y, r0, c0, h, w) /\ x < r0 + (k + 1)
    BY <2>3 DEF InBlock
  <2>5. InBlock(x, y, r0, c0, h, w) /\ ~InBlock(x, y, r, c0, 1, w) /\ x < r0 + (k + 1) => x < r0 + k
    BY <2>3 DEF InBlock
  <2>6. x >= r0 + (k + 1) => x >= r0 + k /\ ~(x < r0 + (k + 1))
    BY <2>3
  <2> QED BY <2>1, <2>2, <2>4, <2>5, <2>6, ShowsSame, SameSame
<1>4. Sized(v, R, C)
  BY <1>2 DEF ColsSeen
<1> QED BY <1>3, <1>4 DEF PartSplit, v, r, i

(* The tables on the way from one cell to cells of one position.           *)
SplitSteps(f, t, p) ==
    LET info == InfoOf(t, p)
    IN  /\ splitToCells(t, p) = IF info.rowSpan \in Nat THEN f[info.rowSpan] ELSE t
        /\ \A k \in Nat : f[k] = IF k = 0 THEN splitToRows(t, p)
                                 ELSE splitToCols(f[k - 1], <<info.row + k - 1,
                                         (f[k - 1]).index[<<info.row + k - 1, info.col>>].cell>>)

\* The recursive definition of splitToCells has a solution.
LEMMA SplitToCellsIs ==
  ASSUME NEW t, NEW p
  PROVE  \E f : SplitSteps(f, t, p)
<1> DEFINE info == InfoOf(t, p)
           init == splitToRows(t, p)
           step(s, k) == splitToCols(s, <<info.row + k - 1, s.index[<<info.row + k - 1, info.col>>].cell>>)
           Good(f) == f = [k \in Nat |-> IF k = 0 THEN init
                             ELSE splitToCols(f[k - 1], <<info.row + k - 1,
                                     (f[k - 1]).index[<<info.row + k - 1, info.col>>].cell>>)]
           split == CHOOSE f : Good(f)
<1>4. splitToCells(t, p) = IF info.rowSpan \in Nat THEN split[info.rowSpan] ELSE t
  BY DEF splitToCells
<1>5. \A f : Good(f) <=> f = [k \in Nat |-> IF k = 0 THEN init ELSE step(f[k - 1], k)]
  OBVIOUS
<1>6. \A f : SplitSteps(f, t, p) <=>
         /\ splitToCells(t, p) = IF info.rowSpan \in Nat THEN f[info.rowSpan] ELSE t
         /\ \A k \in Nat : f[k] = IF k = 0 THEN init ELSE step(f[k - 1], k)
  BY DEF SplitSteps
<1> HIDE DEF Good, step, init, info
\* The equation has a solution: parts of it, which agree, make the whole.
<1>8. \E f : Good(f)
  <2> DEFINE Sol(f, n) == f = [k \in 0..n |-> IF k = 0 THEN init ELSE step(f[k - 1], k)]
             all == {n \in Nat : \E f : Sol(f, n)}
  <2>1. ASSUME NEW n \in Nat, NEW f, Sol(f, n), NEW k \in 0..n
        PROVE  f[k] = IF k = 0 THEN init ELSE step(f[k - 1], k)
    BY <2>1
  <2>2. 0 \in all
    <3> DEFINE f == [k \in 0..0 |-> init]
    <3>1. f = [k \in 0..0 |-> IF k = 0 THEN init ELSE step(f[k - 1], k)]
      OBVIOUS
    <3> HIDE DEF f
    <3> QED BY <3>1
  <2>3. ASSUME NEW n \in Nat, n \in all
        PROVE  n + 1 \in all
    <3>1. PICK f : Sol(f, n)
      BY <2>3
    <3> DEFINE e == step(f[n], n + 1)
               g == [k \in 0..(n + 1) |-> IF k = n + 1 THEN e ELSE f[k]]
    <3>2. \A k \in 0..n : k \in 0..(n + 1) /\ k # n + 1 /\ g[k] = f[k]
      OBVIOUS
    <3>3. n + 1 \in 0..(n + 1) /\ n \in 0..n /\ n + 1 # 0 /\ g[n + 1] = e /\ (n + 1) - 1 = n
      OBVIOUS
    <3>4. \A k \in 0..n : f[k] = IF k = 0 THEN init ELSE step(f[k - 1], k)
      BY <2>1, <3>1
    <3>5. g = [k \in 0..(n + 1) |-> g[k]]
      OBVIOUS
    <3> HIDE DEF g
    <3>6. ASSUME NEW k \in 0..(n + 1)
          PROVE  g[k] = IF k = 0 THEN init ELSE step(g[k - 1], k)
      <4>1. CASE k = n + 1
        <5>1. g[n] = f[n]
          BY <3>2, <3>3
        <5> QED BY <3>3, <4>1, <5>1
      <4>2. CASE k # n + 1
        <5>1. k \in 0..n /\ (k # 0 => k - 1 \in 0..n)
          BY <4>2
        <5>2. g[k] = f[k] /\ (k # 0 => g[k - 1] = f[k - 1])
          BY <3>2, <5>1
        <5> HIDE DEF e
        <5> QED BY <3>4, <5>1, <5>2
      <4> QED BY <4>1, <4>2
    <3>7. Sol(g, n + 1)
      BY <3>5, <3>6
    <3> HIDE DEF Sol
    <3> QED BY <3>7
  <2>4. Nat \subseteq all
    <3> HIDE DEF all
    <3> QED BY <2>2, <2>3, NatInSet
  <2> HIDE DEF Sol
  <2> DEFINE part(n) == CHOOSE f : Sol(f, n)
             F == [n \in Nat |-> part(n)[n]]
  <2>5. ASSUME NEW n \in Nat
        PROVE  Sol(part(n), n)
    BY <2>4
  <2> HIDE DEF part
  <2> DEFINE same == {k \in Nat : \A n \in Nat : k <= n => part(n)[k] = part(k)[k]}
  <2>6. 0 \in same
    <3>1. ASSUME NEW n \in Nat
          PROVE  part(n)[0] = init
      <4>1. 0 \in 0..n /\ Sol(part(n), n)
        BY <2>5
      <4> QED BY <2>1, <4>1
    <3>2. part(0)[0] = init
      BY <3>1
    <3> QED BY <3>1, <3>2
  <2>7. ASSUME NEW k \in Nat, k \in same
        PROVE  k + 1 \in same
    <3>1. ASSUME NEW n \in Nat, k + 1 <= n
          PROVE  part(n)[k + 1] = step(part(k)[k], k + 1)
      <4>1. k + 1 \in 0..n /\ k + 1 # 0 /\ (k + 1) - 1 = k /\ k <= n
        BY <3>1
      <4>2. part(n)[k + 1] = step(part(n)[k], k + 1)
        BY <2>1, <2>5, <4>1
      <4>3. part(n)[k] = part(k)[k]
        BY <2>7, <4>1
      <4> QED BY <4>2, <4>3
    <3>2. part(k + 1)[k + 1] = step(part(k)[k], k + 1)
      <4>1. k + 1 \in Nat /\ k + 1 <= k + 1
        OBVIOUS
      <4> QED BY <3>1, <4>1
    <3> QED BY <3>1, <3>2
  <2>8. Nat \subseteq same
    <3> HIDE DEF same
    <3> QED BY <2>6, <2>7, NatInSet
  <2>9. ASSUME NEW k \in Nat
        PROVE  F[k] = IF k = 0 THEN init ELSE step(F[k - 1], k)
    <3>1. k \in 0..k /\ F[k] = part(k)[k]
      OBVIOUS
    <3>2. part(k)[k] = IF k = 0 THEN init ELSE step(part(k)[k - 1], k)
      BY <2>1, <2>5, <3>1
    <3>3. k # 0 => k - 1 \in Nat /\ k - 1 <= k /\ k - 1 \in same
      BY <2>8
    <3>4. k # 0 => F[k - 1] = part(k)[k - 1]
      BY <3>3
    <3> QED BY <3>1, <3>2, <3>4
  <2>10. F = [k \in Nat |-> F[k]]
    OBVIOUS
  <2> HIDE DEF F
  <2>11. F = [k \in Nat |-> IF k = 0 THEN init ELSE step(F[k - 1], k)]
    BY <2>9, <2>10
  <2> QED BY <1>5, <2>11
<1>9. Good(split)
  BY <1>8
<1> HIDE DEF split
<1>10. \A k \in Nat : split[k] = IF k = 0 THEN init ELSE step(split[k - 1], k)
  <2>1. split = [k \in Nat |-> IF k = 0 THEN init ELSE step(split[k - 1], k)]
    BY <1>5, <1>9
  <2> QED BY <2>1
<1> QED BY <1>4, <1>6, <1>10

\* A cell becomes cells of one position each, row by row.
LEMMA SplitCellsSeen ==
  ASSUME NEW t, NEW R, NEW C, NEW G, NEW K, NEW r0, NEW i0, NEW c0, Splitting(t, R, C, G, K, r0, i0, c0),
         NEW h, h = G[r0][c0].cell.rowSpan, NEW w, w = G[r0][c0].cell.colSpan
  PROVE  BlockIn(R, C, r0, c0, h, w) /\ PartSplit(splitToCells(t, <<r0, i0>>), t, R, C, r0, c0, h, w, h)
<1> DEFINE info == InfoOf(t, <<r0, i0>>)
<1>1. Begins(G, R, C, r0, c0) /\ Tells(info, t, G, r0, i0, c0)
  BY SplitOf
<1>2. info.row = r0 /\ info.col = c0 /\ info.rowSpan = h /\ info.colSpan = w
  BY <1>1 DEF Tells
<1>3. BlockIn(R, C, r0, c0, h, w)
  <2>1. /\ r0 \in Int /\ c0 \in Int /\ h \in Int /\ w \in Int /\ 1 <= h /\ 1 <= w
        /\ r0 + h <= R + 1 /\ c0 + w <= C + 1
    BY <1>1, BeginsAt
  <2>2. R \in Nat \ {0} /\ C \in Nat /\ r0 \in 1..R /\ c0 \in 1..C
    BY <1>1 DEF Begins
  <2> QED BY <2>1, <2>2 DEF BlockIn
<1>6. h \in Nat
  BY <1>3 DEF BlockIn
<1>7. PICK split : SplitSteps(split, t, <<r0, i0>>)
  BY SplitToCellsIs
<1>8. /\ splitToCells(t, <<r0, i0>>) = split[h]
      /\ split[0] = splitToRows(t, <<r0, i0>>)
      /\ \A k \in Nat : k # 0 => split[k] =
            splitToCols(split[k - 1], <<r0 + k - 1, (split[k - 1]).index[<<r0 + k - 1, c0>>].cell>>)
  <2> HIDE DEF info
  <2>1. info = InfoOf(t, <<r0, i0>>)
    BY DEF info
  <2> QED BY <1>2, <1>6, <1>7, <2>1 DEF SplitSteps
<1> HIDE DEF info
<1> DEFINE ok == {n \in Nat : n <= h => PartSplit(split[n], t, R, C, r0, c0, h, w, n)}
<1>11. 0 \in ok
  <2>1. PartSplit(split[0], t, R, C, r0, c0, h, w, 0)
    BY <1>8, SplitRowsSeen
  <2> QED BY <2>1
<1>12. ASSUME NEW n \in Nat, n \in ok
       PROVE  n + 1 \in ok
  <2> SUFFICES ASSUME n + 1 <= h
               PROVE  PartSplit(split[n + 1], t, R, C, r0, c0, h, w, n + 1)
    OBVIOUS
  <2> DEFINE s == split[n]
  <2>1. n < h /\ PartSplit(s, t, R, C, r0, c0, h, w, n)
    BY <1>6, <1>12
  <2>2. split[n + 1] = splitToCols(s, <<r0 + n, s.index[<<r0 + n, c0>>].cell>>)
    <3>1. n + 1 \in Nat /\ n + 1 # 0 /\ (n + 1) - 1 = n
      OBVIOUS
    <3>2. r0 + (n + 1) - 1 = r0 + n
      BY <1>3 DEF BlockIn
    <3> QED BY <1>8, <3>1, <3>2
  <2> HIDE DEF s
  <2>4. PartSplit(splitToCols(s, <<r0 + n, s.index[<<r0 + n, c0>>].cell>>), t, R, C, r0, c0, h, w, n + 1)
    BY <1>3, <2>1, NextRowSplit
  <2> QED BY <2>2, <2>4
<1>13. h \in ok
  <2> HIDE DEF ok
  <2> QED BY <1>6, <1>11, <1>12, NatInSet
<1> QED BY <1>3, <1>6, <1>8, <1>13

\* The area of a cell of the index as a block.
LEMMA AreaOf ==
  ASSUME NEW u, NEW r, NEW c, NEW row \in Int, NEW col \in Int, NEW h \in Int, NEW w \in Int,
         Shows(u, r, c, row, col, h, w)
  PROVE  Area(u.index[<<r, c>>]) = (row..(row + h - 1)) \X (col..(col + w - 1))
BY DEF Shows, Area

(* What is asked of a split into cells.                                    *)
UnitsOf(split, t, area) ==
    /\ DOMAIN split.index = DOMAIN t.index
    /\ \A pos \in area : Area(split.index[pos]) = {pos}
    /\ \A pos \in DOMAIN t.index \ area :
          /\ Area(split.index[pos]) = Area(t.index[pos])
          /\ TextAt(split, pos) = TextAt(t, pos)

\* Splitting a cell of a table of this size.
LEMMA SplitIsUnits ==
  ASSUME NEW t, Tiled(t), NEW p \in Places(t.rows)
  PROVE  UnitsOf(splitToCells(t, p), t, Area(InfoOf(t, p)))
<1> DEFINE R == t.rowsNum
           C == t.colsNum
           G == GridOf(t)
           K == ColumnsOf(t)
<1>1. t.rows \in Seq(Seq(Cell)) /\ R = Len(t.rows) /\ C \in Nat /\ DOMAIN t.index = (1..R) \X (1..C)
  BY DEF Tiled
<1>a. PICK r0 \in 1..R : \E i \in 1..Len(t.rows[r0]) : p = <<r0, i>>
  <2>1. PICK r \in DOMAIN t.rows : p \in {r} \X (DOMAIN t.rows[r])
    BY DEF Places
  <2>2. r \in 1..R
    BY <1>1, <2>1
  <2>3. t.rows[r] \in Seq(Cell)
    BY <1>1, <2>2
  <2> QED BY <2>1, <2>2, <2>3
<1>2. PICK i0 \in 1..Len(t.rows[r0]) : p = <<r0, i0>>
  BY <1>a
<1>3. R \in Nat /\ R > 0
  BY <1>1, <1>2
<1>4. Standing(t, R, C, G, K)
  BY <1>3, StandingTiled
<1> HIDE DEF R, C, G, K
<1> DEFINE c0 == K[r0][i0]
           h == G[r0][c0].cell.rowSpan
           w == G[r0][c0].cell.colSpan
           u == splitToCells(t, p)
           area == Area(InfoOf(t, p))
<1>5. Splitting(t, R, C, G, K, r0, i0, c0)
  BY <1>2, <1>4 DEF Splitting
<1>6. BlockIn(R, C, r0, c0, h, w) /\ PartSplit(u, t, R, C, r0, c0, h, w, h)
  BY <1>2, <1>5, SplitCellsSeen
<1>7. Tells(InfoOf(t, p), t, G, r0, i0, c0)
  BY <1>2, <1>5, SplitOf
<1>8. area = (r0..(r0 + h - 1)) \X (c0..(c0 + w - 1))
  BY <1>7 DEF Tells, Area
<1> HIDE DEF c0, h, w, u
<1>9. /\ r0 \in Int /\ c0 \in Int /\ h \in Int /\ w \in Int /\ 1 <= r0 /\ 1 <= c0 /\ R \in Int /\ C \in Int
      /\ r0 + h <= R + 1 /\ c0 + w <= C + 1
  BY <1>6 DEF BlockIn
<1>10. ASSUME NEW r \in 1..R, NEW c \in 1..C
       PROVE  <<r, c>> \in area <=> InBlock(r, c, r0, c0, h, w)
  <2>1. r \in Int /\ c \in Int
    OBVIOUS
  <2> QED BY <1>8, <1>9, <2>1 DEF InBlock
<1>11. ASSUME NEW r \in 1..R, NEW c \in 1..C
       PROVE  /\ InBlock(r, c, r0, c0, h, w) => Shows(u, r, c, r, c, 1, 1)
              /\ ~InBlock(r, c, r0, c0, h, w) => SameAt(u, t, r, c)
  <2>1. InBlock(r, c, r0, c0, h, w) => r < r0 + h
    BY DEF InBlock
  <2> QED BY <1>6, <2>1 DEF PartSplit
<1>12. DOMAIN u.index = DOMAIN t.index
  <2>1. Tiled(u) /\ u.rowsNum = R /\ u.colsNum = C
    BY <1>6 DEF PartSplit, Sized
  <2> QED BY <1>1, <2>1 DEF Tiled
<1>13. ASSUME NEW pos \in area
       PROVE  Area(u.index[pos]) = {pos}
  <2>1. PICK r \in Int, c \in Int : pos = <<r, c>>
    BY <1>8
  <2>2. r0 <= r /\ r < r0 + h /\ c0 <= c /\ c < c0 + w
    BY <1>8, <1>9, <2>1
  <2>3. r \in 1..R /\ c \in 1..C
    BY <1>9, <2>2
  <2>4. Shows(u, r, c, r, c, 1, 1)
    BY <1>11, <2>2, <2>3 DEF InBlock
  <2>5. Area(u.index[<<r, c>>]) = (r..(r + 1 - 1)) \X (c..(c + 1 - 1))
    BY <2>1, <2>4, AreaOf
  <2>6. r..(r + 1 - 1) = {r} /\ c..(c + 1 - 1) = {c}
    BY <2>1
  <2>7. {r} \X {c} = {<<r, c>>}
    OBVIOUS
  <2> QED BY <2>1, <2>5, <2>6, <2>7
<1>14. ASSUME NEW pos \in DOMAIN t.index \ area
       PROVE  Area(u.index[pos]) = Area(t.index[pos]) /\ TextAt(u, pos) = TextAt(t, pos)
  <2>1. PICK r \in 1..R, c \in 1..C : pos = <<r, c>>
    BY <1>1
  <2>2. SameAt(u, t, r, c)
    BY <1>10, <1>11, <2>1
  <2> QED BY <2>1, <2>2 DEF SameAt, Shows, Area
<1>15. UnitsOf(u, t, area)
  BY <1>12, <1>13, <1>14 DEF UnitsOf
<1> QED BY <1>15 DEF u

\* Splitting a cell makes cells of one position of it, and leaves the others.
LEMMA SplitsToUnits == SplitIsUnit
<1>1. Tiled(ut) => \A p \in Places(ut.rows) : UnitsOf(splitToCells(ut, p), ut, Area(InfoOf(ut, p)))
  BY SplitIsUnits
<1> QED BY <1>1 DEF SplitIsUnit, UnitsOf

-----------------------------------------------------------------------------
(* The range of the selection.                                             *)

\* A least and a greatest number.
LEMMA LeastOf ==
  ASSUME NEW n \in Nat, NEW S \in SUBSET (1..n), S # {}
  PROVE  Min(S) \in S /\ (\A x \in S : Min(S) <= x) /\ Max(S) \in S /\ (\A x \in S : x <= Max(S))
<1>1. 1 \in Int /\ n \in Int
  OBVIOUS
<1> QED BY <1>1, HasMin, HasMax

(* Places of cells in the first R rows, so many in each.                   *)
InRows(S, R) ==
    /\ R \in Nat /\ S \subseteq (1..R) \X Nat
    /\ \A r \in 1..R : \E n \in Nat : \A p \in S : p[1] = r => p[2] \in 1..n

\* Some place is the first one.
LEMMA HasFirst ==
  ASSUME NEW S, NEW R, InRows(S, R), S # {}
  PROVE  FirstOf(S) \in S /\ \A q \in S : FirstOf(S) = q \/ Before(FirstOf(S), q)
<1>1. R \in Nat /\ S \subseteq (1..R) \X Nat
  BY DEF InRows
<1> DEFINE lines == {r \in 1..R : \E p \in S : p[1] = r}
           a == Min(lines)
<1>2. lines \in SUBSET (1..R) /\ lines # {}
  BY <1>1
<1>3. a \in lines /\ \A r \in lines : a <= r
  <2> HIDE DEF lines
  <2> QED BY <1>1, <1>2, LeastOf
<1> HIDE DEF a
<1>4. PICK n \in Nat : \A p \in S : p[1] = a => p[2] \in 1..n
  BY <1>3 DEF InRows
<1> DEFINE cells == {i \in 1..n : \E p \in S : p[1] = a /\ p[2] = i}
           b == Min(cells)
<1>5. cells \in SUBSET (1..n) /\ cells # {}
  BY <1>3, <1>4
<1>6. b \in cells /\ \A i \in cells : b <= i
  <2> HIDE DEF cells
  <2> QED BY <1>4, <1>5, LeastOf
<1> HIDE DEF b
<1>7. PICK f \in S : f[1] = a /\ f[2] = b
  BY <1>6
<1>8. ASSUME NEW q \in S
      PROVE  f = q \/ Before(f, q)
  <2>1. PICK r \in 1..R, i \in Nat : q = <<r, i>>
    BY <1>1
  <2>2. q[1] = r /\ q[2] = i /\ f = <<a, b>> /\ a \in Int /\ b \in Int
    <3>1. f = <<f[1], f[2]>> /\ f[1] \in Int /\ f[2] \in Int
      BY <1>1
    <3> QED BY <1>7, <2>1, <3>1
  <2>3. a <= r
    BY <1>3, <2>2
  <2>4. r = a => b <= i
    BY <1>4, <1>6, <2>2
  <2>5. a < r \/ a = r
    BY <2>2, <2>3
  <2>6. r = a => b < i \/ b = i
    BY <2>2, <2>4
  <2> QED BY <1>7, <2>1, <2>2, <2>5, <2>6 DEF Before
<1>9. \E p \in S : \A q \in S : p = q \/ Before(p, q)
  BY <1>7, <1>8
<1> QED BY <1>9 DEF FirstOf

\* Some place is the last one.
LEMMA HasLast ==
  ASSUME NEW S, NEW R, InRows(S, R), S # {}
  PROVE  LastOf(S) \in S /\ \A q \in S : LastOf(S) = q \/ Before(q, LastOf(S))
<1>1. R \in Nat /\ S \subseteq (1..R) \X Nat
  BY DEF InRows
<1> DEFINE lines == {r \in 1..R : \E p \in S : p[1] = r}
           a == Max(lines)
<1>2. lines \in SUBSET (1..R) /\ lines # {}
  BY <1>1
<1>3. a \in lines /\ \A r \in lines : r <= a
  <2> HIDE DEF lines
  <2> QED BY <1>1, <1>2, LeastOf
<1> HIDE DEF a
<1>4. PICK n \in Nat : \A p \in S : p[1] = a => p[2] \in 1..n
  BY <1>3 DEF InRows
<1> DEFINE cells == {i \in 1..n : \E p \in S : p[1] = a /\ p[2] = i}
           b == Max(cells)
<1>5. cells \in SUBSET (1..n) /\ cells # {}
  BY <1>3, <1>4
<1>6. b \in cells /\ \A i \in cells : i <= b
  <2> HIDE DEF cells
  <2> QED BY <1>4, <1>5, LeastOf
<1> HIDE DEF b
<1>7. PICK f \in S : f[1] = a /\ f[2] = b
  BY <1>6
<1>8. ASSUME NEW q \in S
      PROVE  f = q \/ Before(q, f)
  <2>1. PICK r \in 1..R, i \in Nat : q = <<r, i>>
    BY <1>1
  <2>2. q[1] = r /\ q[2] = i /\ f = <<a, b>> /\ a \in Int /\ b \in Int
    <3>1. f = <<f[1], f[2]>> /\ f[1] \in Int /\ f[2] \in Int
      BY <1>1
    <3> QED BY <1>7, <2>1, <3>1
  <2>3. r <= a
    BY <1>3, <2>2
  <2>4. r = a => i <= b
    BY <1>4, <1>6, <2>2
  <2>5. r < a \/ a = r
    BY <2>2, <2>3
  <2>6. r = a => i < b \/ b = i
    BY <2>2, <2>4
  <2> QED BY <1>7, <2>1, <2>2, <2>5, <2>6 DEF Before
<1>9. \E p \in S : \A q \in S : p = q \/ Before(q, p)
  BY <1>7, <1>8
<1> QED BY <1>9 DEF LastOf

\* The first place is in no later row than the last one.
LEMMA FirstThenLast ==
  ASSUME NEW S, NEW R, InRows(S, R), S # {}
  PROVE  FirstOf(S) \in S /\ LastOf(S) \in S /\ FirstOf(S)[1] <= LastOf(S)[1]
<1>1. FirstOf(S) \in S /\ LastOf(S) \in S /\ (FirstOf(S) = LastOf(S) \/ Before(FirstOf(S), LastOf(S)))
  BY HasFirst, HasLast
<1>2. FirstOf(S)[1] \in Int /\ LastOf(S)[1] \in Int
  BY <1>1 DEF InRows
<1> QED BY <1>1, <1>2 DEF Before

(* What the index says of a position: a cell inside the table.             *)
InTable(j, R, C) ==
    /\ j.row \in 1..R /\ j.col \in 1..C /\ j.rowSpan \in Nat \ {0} /\ j.colSpan \in Nat \ {0}
    /\ j.row + j.rowSpan - 1 \in 1..R /\ j.col + j.colSpan - 1 \in 1..C

(* A table whose index has every position of the grid and knows every cell.*)
Indexed(t) ==
    /\ t.rowsNum \in Nat /\ t.colsNum \in Nat
    /\ DOMAIN t.index = (1..t.rowsNum) \X (1..t.colsNum)
    /\ \A p \in Places(t.rows) : \E r \in 1..t.rowsNum, c \in 1..t.colsNum :
          t.index[<<r, c>>].row = p[1] /\ t.index[<<r, c>>].cell = p[2]
    /\ \A r \in DOMAIN t.rows : \E n \in Nat : DOMAIN t.rows[r] = 1..n
    /\ \A r \in 1..t.rowsNum, c \in 1..t.colsNum : InTable(t.index[<<r, c>>], t.rowsNum, t.colsNum)

\* The index of a tiled table is such a one.
LEMMA TiledIndexed ==
  ASSUME NEW t, Tiled(t)
  PROVE  Indexed(t)
<1> DEFINE infos == {t.index[pos] : pos \in DOMAIN t.index}
<1>1. /\ t.rows \in Seq(Seq(Cell)) /\ t.rowsNum = Len(t.rows) /\ t.colsNum \in Nat
      /\ DOMAIN t.index = (1..t.rowsNum) \X (1..t.colsNum)
      /\ {<<info.row, info.cell>> : info \in infos} = Places(t.rows)
  BY DEF Tiled
<1>2. t.rowsNum \in Nat /\ \A r \in DOMAIN t.rows : \E n \in Nat : DOMAIN t.rows[r] = 1..n
  BY <1>1, RowsTyped
<1>3. ASSUME NEW p \in Places(t.rows)
      PROVE  \E r \in 1..t.rowsNum, c \in 1..t.colsNum : t.index[<<r, c>>].row = p[1] /\ t.index[<<r, c>>].cell = p[2]
  <2>1. PICK info \in infos : p = <<info.row, info.cell>>
    BY <1>1
  <2>2. PICK pos \in DOMAIN t.index : info = t.index[pos]
    OBVIOUS
  <2>3. PICK r \in 1..t.rowsNum, c \in 1..t.colsNum : pos = <<r, c>>
    BY <1>1
  <2>4. t.index[<<r, c>>].row = p[1] /\ t.index[<<r, c>>].cell = p[2]
    BY <2>1, <2>2, <2>3
  <2> QED BY <2>4
<1> HIDE DEF infos
<1>4. ASSUME NEW r \in 1..t.rowsNum, NEW c \in 1..t.colsNum
      PROVE  InTable(t.index[<<r, c>>], t.rowsNum, t.colsNum)
  <2> DEFINE j == t.index[<<r, c>>]
  <2>1. CoversAt(t, j, r, c)
    BY TiledAt
  <2>2. /\ j.row \in 1..r /\ j.col \in 1..c /\ j.rowSpan \in Nat \ {0} /\ j.colSpan \in Nat \ {0}
        /\ j.row + j.rowSpan <= t.rowsNum + 1 /\ j.col + j.colSpan <= t.colsNum + 1
    BY <2>1 DEF CoversAt
  <2> HIDE DEF j
  <2>3. t.rowsNum \in Int /\ t.colsNum \in Int /\ r \in Int /\ c \in Int /\ r <= t.rowsNum /\ c <= t.colsNum
    BY <1>1, <1>2
  <2>4. j.row \in Int /\ j.col \in Int /\ 1 <= j.row /\ j.row <= r /\ 1 <= j.col /\ j.col <= c
    BY <2>2, <2>3
  <2>5. InTable(j, t.rowsNum, t.colsNum)
    BY <2>2, <2>3, <2>4 DEF InTable
  <2> QED BY <2>5 DEF j
<1> QED BY <1>1, <1>2, <1>3, <1>4 DEF Indexed

\* Every cell has its entry in the index.
LEMMA EntryOf ==
  ASSUME NEW t, Indexed(t), NEW p \in Places(t.rows)
  PROVE  InfoIn(t.index, p).row = p[1] /\ InTable(InfoIn(t.index, p), t.rowsNum, t.colsNum)
<1> DEFINE infos == {t.index[pos] : pos \in DOMAIN t.index}
           info == InfoIn(t.index, p)
<1>1. PICK r \in 1..t.rowsNum, c \in 1..t.colsNum : t.index[<<r, c>>].row = p[1] /\ t.index[<<r, c>>].cell = p[2]
  BY DEF Indexed
<1>2. <<r, c>> \in DOMAIN t.index
  BY DEF Indexed
<1>3. \E j \in infos : j.row = p[1] /\ j.cell = p[2]
  BY <1>1, <1>2
<1>4. info \in infos /\ info.row = p[1]
  BY <1>3 DEF InfoIn
<1>5. PICK pos \in DOMAIN t.index : info = t.index[pos]
  BY <1>4
<1>6. PICK x \in 1..t.rowsNum, y \in 1..t.colsNum : pos = <<x, y>>
  BY DEF Indexed
<1>7. InTable(t.index[<<x, y>>], t.rowsNum, t.colsNum)
  BY DEF Indexed
<1> QED BY <1>4, <1>5, <1>6, <1>7

(* A range of the table; as it is rebuilt it may end before the column it  *)
(* begins at.                                                              *)
RangeIn(q, R, C) ==
    /\ q.beginRow \in 1..R /\ q.endRow \in 1..R /\ q.beginRow <= q.endRow
    /\ q.beginCol \in 1..C /\ q.endCol \in 1..C

\* The rebuilt selection is a range of the table.
LEMMA RebuiltRange ==
  ASSUME NEW t, Indexed(t), NEW q, q = RangeOfMarked(t.rows, t.index), q # NoRange
  PROVE  RangeIn(q, t.rowsNum, t.colsNum)
<1> DEFINE S == Marked(t.rows)
           R == t.rowsNum
           C == t.colsNum
           first == InfoIn(t.index, FirstOf(S))
           last == InfoIn(t.index, LastOf(S))
<1>1. S \subseteq Places(t.rows)
  BY DEF Marked
<1>2. ASSUME NEW p \in Places(t.rows)
      PROVE  p[1] \in 1..R /\ p[1] \in DOMAIN t.rows /\ p = <<p[1], p[2]>> /\ p[2] \in DOMAIN t.rows[p[1]]
  <2>1. PICK r \in 1..t.rowsNum, c \in 1..t.colsNum : t.index[<<r, c>>].row = p[1]
    BY DEF Indexed
  <2>2. InTable(t.index[<<r, c>>], t.rowsNum, t.colsNum)
    BY DEF Indexed
  <2>3. p[1] \in 1..R
    BY <2>1, <2>2 DEF InTable
  <2>4. PICK x \in DOMAIN t.rows : p \in {x} \X (DOMAIN t.rows[x])
    BY DEF Places
  <2> QED BY <2>3, <2>4
<1>3. InRows(S, R)
  <2>1. R \in Nat
    BY DEF Indexed
  <2>2. S \subseteq (1..R) \X Nat
    <3>1. ASSUME NEW p \in S
          PROVE  p \in (1..R) \X Nat
      <4>1. p[1] \in 1..R /\ p[1] \in DOMAIN t.rows /\ p = <<p[1], p[2]>> /\ p[2] \in DOMAIN t.rows[p[1]]
        BY <1>1, <1>2
      <4>2. PICK n \in Nat : DOMAIN t.rows[p[1]] = 1..n
        BY <4>1 DEF Indexed
      <4>3. p[2] \in Nat
        BY <4>1, <4>2
      <4> QED BY <4>1, <4>3
    <3> QED BY <3>1
  <2>3. ASSUME NEW r \in 1..R
        PROVE  \E n \in Nat : \A p \in S : p[1] = r => p[2] \in 1..n
    <3>1. CASE r \in DOMAIN t.rows
      <4>1. PICK n \in Nat : DOMAIN t.rows[r] = 1..n
        BY <3>1 DEF Indexed
      <4>2. \A p \in S : p[1] = r => p[2] \in 1..n
        BY <1>1, <1>2, <4>1
      <4> QED BY <4>2
    <3>2. CASE r \notin DOMAIN t.rows
      <4>1. \A p \in S : p[1] = r => p[2] \in 1..0
        BY <1>1, <1>2, <3>2
      <4> QED BY <4>1
    <3> QED BY <3>1, <3>2
  <2> QED BY <2>1, <2>2, <2>3 DEF InRows
<1>4. q = [beginRow |-> first.row, beginCol |-> first.col,
           endRow |-> last.row + last.rowSpan - 1, endCol |-> last.col + last.colSpan - 1] /\ S # {}
  BY DEF RangeOfMarked
<1>5. q.beginRow = first.row /\ q.beginCol = first.col
      /\ q.endRow = last.row + last.rowSpan - 1 /\ q.endCol = last.col + last.colSpan - 1
  BY <1>4
<1>6. FirstOf(S) \in Places(t.rows) /\ LastOf(S) \in Places(t.rows) /\ FirstOf(S)[1] <= LastOf(S)[1]
  BY <1>1, <1>3, <1>4, FirstThenLast
<1>7. /\ first.row = FirstOf(S)[1] /\ InTable(first, R, C)
      /\ last.row = LastOf(S)[1] /\ InTable(last, R, C)
  BY <1>6, EntryOf
<1>8. R \in Int /\ C \in Int
  BY DEF Indexed
<1>9. first.row <= last.row
  BY <1>6, <1>7
<1> HIDE DEF first, last, S, R, C
<1>10. RangeIn(q, R, C)
  BY <1>5, <1>7, <1>8, <1>9 DEF InTable, RangeIn
<1> QED BY <1>10 DEF R, C

(* A range of the table, and one that contains another.                    *)
Ranged(q, R, C) ==
    /\ q = [beginRow |-> q.beginRow, beginCol |-> q.beginCol, endRow |-> q.endRow, endCol |-> q.endCol]
    /\ Spread(q, R, C)

Holds(g, q) ==
    g.beginRow <= q.beginRow /\ g.beginCol <= q.beginCol /\ q.endRow <= g.endRow /\ q.endCol <= g.endCol

(* The cells along the sides of a range do not stick out of it.            *)
TopFits(t, q) == \A c \in q.beginCol..(q.endCol - 1) : q.beginRow <= t.index[<<q.beginRow, c>>].row
LeftFits(t, q) == \A r \in q.beginRow..(q.endRow - 1) : q.beginCol <= t.index[<<r, q.beginCol>>].col
BottomFits(t, q) == \A c \in q.beginCol..(q.endCol - 1) :
    t.index[<<q.endRow, c>>].row + t.index[<<q.endRow, c>>].rowSpan - 1 <= q.endRow
RightFits(t, q) == \A r \in q.beginRow..(q.endRow - 1) :
    t.index[<<r, q.endCol>>].col + t.index[<<r, q.endCol>>].colSpan - 1 <= q.endCol

\* What growing makes of the first row, and of the other sides.
LEMMA GrownTop ==
  ASSUME NEW t, Indexed(t), NEW q, Spread(q, t.rowsNum, t.colsNum)
  PROVE  LET m == Min({q.beginRow} \union {t.index[<<q.beginRow, c>>].row : c \in q.beginCol..(q.endCol - 1)})
         IN  m \in 1..t.rowsNum /\ m <= q.beginRow /\ (m = q.beginRow => TopFits(t, q))
<1> DEFINE S == {q.beginRow} \union {t.index[<<q.beginRow, c>>].row : c \in q.beginCol..(q.endCol - 1)}
           m == Min(S)
<1>1. t.rowsNum \in Nat /\ t.colsNum \in Nat
  BY DEF Indexed
<1>2. ASSUME NEW c \in q.beginCol..(q.endCol - 1)
      PROVE  t.index[<<q.beginRow, c>>].row \in 1..t.rowsNum /\ t.index[<<q.beginRow, c>>].row \in S
  <2>1. q.beginRow \in 1..t.rowsNum /\ c \in 1..t.colsNum
    BY <1>1 DEF Spread
  <2>2. InTable(t.index[<<q.beginRow, c>>], t.rowsNum, t.colsNum)
    BY <2>1 DEF Indexed
  <2> QED BY <2>2 DEF InTable
<1>3. q.beginRow \in 1..t.rowsNum /\ q.beginRow \in S
  BY DEF Spread
<1>4. S \in SUBSET (1..t.rowsNum) /\ S # {}
  BY <1>2, <1>3
<1> HIDE DEF S
<1>5. m \in S /\ \A x \in S : m <= x
  BY <1>1, <1>4, LeastOf
<1>6. m = q.beginRow => TopFits(t, q)
  BY <1>2, <1>5 DEF TopFits
<1> QED BY <1>3, <1>4, <1>5, <1>6 DEF S

\* The left side of a range grows inside the table, or fits.
LEMMA GrownLeft ==
  ASSUME NEW t, Indexed(t), NEW q, Spread(q, t.rowsNum, t.colsNum)
  PROVE  LET m == Min({q.beginCol} \union {t.index[<<r, q.beginCol>>].col : r \in q.beginRow..(q.endRow - 1)})
         IN  m \in 1..t.colsNum /\ m <= q.beginCol /\ (m = q.beginCol => LeftFits(t, q))
<1> DEFINE S == {q.beginCol} \union {t.index[<<r, q.beginCol>>].col : r \in q.beginRow..(q.endRow - 1)}
           m == Min(S)
<1>1. t.rowsNum \in Nat /\ t.colsNum \in Nat
  BY DEF Indexed
<1>2. ASSUME NEW r \in q.beginRow..(q.endRow - 1)
      PROVE  t.index[<<r, q.beginCol>>].col \in 1..t.colsNum /\ t.index[<<r, q.beginCol>>].col \in S
  <2>1. q.beginCol \in 1..t.colsNum /\ r \in 1..t.rowsNum
    BY <1>1 DEF Spread
  <2>2. InTable(t.index[<<r, q.beginCol>>], t.rowsNum, t.colsNum)
    BY <2>1 DEF Indexed
  <2> QED BY <2>2 DEF InTable
<1>3. q.beginCol \in 1..t.colsNum /\ q.beginCol \in S
  BY DEF Spread
<1>4. S \in SUBSET (1..t.colsNum) /\ S # {}
  BY <1>2, <1>3
<1> HIDE DEF S
<1>5. m \in S /\ \A x \in S : m <= x
  BY <1>1, <1>4, LeastOf
<1>6. m = q.beginCol => LeftFits(t, q)
  BY <1>2, <1>5 DEF LeftFits
<1> QED BY <1>3, <1>4, <1>5, <1>6 DEF S

\* So does its bottom,
LEMMA GrownBottom ==
  ASSUME NEW t, Indexed(t), NEW q, Spread(q, t.rowsNum, t.colsNum)
  PROVE  LET m == Max({q.endRow} \union {t.index[<<q.endRow, c>>].row + t.index[<<q.endRow, c>>].rowSpan - 1 :
                                             c \in q.beginCol..(q.endCol - 1)})
         IN  m \in 1..t.rowsNum /\ q.endRow <= m /\ (m = q.endRow => BottomFits(t, q))
<1> DEFINE S == {q.endRow} \union {t.index[<<q.endRow, c>>].row + t.index[<<q.endRow, c>>].rowSpan - 1 :
                                             c \in q.beginCol..(q.endCol - 1)}
           m == Max(S)
           e(c) == t.index[<<q.endRow, c>>].row + t.index[<<q.endRow, c>>].rowSpan - 1
<1>1. t.rowsNum \in Nat /\ t.colsNum \in Nat
  BY DEF Indexed
<1>2. ASSUME NEW c \in q.beginCol..(q.endCol - 1)
      PROVE  e(c) \in 1..t.rowsNum /\ e(c) \in S
  <2>1. q.endRow \in 1..t.rowsNum /\ c \in 1..t.colsNum
    BY <1>1 DEF Spread
  <2>2. InTable(t.index[<<q.endRow, c>>], t.rowsNum, t.colsNum)
    BY <2>1 DEF Indexed
  <2> QED BY <2>2 DEF InTable
<1>3. q.endRow \in 1..t.rowsNum /\ q.endRow \in S
  BY DEF Spread
<1>4. S \in SUBSET (1..t.rowsNum) /\ S # {}
  BY <1>2, <1>3
<1> HIDE DEF S
<1>5. m \in S /\ \A x \in S : x <= m
  BY <1>1, <1>4, LeastOf
<1>6. m = q.endRow => BottomFits(t, q)
  BY <1>2, <1>5 DEF BottomFits
<1> QED BY <1>3, <1>4, <1>5, <1>6 DEF S

\* and its right side.
LEMMA GrownRight ==
  ASSUME NEW t, Indexed(t), NEW q, Spread(q, t.rowsNum, t.colsNum)
  PROVE  LET m == Max({q.endCol} \union {t.index[<<r, q.endCol>>].col + t.index[<<r, q.endCol>>].colSpan - 1 :
                                             r \in q.beginRow..(q.endRow - 1)})
         IN  m \in 1..t.colsNum /\ q.endCol <= m /\ (m = q.endCol => RightFits(t, q))
<1> DEFINE S == {q.endCol} \union {t.index[<<r, q.endCol>>].col + t.index[<<r, q.endCol>>].colSpan - 1 :
                                             r \in q.beginRow..(q.endRow - 1)}
           m == Max(S)
           e(r) == t.index[<<r, q.endCol>>].col + t.index[<<r, q.endCol>>].colSpan - 1
<1>1. t.rowsNum \in Nat /\ t.colsNum \in Nat
  BY DEF Indexed
<1>2. ASSUME NEW r \in q.beginRow..(q.endRow - 1)
      PROVE  e(r) \in 1..t.colsNum /\ e(r) \in S
  <2>1. q.endCol \in 1..t.colsNum /\ r \in 1..t.rowsNum
    BY <1>1 DEF Spread
  <2>2. InTable(t.index[<<r, q.endCol>>], t.rowsNum, t.colsNum)
    BY <2>1 DEF Indexed
  <2> QED BY <2>2 DEF InTable
<1>3. q.endCol \in 1..t.colsNum /\ q.endCol \in S
  BY DEF Spread
<1>4. S \in SUBSET (1..t.colsNum) /\ S # {}
  BY <1>2, <1>3
<1> HIDE DEF S
<1>5. m \in S /\ \A x \in S : x <= m
  BY <1>1, <1>4, LeastOf
<1>6. m = q.endCol => RightFits(t, q)
  BY <1>2, <1>5 DEF RightFits
<1> QED BY <1>3, <1>4, <1>5, <1>6 DEF S

(* How far the sides of a range are apart.                                 *)
Size(q) == (q.endRow - q.beginRow) + (q.endCol - q.beginCol)

(* Nothing sticks out along the sides.                                     *)
SidesFit(t, q) == TopFits(t, q) /\ LeftFits(t, q) /\ BottomFits(t, q) /\ RightFits(t, q)

\* A range grows in the table, by one at least unless its sides fit.
LEMMA GrownIs ==
  ASSUME NEW t, Indexed(t), NEW q, Ranged(q, t.rowsNum, t.colsNum)
  PROVE  /\ Ranged(Grown(t, q), t.rowsNum, t.colsNum) /\ Size(q) \in Nat
         /\ \/ Grown(t, q) = q /\ SidesFit(t, q)
            \/ Size(Grown(t, q)) >= Size(q) + 1
<1> DEFINE R == t.rowsNum
           C == t.colsNum
           g == Grown(t, q)
           top == Min({q.beginRow} \union {t.index[<<q.beginRow, c>>].row : c \in q.beginCol..(q.endCol - 1)})
           left == Min({q.beginCol} \union {t.index[<<r, q.beginCol>>].col : r \in q.beginRow..(q.endRow - 1)})
           bottom == Max({q.endRow} \union {t.index[<<q.endRow, c>>].row + t.index[<<q.endRow, c>>].rowSpan - 1 :
                                             c \in q.beginCol..(q.endCol - 1)})
           right == Max({q.endCol} \union {t.index[<<r, q.endCol>>].col + t.index[<<r, q.endCol>>].colSpan - 1 :
                                             r \in q.beginRow..(q.endRow - 1)})
<1>1. Spread(q, R, C)
  BY DEF Ranged
<1>2. R \in Nat /\ C \in Nat
  BY DEF Indexed
<1>3. g = [beginRow |-> top, beginCol |-> left, endRow |-> bottom, endCol |-> right]
  BY DEF Grown
<1>4. top \in 1..R /\ top <= q.beginRow /\ (top = q.beginRow => TopFits(t, q))
  BY <1>1, GrownTop
<1>5. left \in 1..C /\ left <= q.beginCol /\ (left = q.beginCol => LeftFits(t, q))
  BY <1>1, GrownLeft
<1>6. bottom \in 1..R /\ q.endRow <= bottom /\ (bottom = q.endRow => BottomFits(t, q))
  BY <1>1, GrownBottom
<1>7. right \in 1..C /\ q.endCol <= right /\ (right = q.endCol => RightFits(t, q))
  BY <1>1, GrownRight
<1> HIDE DEF top, left, bottom, right, g
<1>8. g.beginRow = top /\ g.beginCol = left /\ g.endRow = bottom /\ g.endCol = right
  BY <1>3
<1>9. /\ q.beginRow \in Int /\ q.endRow \in Int /\ q.beginCol \in Int /\ q.endCol \in Int
      /\ q.beginRow <= q.endRow /\ q.beginCol <= q.endCol
  BY <1>1 DEF Spread
<1>10. top \in Int /\ left \in Int /\ bottom \in Int /\ right \in Int /\ top <= bottom /\ left <= right
  BY <1>4, <1>5, <1>6, <1>7, <1>9
<1>11. Ranged(g, R, C)
  <2>1. Spread(g, R, C)
    BY <1>4, <1>5, <1>6, <1>7, <1>8, <1>10 DEF Spread
  <2> QED BY <1>3, <1>8, <2>1 DEF Ranged
<1>12. Size(q) \in Nat
  BY <1>9 DEF Size
<1>13. CASE top = q.beginRow /\ left = q.beginCol /\ bottom = q.endRow /\ right = q.endCol
  <2>1. g = q
    BY <1>3, <1>13 DEF Ranged
  <2> QED BY <1>4, <1>5, <1>6, <1>7, <1>11, <1>12, <1>13, <2>1 DEF SidesFit, g
<1>14. CASE ~(top = q.beginRow /\ left = q.beginCol /\ bottom = q.endRow /\ right = q.endCol)
  <2>1. Size(g) = (bottom - top) + (right - left)
    BY <1>8 DEF Size
  <2>a. top <= q.beginRow /\ left <= q.beginCol /\ q.endRow <= bottom /\ q.endCol <= right
    BY <1>4, <1>5, <1>6, <1>7
  <2>b. top < q.beginRow \/ left < q.beginCol \/ q.endRow < bottom \/ q.endCol < right
    BY <2>a, <1>9, <1>10, <1>14
  <2>2. (bottom - top) + (right - left) >= (q.endRow - q.beginRow) + (q.endCol - q.beginCol) + 1
    BY <2>a, <2>b, <1>9, <1>10
  <2>3. Size(g) >= Size(q) + 1
    BY <2>1, <2>2 DEF Size
  <2> QED BY <1>11, <1>12, <2>3 DEF g
<1> QED BY <1>13, <1>14

\* A range grows no further after as many times as the table has sides to go.
LEMMA CheckedRange ==
  ASSUME NEW t, Indexed(t), NEW q, Ranged(q, t.rowsNum, t.colsNum)
  PROVE  Ranged(checkRange(t, q), t.rowsNum, t.colsNum) /\ SidesFit(t, checkRange(t, q))
<1> DEFINE R == t.rowsNum
           C == t.colsNum
           most == t.rowsNum + t.colsNum
           Good(f, n) == f = [k \in 0..n |-> IF k = 0 THEN q ELSE Grown(t, f[k - 1])]
           grow == CHOOSE f : Good(f, most)
<1>1. checkRange(t, q) = grow[most]
  BY DEF checkRange
<1>2. R \in Nat /\ C \in Nat /\ most \in Nat
  BY DEF Indexed
<1>3. \A n \in Nat : \E f : Good(f, n)
  <2> DEFINE all == {n \in Nat : \E f : Good(f, n)}
  <2>1. 0 \in all
    <3> DEFINE f == [k \in 0..0 |-> q]
    <3>1. f = [k \in 0..0 |-> IF k = 0 THEN q ELSE Grown(t, f[k - 1])]
      OBVIOUS
    <3> HIDE DEF f
    <3> QED BY <3>1
  <2>2. ASSUME NEW n \in Nat, n \in all
        PROVE  n + 1 \in all
    <3>1. PICK f : f = [k \in 0..n |-> IF k = 0 THEN q ELSE Grown(t, f[k - 1])]
      BY <2>2
    <3> DEFINE e == Grown(t, f[n])
               g == [k \in 0..(n + 1) |-> IF k = n + 1 THEN e ELSE f[k]]
    <3>2. \A k \in 0..n : k \in 0..(n + 1) /\ k # n + 1 /\ g[k] = f[k]
      OBVIOUS
    <3>3. n + 1 \in 0..(n + 1) /\ n \in 0..n /\ n + 1 # 0 /\ g[n + 1] = e /\ (n + 1) - 1 = n
      OBVIOUS
    <3>4. \A k \in 0..n : f[k] = IF k = 0 THEN q ELSE Grown(t, f[k - 1])
      BY <3>1
    <3>5. g = [k \in 0..(n + 1) |-> g[k]]
      OBVIOUS
    <3> HIDE DEF g
    <3>6. ASSUME NEW k \in 0..(n + 1)
          PROVE  g[k] = IF k = 0 THEN q ELSE Grown(t, g[k - 1])
      <4>1. CASE k = n + 1
        <5>1. g[n] = f[n]
          BY <3>2, <3>3
        <5> QED BY <3>3, <4>1, <5>1
      <4>2. CASE k # n + 1
        <5>1. k \in 0..n /\ (k # 0 => k - 1 \in 0..n)
          BY <4>2
        <5>2. g[k] = f[k] /\ (k # 0 => g[k - 1] = f[k - 1])
          BY <3>2, <5>1
        <5> HIDE DEF e
        <5> QED BY <3>4, <5>1, <5>2
      <4> QED BY <4>1, <4>2
    <3>7. Good(g, n + 1)
      BY <3>5, <3>6
    <3> HIDE DEF Good
    <3> QED BY <3>7
  <2>3. Nat \subseteq all
    <3> HIDE DEF all
    <3> QED BY <2>1, <2>2, NatInSet
  <2> QED BY <2>3
<1> HIDE DEF grow
<1>4. \A k \in 0..most : grow[k] = IF k = 0 THEN q ELSE Grown(t, grow[k - 1])
  <2>1. Good(grow, most)
    <3> HIDE DEF Good
    <3> QED BY <1>2, <1>3 DEF grow
  <2> QED BY <2>1
<1> HIDE DEF Good, most
<1> DEFINE ok == {n \in Nat : n <= most => /\ Ranged(grow[n], R, C)
                                           /\ \/ Grown(t, grow[n]) = grow[n] /\ SidesFit(t, grow[n])
                                              \/ Size(grow[n]) >= n}
<1>5. 0 \in ok
  <2>1. grow[0] = q
    BY <1>2, <1>4
  <2>2. Size(q) \in Nat
    BY GrownIs
  <2> QED BY <2>1, <2>2
<1>6. ASSUME NEW n \in Nat, n \in ok
      PROVE  n + 1 \in ok
  <2> SUFFICES ASSUME n + 1 <= most
               PROVE  /\ Ranged(grow[n + 1], R, C)
                      /\ \/ Grown(t, grow[n + 1]) = grow[n + 1] /\ SidesFit(t, grow[n + 1])
                         \/ Size(grow[n + 1]) >= n + 1
    OBVIOUS
  <2> DEFINE g == grow[n]
             h == grow[n + 1]
  <2>1. n <= most
    BY <1>2
  <2>2. Ranged(g, R, C) /\ ((Grown(t, g) = g /\ SidesFit(t, g)) \/ Size(g) >= n)
    BY <1>6, <2>1
  <2>3. h = Grown(t, g)
    <3>1. n + 1 \in 0..most /\ n + 1 # 0 /\ (n + 1) - 1 = n
      BY <1>2
    <3> QED BY <1>4, <3>1
  <2> HIDE DEF g, h
  <2>4. /\ Ranged(h, R, C) /\ Size(g) \in Nat
        /\ ((Grown(t, g) = g /\ SidesFit(t, g)) \/ Size(h) >= Size(g) + 1)
    BY <2>2, <2>3, GrownIs
  <2>5. CASE Grown(t, g) = g /\ SidesFit(t, g)
    BY <2>2, <2>3, <2>5 DEF h
  <2>6. CASE ~(Grown(t, g) = g /\ SidesFit(t, g))
    <3>1. Size(g) >= n /\ Size(h) >= Size(g) + 1 /\ Size(h) \in Nat
      BY <2>2, <2>4, <2>6, GrownIs
    <3>2. Size(h) >= n + 1
      BY <2>4, <3>1
    <3> QED BY <2>4, <3>2 DEF h
  <2> QED BY <2>5, <2>6
<1>7. most \in ok
  <2> HIDE DEF ok
  <2> QED BY <1>2, <1>5, <1>6, NatInSet
<1>8. Ranged(grow[most], R, C) /\ (SidesFit(t, grow[most]) \/ Size(grow[most]) >= most)
  BY <1>2, <1>7
<1>9. ~(Size(grow[most]) >= most)
  <2> DEFINE g == grow[most]
  <2>1. Spread(g, R, C)
    BY <1>8 DEF Ranged
  <2> HIDE DEF g
  <2>2. g.beginRow \in 1..R /\ g.endRow \in 1..R /\ g.beginCol \in 1..C /\ g.endCol \in 1..C
    BY <2>1 DEF Spread
  <2>3. (g.endRow - g.beginRow) + (g.endCol - g.beginCol) < R + C
    BY <1>2, <2>2
  <2>4. Size(g) < most /\ Size(g) \in Int /\ most \in Int
    BY <1>2, <2>2, <2>3 DEF Size, most
  <2> QED BY <2>4 DEF g
<1> QED BY <1>1, <1>8, <1>9

\* The range from one cell to another.
LEMMA CellsRangeIs ==
  ASSUME NEW t, Indexed(t), NEW p \in Places(t.rows), NEW q \in Places(t.rows)
  PROVE  Ranged(getCellsRange(t, p, q), t.rowsNum, t.colsNum) /\ SidesFit(t, getCellsRange(t, p, q))
<1> DEFINE R == t.rowsNum
           C == t.colsNum
           a == InfoOf(t, p)
           b == InfoOf(t, q)
           top == Min({e.row : e \in {a, b}})
           left == Min({e.col : e \in {a, b}})
           bottom == Max({e.row + e.rowSpan - 1 : e \in {a, b}})
           right == Max({e.col + e.colSpan - 1 : e \in {a, b}})
           g == [beginRow |-> top, beginCol |-> left, endRow |-> bottom, endCol |-> right]
<1>1. R \in Nat /\ C \in Nat
  BY DEF Indexed
<1>2. InTable(a, R, C) /\ InTable(b, R, C)
  BY EntryOf DEF InfoOf
<1>3. getCellsRange(t, p, q) = checkRange(t, g)
  BY DEF getCellsRange
<1> HIDE DEF a, b, R, C
<1>4. /\ a.row \in 1..R /\ a.col \in 1..C /\ a.row + a.rowSpan - 1 \in 1..R /\ a.col + a.colSpan - 1 \in 1..C
      /\ b.row \in 1..R /\ b.col \in 1..C /\ b.row + b.rowSpan - 1 \in 1..R /\ b.col + b.colSpan - 1 \in 1..C
      /\ a.row <= a.row + a.rowSpan - 1 /\ a.col <= a.col + a.colSpan - 1
  BY <1>1, <1>2 DEF InTable
<1>5. top \in 1..R /\ top <= a.row
  <2> DEFINE S == {e.row : e \in {a, b}}
  <2>1. S \in SUBSET (1..R) /\ S # {} /\ a.row \in S
    BY <1>4
  <2> HIDE DEF S
  <2>2. Min(S) \in S /\ \A x \in S : Min(S) <= x
    BY <1>1, <2>1, LeastOf
  <2> QED BY <2>1, <2>2 DEF S
<1>6. left \in 1..C /\ left <= a.col
  <2> DEFINE S == {e.col : e \in {a, b}}
  <2>1. S \in SUBSET (1..C) /\ S # {} /\ a.col \in S
    BY <1>4
  <2> HIDE DEF S
  <2>2. Min(S) \in S /\ \A x \in S : Min(S) <= x
    BY <1>1, <2>1, LeastOf
  <2> QED BY <2>1, <2>2 DEF S
<1>7. bottom \in 1..R /\ a.row + a.rowSpan - 1 <= bottom
  <2> DEFINE S == {e.row + e.rowSpan - 1 : e \in {a, b}}
  <2>1. S \in SUBSET (1..R) /\ S # {} /\ a.row + a.rowSpan - 1 \in S
    BY <1>4
  <2> HIDE DEF S
  <2>2. Max(S) \in S /\ \A x \in S : x <= Max(S)
    BY <1>1, <2>1, LeastOf
  <2> QED BY <2>1, <2>2 DEF S
<1>8. right \in 1..C /\ a.col + a.colSpan - 1 <= right
  <2> DEFINE S == {e.col + e.colSpan - 1 : e \in {a, b}}
  <2>1. S \in SUBSET (1..C) /\ S # {} /\ a.col + a.colSpan - 1 \in S
    BY <1>4
  <2> HIDE DEF S
  <2>2. Max(S) \in S /\ \A x \in S : x <= Max(S)
    BY <1>1, <2>1, LeastOf
  <2> QED BY <2>1, <2>2 DEF S
<1> HIDE DEF top, left, bottom, right
<1>9. top <= bottom /\ left <= right
  BY <1>1, <1>4, <1>5, <1>6, <1>7, <1>8
<1>10. Ranged(g, R, C)
  <2>1. g.beginRow = top /\ g.beginCol = left /\ g.endRow = bottom /\ g.endCol = right
    OBVIOUS
  <2>2. g = [beginRow |-> g.beginRow, beginCol |-> g.beginCol, endRow |-> g.endRow, endCol |-> g.endCol]
    OBVIOUS
  <2> HIDE DEF g
  <2>3. Spread(g, R, C)
    BY <1>5, <1>6, <1>7, <1>8, <1>9, <2>1 DEF Spread
  <2> QED BY <2>2, <2>3 DEF Ranged
<1> HIDE DEF g
<1> QED BY <1>3, <1>10, CheckedRange DEF R, C

\* What sticks out of a range whose sides fit is in its last row or column.
LEMMA SticksOutAtEdge ==
  ASSUME NEW t, Tiled(t), NEW q, Spread(q, t.rowsNum, t.colsNum), SidesFit(t, q),
         NEW pos \in Positions(q), SticksOut(t.index[pos], q)
  PROVE  pos[1] = q.endRow \/ pos[2] = q.endCol
<1> DEFINE R == t.rowsNum
           C == t.colsNum
<1>1. PICK r \in q.beginRow..q.endRow, c \in q.beginCol..q.endCol : pos = <<r, c>>
  BY DEF Positions
<1>2. SUFFICES ASSUME r # q.endRow, c # q.endCol
               PROVE  FALSE
  BY <1>1
<1>3. /\ q.beginRow \in 1..R /\ q.endRow \in 1..R /\ q.beginCol \in 1..C /\ q.endCol \in 1..C
  BY DEF Spread
<1>4. R \in Nat /\ C \in Nat
  BY TiledIndexed DEF Indexed
<1>5. r \in 1..R /\ c \in 1..C /\ r \in q.beginRow..(q.endRow - 1) /\ c \in q.beginCol..(q.endCol - 1)
  BY <1>2, <1>3, <1>4
<1> DEFINE j == t.index[<<r, c>>]
<1>6. CoversAt(t, j, r, c)
  BY <1>5, TiledAt
<1>7. /\ j.row \in Int /\ j.col \in Int /\ j.rowSpan \in Int /\ j.colSpan \in Int
      /\ 1 <= j.row /\ 1 <= j.col /\ j.row <= r /\ j.col <= c
      /\ r < j.row + j.rowSpan /\ c < j.col + j.colSpan
      /\ j.row + j.rowSpan <= R + 1 /\ j.col + j.colSpan <= C + 1
  BY <1>5, <1>6 DEF CoversAt
<1>8. \A x \in j.row..(j.row + j.rowSpan - 1), y \in j.col..(j.col + j.colSpan - 1) : t.index[<<x, y>>] = j
  BY <1>6 DEF CoversAt
<1>9. SticksOut(j, q)
  BY <1>1
<1> HIDE DEF j, R, C
<1>10. CASE j.row < q.beginRow
  <2>1. q.beginRow \in j.row..(j.row + j.rowSpan - 1) /\ c \in j.col..(j.col + j.colSpan - 1)
    BY <1>3, <1>4, <1>5, <1>7, <1>10
  <2>2. t.index[<<q.beginRow, c>>] = j
    BY <1>8, <2>1
  <2>3. q.beginRow <= j.row
    BY <1>5, <2>2 DEF SidesFit, TopFits
  <2> QED BY <1>3, <1>7, <1>10, <2>3
<1>11. CASE j.col < q.beginCol
  <2>1. r \in j.row..(j.row + j.rowSpan - 1) /\ q.beginCol \in j.col..(j.col + j.colSpan - 1)
    BY <1>3, <1>4, <1>5, <1>7, <1>11
  <2>2. t.index[<<r, q.beginCol>>] = j
    BY <1>8, <2>1
  <2>3. q.beginCol <= j.col
    BY <1>5, <2>2 DEF SidesFit, LeftFits
  <2> QED BY <1>3, <1>7, <1>11, <2>3
<1>12. CASE j.row + j.rowSpan - 1 > q.endRow
  <2>1. q.endRow \in j.row..(j.row + j.rowSpan - 1) /\ c \in j.col..(j.col + j.colSpan - 1)
    BY <1>3, <1>4, <1>5, <1>7, <1>12
  <2>2. t.index[<<q.endRow, c>>] = j
    BY <1>8, <2>1
  <2>3. j.row + j.rowSpan - 1 <= q.endRow
    BY <1>5, <2>2 DEF SidesFit, BottomFits
  <2> QED BY <1>3, <1>7, <1>12, <2>3
<1>13. CASE j.col + j.colSpan - 1 > q.endCol
  <2>1. r \in j.row..(j.row + j.rowSpan - 1) /\ q.endCol \in j.col..(j.col + j.colSpan - 1)
    BY <1>3, <1>4, <1>5, <1>7, <1>13
  <2>2. t.index[<<r, q.endCol>>] = j
    BY <1>8, <2>1
  <2>3. j.col + j.colSpan - 1 <= q.endCol
    BY <1>5, <2>2 DEF SidesFit, RightFits
  <2> QED BY <1>3, <1>7, <1>13, <2>3
<1> QED BY <1>9, <1>10, <1>11, <1>12, <1>13 DEF SticksOut

(* The cell that the index gives for a position, and that it is in the     *)
(* table's rows with the same spans.                                       *)
SpansOf(j, cell) ==
    /\ "rowSpan" \in DOMAIN cell /\ "colSpan" \in DOMAIN cell
    /\ j.rowSpan = cell.rowSpan /\ j.colSpan = cell.colSpan

EntryAt(t, r, c) ==
    LET j == t.index[<<r, c>>]
    IN  /\ InTable(j, t.rowsNum, t.colsNum)
        /\ j.row \in DOMAIN t.rows /\ j.cell \in DOMAIN t.rows[j.row] /\ SpansOf(j, t.rows[j.row][j.cell])
        /\ j.row <= r /\ r <= j.row + j.rowSpan - 1 /\ j.col <= c /\ c <= j.col + j.colSpan - 1

OneEntry(t) ==
    \A r, x \in 1..t.rowsNum, c, y \in 1..t.colsNum :
        t.index[<<r, c>>].row = t.index[<<x, y>>].row /\ t.index[<<r, c>>].cell = t.index[<<x, y>>].cell =>
            t.index[<<r, c>>] = t.index[<<x, y>>]

(* What a tiled table keeps of that when cells are filled or emptied and   *)
(* rows change places: every position has its cell, every cell an entry.   *)
Regular(t) ==
    /\ Indexed(t) /\ OneEntry(t) /\ DOMAIN t.rows = 1..t.rowsNum
    /\ \A r \in 1..t.rowsNum, c \in 1..t.colsNum : EntryAt(t, r, c)

\* A tiled table is regular.
LEMMA TiledRegular ==
  ASSUME NEW t, Tiled(t)
  PROVE  Regular(t)
<1>1. t.rows \in Seq(Seq(Cell)) /\ t.rowsNum = Len(t.rows)
  BY DEF Tiled
<1>2. Indexed(t)
  BY TiledIndexed
<1>3. ASSUME NEW r \in 1..t.rowsNum, NEW c \in 1..t.colsNum
      PROVE  EntryAt(t, r, c) /\ t.index[<<r, c>>].row \in 1..t.rowsNum
             /\ t.index[<<r, c>>].cell \in 1..Len(t.rows[t.index[<<r, c>>].row])
  <2> DEFINE j == t.index[<<r, c>>]
  <2>1. InTable(j, t.rowsNum, t.colsNum)
    BY <1>2 DEF Indexed
  <2>2. CoversAt(t, j, r, c)
    BY TiledAt
  <2> HIDE DEF j
  <2>3. /\ j.row \in 1..r /\ j.col \in 1..c /\ j.row \in 1..t.rowsNum /\ j.cell \in 1..Len(t.rows[j.row])
        /\ j.rowSpan = t.rows[j.row][j.cell].rowSpan /\ j.colSpan = t.rows[j.row][j.cell].colSpan
        /\ t.rows[j.row][j.cell] \in Cell
        /\ j.rowSpan \in Nat /\ j.colSpan \in Nat
        /\ r < j.row + j.rowSpan /\ c < j.col + j.colSpan
    BY <2>2 DEF CoversAt, CellOf
  <2>4. j.row \in DOMAIN t.rows /\ j.cell \in DOMAIN t.rows[j.row]
    BY <1>1, <2>3, RowsTyped
  <2>a. r \in Int /\ c \in Int /\ j.row \in Int /\ j.col \in Int /\ j.row <= r /\ j.col <= c
    BY <2>3
  <2>b. j.rowSpan \in Int /\ j.colSpan \in Int /\ r < j.row + j.rowSpan /\ c < j.col + j.colSpan
    BY <2>3
  <2>5. j.row <= r /\ r <= j.row + j.rowSpan - 1 /\ j.col <= c /\ c <= j.col + j.colSpan - 1
    BY <2>a, <2>b
  <2>6. SpansOf(j, t.rows[j.row][j.cell])
    <3> DEFINE x == t.rows[j.row][j.cell]
    <3>1. x \in Cell
      BY <2>3
    <3> HIDE DEF x
    <3>2. "rowSpan" \in DOMAIN x /\ "colSpan" \in DOMAIN x
      BY <3>1 DEF Cell
    <3> QED BY <2>3, <3>2 DEF SpansOf, x
  <2> QED BY <2>1, <2>3, <2>4, <2>5, <2>6 DEF EntryAt, j
<1>4. ASSUME NEW r \in 1..t.rowsNum, NEW x \in 1..t.rowsNum, NEW c \in 1..t.colsNum, NEW y \in 1..t.colsNum,
             t.index[<<r, c>>].row = t.index[<<x, y>>].row, t.index[<<r, c>>].cell = t.index[<<x, y>>].cell
      PROVE  t.index[<<r, c>>] = t.index[<<x, y>>]
  <2> DEFINE a == t.index[<<r, c>>].row
             i == t.index[<<r, c>>].cell
  <2>1. a \in 1..t.rowsNum /\ i \in 1..Len(t.rows[a])
    BY <1>3
  <2>2. t.index[<<x, y>>].row = a /\ t.index[<<x, y>>].cell = i
    BY <1>4
  <2>3. \A u \in 1..t.rowsNum, w \in 1..t.colsNum :
           t.index[<<u, w>>].row = a /\ t.index[<<u, w>>].cell = i => t.index[<<u, w>>] = InfoOf(t, <<a, i>>)
    <3> HIDE DEF a, i
    <3> QED BY <2>1, TiledPlace
  <2>4. t.index[<<r, c>>] = InfoOf(t, <<a, i>>)
    BY <2>3
  <2>5. t.index[<<x, y>>] = InfoOf(t, <<a, i>>)
    BY <2>2, <2>3
  <2> QED BY <2>4, <2>5
<1>5. OneEntry(t)
  BY <1>4 DEF OneEntry
<1>6. \A r \in 1..t.rowsNum, c \in 1..t.colsNum : EntryAt(t, r, c)
  BY <1>3
<1>7. DOMAIN t.rows = 1..t.rowsNum
  BY <1>1, RowsTyped
<1> QED BY <1>2, <1>5, <1>6, <1>7 DEF Regular

(* Two tables with the same cells, but for what is in them.                *)
SameSpans(a, b) ==
    /\ DOMAIN a = DOMAIN b
    /\ \A r \in DOMAIN a : /\ DOMAIN a[r] = DOMAIN b[r]
                           /\ \A i \in DOMAIN a[r] : \A j : SpansOf(j, b[r][i]) => SpansOf(j, a[r][i])

SameIndex(t, u) == t.index = u.index /\ t.rowsNum = u.rowsNum /\ t.colsNum = u.colsNum

\* A table with the same cells is regular, too.
LEMMA RegularSame ==
  ASSUME NEW t, NEW u, Regular(u), SameIndex(t, u), SameSpans(t.rows, u.rows)
  PROVE  Regular(t)
<1>1. t.index = u.index /\ t.rowsNum = u.rowsNum /\ t.colsNum = u.colsNum
  BY DEF SameIndex
<1>2. DOMAIN t.rows = DOMAIN u.rows /\ \A r \in DOMAIN t.rows : DOMAIN t.rows[r] = DOMAIN u.rows[r]
  BY DEF SameSpans
<1>3. Places(t.rows) = Places(u.rows)
  BY <1>2 DEF Places
<1>4. Indexed(t)
  BY <1>1, <1>2, <1>3 DEF Regular, Indexed
<1>5. OneEntry(t)
  BY <1>1 DEF Regular, OneEntry
<1>6. ASSUME NEW r \in 1..t.rowsNum, NEW c \in 1..t.colsNum
      PROVE  EntryAt(t, r, c)
  <2> DEFINE j == t.index[<<r, c>>]
  <2>1. EntryAt(u, r, c) /\ u.index[<<r, c>>] = j
    BY <1>1 DEF Regular
  <2>2. /\ InTable(j, t.rowsNum, t.colsNum)
        /\ j.row \in DOMAIN u.rows /\ j.cell \in DOMAIN u.rows[j.row] /\ SpansOf(j, u.rows[j.row][j.cell])
        /\ j.row <= r /\ r <= j.row + j.rowSpan - 1 /\ j.col <= c /\ c <= j.col + j.colSpan - 1
    BY <1>1, <2>1 DEF EntryAt
  <2> HIDE DEF j
  <2>3. SpansOf(j, t.rows[j.row][j.cell])
    BY <1>2, <2>2 DEF SameSpans
  <2> QED BY <1>2, <2>2, <2>3 DEF EntryAt, j
<1>7. DOMAIN t.rows = 1..t.rowsNum
  BY <1>1, <1>2 DEF Regular
<1> QED BY <1>4, <1>5, <1>6, <1>7 DEF Regular

(* No cell has a span.                                                     *)
AllSingle(rows) == \A p \in Places(rows) : rows[p[1]][p[2]].rowSpan = 1 /\ rows[p[1]][p[2]].colSpan = 1

\* Then every row has a cell for each column.
LEMMA SingleRows ==
  ASSUME NEW u, Regular(u), AllSingle(u.rows), NEW r \in 1..u.rowsNum
  PROVE  DOMAIN u.rows[r] = 1..u.colsNum
<1> DEFINE C == u.colsNum
           at == [c \in 1..C |-> u.index[<<r, c>>].cell]
<1>1. C \in Nat /\ \E n \in Nat : DOMAIN u.rows[r] = 1..n
  BY DEF Regular, Indexed
<1>2. PICK n \in Nat : DOMAIN u.rows[r] = 1..n
  BY <1>1
<1>3. ASSUME NEW x \in 1..u.rowsNum, NEW c \in 1..C
      PROVE  u.index[<<x, c>>].row = x /\ u.index[<<x, c>>].col = c /\ u.index[<<x, c>>].cell \in DOMAIN u.rows[x]
  <2> DEFINE j == u.index[<<x, c>>]
  <2>1. EntryAt(u, x, c)
    BY DEF Regular
  <2>2. /\ InTable(j, u.rowsNum, u.colsNum)
        /\ j.row \in DOMAIN u.rows /\ j.cell \in DOMAIN u.rows[j.row] /\ SpansOf(j, u.rows[j.row][j.cell])
        /\ j.row <= x /\ x <= j.row + j.rowSpan - 1 /\ j.col <= c /\ c <= j.col + j.colSpan - 1
    BY <2>1 DEF EntryAt
  <2> HIDE DEF j
  <2>3. <<j.row, j.cell>> \in Places(u.rows)
    BY <2>2 DEF Places
  <2>4. u.rows[j.row][j.cell].rowSpan = 1 /\ u.rows[j.row][j.cell].colSpan = 1
    BY <2>3 DEF AllSingle
  <2>5. j.rowSpan = 1 /\ j.colSpan = 1
    BY <2>2, <2>4 DEF SpansOf
  <2>6. u.rowsNum \in Nat
    BY DEF Regular, Indexed
  <2>7. j.row \in Int /\ j.col \in Int /\ x \in Int /\ c \in Int
    BY <1>1, <2>2, <2>6 DEF InTable
  <2>8. j.row = x /\ j.col = c
    BY <2>2, <2>5, <2>7
  <2> QED BY <2>2, <2>8 DEF j
<1>4. at \in [1..C -> 1..n]
  BY <1>2, <1>3
<1>5. \A c, d \in 1..C : at[c] = at[d] => c = d
  <2> SUFFICES ASSUME NEW c \in 1..C, NEW d \in 1..C, at[c] = at[d]
               PROVE  c = d
    OBVIOUS
  <2>1. u.index[<<r, c>>] = u.index[<<r, d>>]
    <3>1. u.index[<<r, c>>].row = u.index[<<r, d>>].row /\ u.index[<<r, c>>].cell = u.index[<<r, d>>].cell
      BY <1>3
    <3> QED BY <3>1 DEF Regular, OneEntry
  <2> QED BY <1>3, <2>1
<1>6. \A i \in 1..n : \E c \in 1..C : at[c] = i
  <2> TAKE i \in 1..n
  <2>1. <<r, i>> \in Places(u.rows)
    BY <1>2 DEF Places, Regular
  <2>2. PICK x \in 1..u.rowsNum, c \in 1..C : u.index[<<x, c>>].row = r /\ u.index[<<x, c>>].cell = i
    <3>1. \E x \in 1..u.rowsNum, c \in 1..u.colsNum :
             u.index[<<x, c>>].row = <<r, i>>[1] /\ u.index[<<x, c>>].cell = <<r, i>>[2]
      BY <2>1 DEF Regular, Indexed
    <3> QED BY <3>1
  <2>3. x = r
    BY <1>3, <2>2
  <2> QED BY <2>2, <2>3
<1> HIDE DEF at
<1>7. at \in Bijection(1..C, 1..n)
  <2>1. at \in Injection(1..C, 1..n)
    BY <1>4, <1>5 DEF Injection, IsInjective
  <2>2. at \in Surjection(1..C, 1..n)
    BY <1>4, <1>6 DEF Surjection
  <2> QED BY <2>1, <2>2 DEF Bijection
<1>8. IsFiniteSet(1..C) /\ Cardinality(1..C) = C /\ Cardinality(1..n) = n
  <2>1. 1 \in Int /\ C \in Int /\ n \in Int
    BY <1>1
  <2>2. /\ IsFiniteSet(1..C) /\ Cardinality(1..C) = (IF 1 > C THEN 0 ELSE C - 1 + 1)
        /\ Cardinality(1..n) = (IF 1 > n THEN 0 ELSE n - 1 + 1)
    BY <2>1, FS_Interval
  <2> QED BY <1>1, <2>2
<1>9. n = C
  <2>1. ExistsBijection(1..C, 1..n)
    BY <1>7 DEF ExistsBijection
  <2> QED BY <1>8, <2>1, FS_Bijection
<1> QED BY <1>2, <1>9

\* The place of a cell.
LEMMA PlaceOf ==
  ASSUME NEW rows, NEW r \in DOMAIN rows, NEW i \in DOMAIN rows[r]
  PROVE  <<r, i>> \in Places(rows)
BY DEF Places

(* The rows of a table after they changed places.                          *)
Sorted(rows, before, order, sorted) ==
    /\ rows = [r \in DOMAIN before |-> before[IF r \in sorted THEN order[r] ELSE r]]
    /\ sorted \subseteq DOMAIN before /\ order \in [sorted -> sorted]
    /\ \A r \in sorted : \E k \in sorted : order[k] = r

\* If it is regular then, it was before.
LEMMA RegularSorted ==
  ASSUME NEW t, NEW u, Regular(u), SameIndex(t, u), AllSingle(t.rows),
         NEW order, NEW sorted, Sorted(u.rows, t.rows, order, sorted)
  PROVE  Regular(t)
<1> DEFINE R == t.rowsNum
           C == t.colsNum
<1>1. t.index = u.index /\ u.rowsNum = R /\ u.colsNum = C
  BY DEF SameIndex
<1>2. /\ DOMAIN u.rows = DOMAIN t.rows /\ sorted \subseteq DOMAIN t.rows
      /\ \A r \in DOMAIN t.rows : u.rows[r] = t.rows[IF r \in sorted THEN order[r] ELSE r]
      /\ \A r \in sorted : order[r] \in sorted /\ \E k \in sorted : order[k] = r
  BY DEF Sorted
<1>3. DOMAIN t.rows = 1..R
  BY <1>1, <1>2 DEF Regular
<1>4. \A r \in 1..R : \E x \in 1..R : u.rows[r] = t.rows[x]
  BY <1>2, <1>3
<1>5. \A x \in 1..R : \E r \in 1..R : u.rows[r] = t.rows[x]
  BY <1>2, <1>3
<1>6. AllSingle(u.rows)
  <2> SUFFICES ASSUME NEW p \in Places(u.rows)
               PROVE  u.rows[p[1]][p[2]].rowSpan = 1 /\ u.rows[p[1]][p[2]].colSpan = 1
    BY DEF AllSingle
  <2>1. PICK r \in DOMAIN u.rows : p \in {r} \X (DOMAIN u.rows[r])
    BY DEF Places
  <2>2. PICK x \in 1..R : u.rows[r] = t.rows[x]
    BY <1>2, <1>3, <1>4, <2>1
  <2>3. <<x, p[2]>> \in Places(t.rows)
    BY <1>3, <2>1, <2>2 DEF Places
  <2>4. t.rows[x][p[2]].rowSpan = 1 /\ t.rows[x][p[2]].colSpan = 1
    BY <2>3 DEF AllSingle
  <2> QED BY <2>1, <2>2, <2>4
<1>7. \A r \in 1..R : DOMAIN u.rows[r] = 1..C
  BY <1>1, <1>6, SingleRows
<1>8. \A x \in 1..R : DOMAIN t.rows[x] = 1..C
  BY <1>5, <1>7
<1>9. Places(t.rows) = Places(u.rows)
  BY <1>2, <1>3, <1>7, <1>8 DEF Places
<1>10. C \in Nat
  BY <1>1 DEF Regular, Indexed
<1>11. Indexed(t)
  BY <1>1, <1>3, <1>8, <1>9, <1>10 DEF Regular, Indexed
<1>12. OneEntry(t)
  BY <1>1 DEF Regular, OneEntry
<1>13. ASSUME NEW x \in 1..R, NEW i \in 1..C
       PROVE  "rowSpan" \in DOMAIN t.rows[x][i] /\ "colSpan" \in DOMAIN t.rows[x][i]
              /\ t.rows[x][i].rowSpan = 1 /\ t.rows[x][i].colSpan = 1
  <2>1. PICK k \in 1..R : u.rows[k] = t.rows[x]
    BY <1>5
  <2>2. <<k, i>> \in Places(u.rows)
    <3>1. k \in DOMAIN u.rows /\ DOMAIN u.rows[k] = 1..C
      BY <1>2, <1>3, <1>7
    <3>2. i \in DOMAIN u.rows[k]
      BY <3>1
    <3> QED BY <3>1, <3>2, PlaceOf
  <2>3. PICK r \in 1..R, c \in 1..C : u.index[<<r, c>>].row = k /\ u.index[<<r, c>>].cell = i
    <3>1. \E r \in 1..u.rowsNum, c \in 1..u.colsNum :
             u.index[<<r, c>>].row = <<k, i>>[1] /\ u.index[<<r, c>>].cell = <<k, i>>[2]
      BY <2>2 DEF Regular, Indexed
    <3> QED BY <1>1, <3>1
  <2>4. EntryAt(u, r, c)
    BY <1>1 DEF Regular
  <2>5. "rowSpan" \in DOMAIN u.rows[k][i] /\ "colSpan" \in DOMAIN u.rows[k][i]
    BY <2>3, <2>4 DEF EntryAt, SpansOf
  <2>6. <<x, i>> \in Places(t.rows)
    <3>1. x \in DOMAIN t.rows /\ i \in DOMAIN t.rows[x]
      BY <1>3, <1>8
    <3> QED BY <3>1, PlaceOf
  <2>7. t.rows[x][i].rowSpan = 1 /\ t.rows[x][i].colSpan = 1
    BY <2>6 DEF AllSingle
  <2> QED BY <2>1, <2>5, <2>7
<1>14. ASSUME NEW r \in 1..R, NEW c \in 1..C
       PROVE  EntryAt(t, r, c)
  <2> DEFINE j == t.index[<<r, c>>]
  <2>1. EntryAt(u, r, c) /\ u.index[<<r, c>>] = j
    BY <1>1 DEF Regular
  <2>2. /\ InTable(j, R, C)
        /\ j.row \in DOMAIN u.rows /\ j.cell \in DOMAIN u.rows[j.row] /\ SpansOf(j, u.rows[j.row][j.cell])
        /\ j.row <= r /\ r <= j.row + j.rowSpan - 1 /\ j.col <= c /\ c <= j.col + j.colSpan - 1
    BY <1>1, <2>1 DEF EntryAt
  <2> HIDE DEF j
  <2>3. j.row \in 1..R /\ j.cell \in 1..C
    BY <1>2, <1>3, <1>7, <2>2
  <2>4. <<j.row, j.cell>> \in Places(u.rows)
    BY <2>2 DEF Places
  <2>5. j.rowSpan = 1 /\ j.colSpan = 1
    BY <1>6, <2>2, <2>4 DEF AllSingle, SpansOf
  <2>6. SpansOf(j, t.rows[j.row][j.cell])
    BY <1>13, <2>3, <2>5 DEF SpansOf
  <2> QED BY <1>3, <1>8, <2>2, <2>3, <2>6 DEF EntryAt, j
<1> QED BY <1>3, <1>11, <1>12, <1>14 DEF Regular

(* A table with its fields, and one that an operation leaves behind: built     *)
(* again, or ended with an exception.                                      *)
TableRec(u) == DOMAIN u = {"rows", "index", "rowsNum", "colsNum", "cellsRange", "state"}

Rebuilds(u) == TableRec(u) /\ u.state = "ready" /\ u.cellsRange = RangeOfMarked(u.rows, u.index)

Settled(u) == Rebuilds(u) \/ (TableRec(u) /\ u.state = "thrown")

\* update() builds the index and the selection.
LEMMA UpdateRebuilds ==
  ASSUME NEW rows
  PROVE  Rebuilds(update(rows))
<1> DEFINE rowsNum == getMaxRows(rows)
           colsNum == getMaxCols(rows)
           full == [r \in 1..rowsNum |-> IF r \in DOMAIN rows THEN rows[r] ELSE <<>>]
           filled == FillIndex(full)
           whole == WithMissing(full, filled, colsNum)
           index == IndexWithMissing(full, filled, colsNum)
           range == RangeOfMarked(whole, index)
<1>1. update(rows) = [rows |-> whole, index |-> index, rowsNum |-> rowsNum, colsNum |-> colsNum,
                      cellsRange |-> range, state |-> "ready"]
  BY DEF update
<1>2. range = RangeOfMarked(whole, index)
  OBVIOUS
<1> HIDE DEF rowsNum, colsNum, full, filled, whole, index, range
<1> DEFINE u == update(rows)
<1>3. /\ u.rows = whole /\ u.index = index /\ u.rowsNum = rowsNum /\ u.colsNum = colsNum
      /\ u.cellsRange = range /\ u.state = "ready"
  BY <1>1
<1>4. TableRec(u)
  BY <1>1, <1>3 DEF TableRec
<1> QED BY <1>2, <1>3, <1>4 DEF Rebuilds

\* An exception leaves the index alone.
LEMMA ThrowSettled ==
  ASSUME NEW t, TableRec(t), NEW rows
  PROVE  Settled(Throw(t, rows)) /\ Throw(t, rows).state = "thrown"
BY DEF Throw, Settled, TableRec

\* What each operation leaves behind.
LEMMA MergeSettled ==
  ASSUME NEW t, TableRec(t), NEW p
  PROVE  Settled(mergeRight(t, p)) /\ Settled(mergeDown(t, p)) /\ Settled(mergeRange(t))
<1>1. Settled(mergeRight(t, p))
  BY UpdateRebuilds DEF mergeRight, Settled
<1>2. Settled(mergeDown(t, p))
  BY UpdateRebuilds DEF mergeDown, Settled
<1>3. CASE Cut(t, t.cellsRange)
  <2>1. mergeRange(t) = Throw(t, Unmarked(t.rows))
    BY <1>3 DEF mergeRange
  <2> QED BY <1>1, <1>2, <2>1, ThrowSettled
<1>4. CASE ~Cut(t, t.cellsRange)
  <2>1. \E rows : mergeRange(t) = update(rows)
    BY <1>4 DEF mergeRange
  <2> QED BY <1>1, <1>2, <2>1, UpdateRebuilds DEF Settled
<1> QED BY <1>3, <1>4

\* The splits of a cell end with update(),
LEMMA SplitsSettled ==
  ASSUME NEW t, NEW p
  PROVE  Rebuilds(splitToRows(t, p)) /\ Rebuilds(splitToCols(t, p))
<1>1. \E rows : splitToRows(t, p) = update(rows)
  BY DEF splitToRows
<1>2. \E rows : splitToCols(t, p) = update(rows)
  BY DEF splitToCols
<1> QED BY <1>1, <1>2, UpdateRebuilds

\* and so do the two in turn.
LEMMA CellsSettled ==
  ASSUME NEW t, NEW p
  PROVE  splitToCells(t, p) = t \/ Rebuilds(splitToCells(t, p))
<1>1. PICK f : SplitSteps(f, t, p)
  BY SplitToCellsIs
<1> DEFINE n == InfoOf(t, p).rowSpan
<1>2. splitToCells(t, p) = IF n \in Nat THEN f[n] ELSE t
  BY <1>1 DEF SplitSteps
<1>3. \A k \in Nat : \E u, q : f[k] = splitToRows(t, p) \/ f[k] = splitToCols(u, q)
  BY <1>1 DEF SplitSteps
<1> HIDE DEF n
<1>4. \A k \in Nat : Rebuilds(f[k])
  BY <1>3, SplitsSettled
<1> QED BY <1>2, <1>4

\* Each operation of a command throws or ends with update().
LEMMA CallSettled ==
  ASSUME NEW t, TableRec(t), NEW op \in {"insertRow", "deleteRow", "insertCol", "deleteCol"}, NEW at
  PROVE  Settled(Call(op, t, at))
<1>1. Settled(insertRow(t, at))
  <2>1. \E rows : insertRow(t, at) = update(rows) \/ insertRow(t, at) = Throw(t, rows)
    BY DEF insertRow
  <2> QED BY <2>1, UpdateRebuilds, ThrowSettled DEF Settled
<1>2. Settled(deleteRow(t, at))
  <2>1. \E rows : deleteRow(t, at) = update(rows) \/ deleteRow(t, at) = Throw(t, rows)
    BY DEF deleteRow
  <2> QED BY <2>1, UpdateRebuilds, ThrowSettled DEF Settled
<1>3. Settled(insertCol(t, at))
  <2>1. \E rows : insertCol(t, at) = update(rows) \/ insertCol(t, at) = Throw(t, rows)
    BY DEF insertCol
  <2> QED BY <2>1, UpdateRebuilds, ThrowSettled DEF Settled
<1>4. Settled(deleteCol(t, at))
  <2>1. \E rows : deleteCol(t, at) = update(rows)
    BY DEF deleteCol
  <2> QED BY <2>1, UpdateRebuilds DEF Settled
<1>5. CASE op = "insertRow"
  BY <1>1, <1>5 DEF Call
<1>6. CASE op = "deleteRow"
  BY <1>2, <1>6 DEF Call
<1>7. CASE op = "insertCol"
  BY <1>3, <1>7 DEF Call
<1>8. CASE op = "deleteCol"
  BY <1>4, <1>8 DEF Call
<1> QED BY <1>5, <1>6, <1>7, <1>8

(* The tables on the way through the calls of a command.                   *)
CallSteps(f, t, n, op, at) ==
    /\ Again(t, n, op, at) = IF n \in Nat THEN f[n] ELSE t
    /\ \A k \in Nat : f[k] = IF k = 0 THEN t
                             ELSE IF (f[k - 1]).state = "thrown" \/ ~Tiled(f[k - 1]) THEN f[k - 1]
                             ELSE Call(op, f[k - 1], at)

\* The recursive definition of Again has a solution.
LEMMA AgainIs ==
  ASSUME NEW t, NEW n, NEW op, NEW at
  PROVE  \E f : CallSteps(f, t, n, op, at)
<1> DEFINE init == t
           step(s, k) == IF s.state = "thrown" \/ ~Tiled(s) THEN s ELSE Call(op, s, at)
           Good(f) == f = [k \in Nat |-> IF k = 0 THEN t
                             ELSE IF (f[k - 1]).state = "thrown" \/ ~Tiled(f[k - 1]) THEN f[k - 1]
                             ELSE Call(op, f[k - 1], at)]
           split == CHOOSE f : Good(f)
<1>4. Again(t, n, op, at) = IF n \in Nat THEN split[n] ELSE t
  BY DEF Again
<1>5. \A f : Good(f) <=> f = [k \in Nat |-> IF k = 0 THEN init ELSE step(f[k - 1], k)]
  OBVIOUS
<1>6. \A f : CallSteps(f, t, n, op, at) <=>
         /\ Again(t, n, op, at) = IF n \in Nat THEN f[n] ELSE t
         /\ \A k \in Nat : f[k] = IF k = 0 THEN init ELSE step(f[k - 1], k)
  BY DEF CallSteps
<1> HIDE DEF Good, step, init
\* The equation has a solution: parts of it, which agree, make the whole.
<1>8. \E f : Good(f)
  <2> DEFINE Sol(f, m) == f = [k \in 0..m |-> IF k = 0 THEN init ELSE step(f[k - 1], k)]
             all == {m \in Nat : \E f : Sol(f, m)}
  <2>1. ASSUME NEW m \in Nat, NEW f, Sol(f, m), NEW k \in 0..m
        PROVE  f[k] = IF k = 0 THEN init ELSE step(f[k - 1], k)
    BY <2>1
  <2>2. 0 \in all
    <3> DEFINE f == [k \in 0..0 |-> init]
    <3>1. f = [k \in 0..0 |-> IF k = 0 THEN init ELSE step(f[k - 1], k)]
      OBVIOUS
    <3> HIDE DEF f
    <3> QED BY <3>1
  <2>3. ASSUME NEW m \in Nat, m \in all
        PROVE  m + 1 \in all
    <3>1. PICK f : Sol(f, m)
      BY <2>3
    <3> DEFINE e == step(f[m], m + 1)
               g == [k \in 0..(m + 1) |-> IF k = m + 1 THEN e ELSE f[k]]
    <3>2. \A k \in 0..m : k \in 0..(m + 1) /\ k # m + 1 /\ g[k] = f[k]
      OBVIOUS
    <3>3. m + 1 \in 0..(m + 1) /\ m \in 0..m /\ m + 1 # 0 /\ g[m + 1] = e /\ (m + 1) - 1 = m
      OBVIOUS
    <3>4. \A k \in 0..m : f[k] = IF k = 0 THEN init ELSE step(f[k - 1], k)
      BY <2>1, <3>1
    <3>5. g = [k \in 0..(m + 1) |-> g[k]]
      OBVIOUS
    <3> HIDE DEF g
    <3>6. ASSUME NEW k \in 0..(m + 1)
          PROVE  g[k] = IF k = 0 THEN init ELSE step(g[k - 1], k)
      <4>1. CASE k = m + 1
        <5>1. g[m] = f[m]
          BY <3>2, <3>3
        <5> QED BY <3>3, <4>1, <5>1
      <4>2. CASE k # m + 1
        <5>1. k \in 0..m /\ (k # 0 => k - 1 \in 0..m)
          BY <4>2
        <5>2. g[k] = f[k] /\ (k # 0 => g[k - 1] = f[k - 1])
          BY <3>2, <5>1
        <5> HIDE DEF e
        <5> QED BY <3>4, <5>1, <5>2
      <4> QED BY <4>1, <4>2
    <3>7. Sol(g, m + 1)
      BY <3>5, <3>6
    <3> HIDE DEF Sol
    <3> QED BY <3>7
  <2>4. Nat \subseteq all
    <3> HIDE DEF all
    <3> QED BY <2>2, <2>3, NatInSet
  <2> HIDE DEF Sol
  <2> DEFINE part(m) == CHOOSE f : Sol(f, m)
             F == [m \in Nat |-> part(m)[m]]
  <2>5. ASSUME NEW m \in Nat
        PROVE  Sol(part(m), m)
    BY <2>4
  <2> HIDE DEF part
  <2> DEFINE same == {k \in Nat : \A m \in Nat : k <= m => part(m)[k] = part(k)[k]}
  <2>6. 0 \in same
    <3>1. ASSUME NEW m \in Nat
          PROVE  part(m)[0] = init
      <4>1. 0 \in 0..m /\ Sol(part(m), m)
        BY <2>5
      <4> QED BY <2>1, <4>1
    <3>2. part(0)[0] = init
      BY <3>1
    <3> QED BY <3>1, <3>2
  <2>7. ASSUME NEW k \in Nat, k \in same
        PROVE  k + 1 \in same
    <3>1. ASSUME NEW m \in Nat, k + 1 <= m
          PROVE  part(m)[k + 1] = step(part(k)[k], k + 1)
      <4>1. k + 1 \in 0..m /\ k + 1 # 0 /\ (k + 1) - 1 = k /\ k <= m
        BY <3>1
      <4>2. part(m)[k + 1] = step(part(m)[k], k + 1)
        BY <2>1, <2>5, <4>1
      <4>3. part(m)[k] = part(k)[k]
        BY <2>7, <4>1
      <4> QED BY <4>2, <4>3
    <3>2. part(k + 1)[k + 1] = step(part(k)[k], k + 1)
      <4>1. k + 1 \in Nat /\ k + 1 <= k + 1
        OBVIOUS
      <4> QED BY <3>1, <4>1
    <3> QED BY <3>1, <3>2
  <2>8. Nat \subseteq same
    <3> HIDE DEF same
    <3> QED BY <2>6, <2>7, NatInSet
  <2>9. ASSUME NEW k \in Nat
        PROVE  F[k] = IF k = 0 THEN init ELSE step(F[k - 1], k)
    <3>1. k \in 0..k /\ F[k] = part(k)[k]
      OBVIOUS
    <3>2. part(k)[k] = IF k = 0 THEN init ELSE step(part(k)[k - 1], k)
      BY <2>1, <2>5, <3>1
    <3>3. k # 0 => k - 1 \in Nat /\ k - 1 <= k /\ k - 1 \in same
      BY <2>8
    <3>4. k # 0 => F[k - 1] = part(k)[k - 1]
      BY <3>3
    <3> QED BY <3>1, <3>2, <3>4
  <2>10. F = [k \in Nat |-> F[k]]
    OBVIOUS
  <2> HIDE DEF F
  <2>11. F = [k \in Nat |-> IF k = 0 THEN init ELSE step(F[k - 1], k)]
    BY <2>9, <2>10
  <2> QED BY <1>5, <2>11
<1>9. Good(split)
  BY <1>8
<1> HIDE DEF split
<1>10. \A k \in Nat : split[k] = IF k = 0 THEN init ELSE step(split[k - 1], k)
  <2>1. split = [k \in Nat |-> IF k = 0 THEN init ELSE step(split[k - 1], k)]
    BY <1>5, <1>9
  <2> QED BY <2>1
<1> QED BY <1>4, <1>6, <1>10

\* What a command of several calls leaves behind.
LEMMA AgainSettled ==
  ASSUME NEW t, TableRec(t), NEW n, NEW op \in {"insertRow", "deleteRow", "insertCol", "deleteCol"}, NEW at
  PROVE  Again(t, n, op, at) = t \/ Settled(Again(t, n, op, at))
<1>1. PICK f : CallSteps(f, t, n, op, at)
  BY AgainIs
<1>2. Again(t, n, op, at) = IF n \in Nat THEN f[n] ELSE t
  BY <1>1 DEF CallSteps
<1>3. \A k \in Nat : f[k] = IF k = 0 THEN t
                             ELSE IF (f[k - 1]).state = "thrown" \/ ~Tiled(f[k - 1]) THEN f[k - 1]
                             ELSE Call(op, f[k - 1], at)
  BY <1>1 DEF CallSteps
<1> DEFINE ok == {k \in Nat : f[k] = t \/ Settled(f[k])}
<1>4. 0 \in ok
  BY <1>3
<1>5. ASSUME NEW k \in Nat, k \in ok
      PROVE  k + 1 \in ok
  <2>1. k + 1 \in Nat /\ k + 1 # 0 /\ (k + 1) - 1 = k
    OBVIOUS
  <2>2. f[k + 1] = IF (f[k]).state = "thrown" \/ ~Tiled(f[k]) THEN f[k] ELSE Call(op, f[k], at)
    BY <1>3, <2>1
  <2>3. TableRec(f[k])
    BY <1>5 DEF Settled, Rebuilds
  <2> QED BY <1>5, <2>1, <2>2, <2>3, CallSettled
<1>6. Nat \subseteq ok
  <2> HIDE DEF ok
  <2> QED BY <1>4, <1>5, NatInSet
<1> QED BY <1>2, <1>6

(* The last row or column of the range cuts a cell.                        *)
CutAtEdge(t, q) ==
    \E pos \in Positions(q) : SticksOut(t.index[pos], q) /\ (pos[1] = q.endRow \/ pos[2] = q.endCol)

(* Between two commands the range of the selection is one of the table, if *)
(* the index is right at all, and a selection that cuts a cell does so at  *)
(* its last row or column.                                                 *)
RangeOk(u) == u.state = "ready" /\ Regular(u) =>
                  u.cellsRange = NoRange \/ RangeIn(u.cellsRange, u.rowsNum, u.colsNum)

TableOk(u) == TableRec(u) /\ RangeOk(u) /\ (u.state = "null" /\ Tiled(u) => CutAtEdge(u, u.cellsRange))

\* A table that was built again, or left half done, is so.
LEMMA SettledOk ==
  ASSUME NEW u, Settled(u)
  PROVE  TableOk(u)
<1>1. CASE Rebuilds(u)
  <2>1. TableRec(u) /\ u.state = "ready" /\ u.cellsRange = RangeOfMarked(u.rows, u.index)
    BY <1>1 DEF Rebuilds
  <2>2. Regular(u) /\ u.cellsRange # NoRange => RangeIn(u.cellsRange, u.rowsNum, u.colsNum)
    BY <2>1, RebuiltRange DEF Regular
  <2> QED BY <2>1, <2>2 DEF TableOk, RangeOk
<1>2. CASE TableRec(u) /\ u.state = "thrown"
  BY <1>2 DEF TableOk, RangeOk
<1> QED BY <1>1, <1>2 DEF Settled

\* A table that is removed is no table.
LEMMA KeepOk ==
  ASSUME NEW u, TableOk(u)
  PROVE  TableOk(Keep(u))
<1>1. CASE Keep(u) = u
  BY <1>1
<1>2. CASE Keep(u) = [u EXCEPT !.state = "none"]
  <2> DEFINE v == [u EXCEPT !.state = "none"]
  <2>1. TableRec(v) /\ v.state = "none"
    BY DEF TableOk, TableRec
  <2> HIDE DEF v
  <2>2. TableOk(v)
    BY <2>1 DEF TableOk, RangeOk
  <2> QED BY <1>2, <2>2 DEF v
<1> QED BY <1>1, <1>2 DEF Keep

\* Only cells of its own fill the rows.
LEMMA IndexedSame ==
  ASSUME NEW t, NEW u, Indexed(u), SameIndex(t, u), DOMAIN t.rows = DOMAIN u.rows,
         \A r \in DOMAIN t.rows : DOMAIN t.rows[r] = DOMAIN u.rows[r]
  PROVE  Indexed(t)
<1>1. Places(t.rows) = Places(u.rows)
  BY DEF Places
<1> QED BY <1>1 DEF Indexed, SameIndex

\* What dragging the mouse selects.
LEMMA SelectOk ==
  ASSUME NEW t, Rebuilds(t), NEW p \in Places(t.rows), NEW q \in Places(t.rows)
  PROVE  TableOk(setSelected(t, getCellsRange(t, p, q)))
<1> DEFINE g == getCellsRange(t, p, q)
           u == setSelected(t, g)
           marked == Mark(Unmarked(t.rows), PlacesIn(t, g))
<1>1. DOMAIN t = {"rows", "index", "rowsNum", "colsNum", "cellsRange", "state"} /\ t.state = "ready"
  BY DEF Rebuilds, TableRec
<1>2. /\ DOMAIN Unmarked(t.rows) = DOMAIN t.rows /\ DOMAIN marked = DOMAIN t.rows
      /\ \A r \in DOMAIN t.rows : DOMAIN Unmarked(t.rows)[r] = DOMAIN t.rows[r] /\ DOMAIN marked[r] = DOMAIN t.rows[r]
  BY DEF Unmarked, Mark
<1> HIDE DEF g, marked
<1>3. ASSUME Indexed(t)
      PROVE  Ranged(g, t.rowsNum, t.colsNum) /\ SidesFit(t, g)
  BY <1>3, CellsRangeIs DEF g
<1>4. CASE Cut(t, g)
  <2>1. u = [t EXCEPT !.rows = Unmarked(t.rows), !.cellsRange = g, !.state = "null"]
    BY <1>4 DEF setSelected
  <2> HIDE DEF u
  <2>2. TableRec(u) /\ u.state = "null" /\ u.rows = Unmarked(t.rows) /\ u.cellsRange = g /\ SameIndex(t, u)
    BY <1>1, <2>1 DEF TableRec, SameIndex
  <2>3. ASSUME Tiled(u)
        PROVE  CutAtEdge(u, g)
    <3>1. Indexed(u)
      BY <2>3, TiledIndexed
    <3>2. Indexed(t)
      BY <1>2, <2>2, <3>1, IndexedSame
    <3>3. Spread(g, u.rowsNum, u.colsNum) /\ SidesFit(u, g)
      BY <1>3, <2>2, <3>2 DEF Ranged, SameIndex, SidesFit, TopFits, LeftFits, BottomFits, RightFits
    <3>4. PICK pos \in Positions(g) : SticksOut(u.index[pos], g)
      BY <1>4, <2>2 DEF Cut, SameIndex
    <3> QED BY <2>3, <3>3, <3>4, SticksOutAtEdge DEF CutAtEdge
  <2>4. TableOk(u)
    BY <2>2, <2>3 DEF TableOk, RangeOk
  <2> QED BY <2>4 DEF u, g
<1>5. CASE ~Cut(t, g)
  <2>1. u = [t EXCEPT !.rows = marked, !.cellsRange = g]
    BY <1>5 DEF setSelected, marked
  <2> HIDE DEF u
  <2>2. TableRec(u) /\ u.state = "ready" /\ u.rows = marked /\ u.cellsRange = g /\ SameIndex(t, u)
    BY <1>1, <2>1 DEF TableRec, SameIndex
  <2>3. ASSUME Regular(u)
        PROVE  RangeIn(g, u.rowsNum, u.colsNum)
    <3>1. Indexed(u)
      BY <2>3 DEF Regular
    <3>2. Indexed(t)
      BY <1>2, <2>2, <3>1, IndexedSame
    <3>3. Spread(g, u.rowsNum, u.colsNum)
      BY <1>3, <2>2, <3>2 DEF Ranged, SameIndex
    <3> QED BY <3>3 DEF Spread, RangeIn
  <2>4. TableOk(u)
    BY <2>2, <2>3 DEF TableOk, RangeOk
  <2> QED BY <2>4 DEF u, g
<1> QED BY <1>4, <1>5

\* Cells change their content, or rows their places.
LEMMA SameRangeOk ==
  ASSUME NEW t, NEW u, TableOk(t), t.state = "ready", TableRec(u), u.state = "ready",
         SameIndex(t, u), u.cellsRange = t.cellsRange, Regular(u) => Regular(t)
  PROVE  TableOk(u)
BY DEF TableOk, RangeOk, SameIndex

\* An entry is the same for a cell that keeps its spans.
LEMMA SpansKept ==
  ASSUME NEW a, NEW x, NEW j, SpansOf(j, [a EXCEPT !.text = x])
  PROVE  SpansOf(j, a)
BY DEF SpansOf

\* Typing into a cell.
LEMMA TypeOk ==
  ASSUME TableOk(ut), ut.state = "ready", NEW p, NEW w, NEW u,
         u = [ut EXCEPT !.rows[p[1]][p[2]].text = @ \union {w}]
  PROVE  TableOk(u)
<1> DEFINE rows == ut.rows
           new == [rows EXCEPT ![p[1]] = [rows[p[1]] EXCEPT ![p[2]] = [rows[p[1]][p[2]] EXCEPT !.text = @ \union {w}]]]
<1>1. DOMAIN ut = {"rows", "index", "rowsNum", "colsNum", "cellsRange", "state"}
  BY DEF TableOk, TableRec
<1>2. TableRec(u) /\ u.state = "ready" /\ u.rows = new /\ u.cellsRange = ut.cellsRange /\ SameIndex(ut, u)
  BY <1>1 DEF TableRec, SameIndex
<1>3. SameSpans(rows, new)
  <2>1. DOMAIN rows = DOMAIN new
    OBVIOUS
  <2>2. ASSUME NEW r \in DOMAIN rows
        PROVE  DOMAIN rows[r] = DOMAIN new[r]
    OBVIOUS
  <2>3. ASSUME NEW r \in DOMAIN rows, NEW i \in DOMAIN rows[r], NEW j, SpansOf(j, new[r][i])
        PROVE  SpansOf(j, rows[r][i])
    <3>1. CASE r = p[1] /\ i = p[2]
      <4>1. new[r][i] = [rows[p[1]][p[2]] EXCEPT !.text = @ \union {w}]
        BY <3>1
      <4> HIDE DEF new
      <4> QED BY <2>3, <3>1, <4>1, SpansKept
    <3>2. CASE ~(r = p[1] /\ i = p[2])
      <4>1. new[r][i] = rows[r][i]
        BY <3>2
      <4> QED BY <2>3, <4>1
    <3> QED BY <3>1, <3>2
  <2> QED BY <2>1, <2>2, <2>3 DEF SameSpans
<1> HIDE DEF new
<1>4. Regular(u) => Regular(ut)
  BY <1>2, <1>3, RegularSame
<1> QED BY <1>2, <1>4, SameRangeOk

\* Emptying the selected cells.
LEMMA DelOk ==
  ASSUME TableOk(ut), ut.state = "ready", NEW u,
         u = [ut EXCEPT !.rows = [r \in DOMAIN @ |-> [i \in DOMAIN @[r] |->
                  IF @[r][i].selected THEN [@[r][i] EXCEPT !.text = {}] ELSE @[r][i]]]]
  PROVE  TableOk(u)
<1> DEFINE rows == ut.rows
           new == [r \in DOMAIN rows |-> [i \in DOMAIN rows[r] |->
                     IF rows[r][i].selected THEN [rows[r][i] EXCEPT !.text = {}] ELSE rows[r][i]]]
<1>1. DOMAIN ut = {"rows", "index", "rowsNum", "colsNum", "cellsRange", "state"}
  BY DEF TableOk, TableRec
<1>2. TableRec(u) /\ u.state = "ready" /\ u.rows = new /\ u.cellsRange = ut.cellsRange /\ SameIndex(ut, u)
  BY <1>1 DEF TableRec, SameIndex
<1>3. SameSpans(rows, new)
  <2>1. DOMAIN rows = DOMAIN new /\ \A r \in DOMAIN rows : DOMAIN rows[r] = DOMAIN new[r]
    OBVIOUS
  <2>2. ASSUME NEW r \in DOMAIN rows, NEW i \in DOMAIN rows[r], NEW j, SpansOf(j, new[r][i])
        PROVE  SpansOf(j, rows[r][i])
    <3>1. new[r][i] = [rows[r][i] EXCEPT !.text = {}] \/ new[r][i] = rows[r][i]
      OBVIOUS
    <3> HIDE DEF new
    <3> QED BY <2>2, <3>1, SpansKept
  <2> QED BY <2>1, <2>2 DEF SameSpans
<1> HIDE DEF new
<1>4. Regular(u) => Regular(ut)
  BY <1>2, <1>3, RegularSame
<1> QED BY <1>2, <1>4, SameRangeOk

\* Sorting rows.
LEMMA SortOk ==
  ASSUME TableOk(ut), sorttable
  PROVE  TableOk(ut')
<1> DEFINE sorted == {r \in 1..ut.rowsNum : Selected # {} => r \in ut.cellsRange.beginRow..ut.cellsRange.endRow}
<1>1. PICK order \in [sorted -> sorted] :
         /\ \A r \in sorted : \E k \in sorted : order[k] = r
         /\ ut' = [ut EXCEPT !.rows = [r \in DOMAIN @ |-> @[IF r \in sorted THEN order[r] ELSE r]]]
  BY DEF sorttable
<1>2. ut.state = "ready" /\ AllSingle(ut.rows)
  BY DEF sorttable, AllSingle
<1>3. sorted \subseteq 1..ut.rowsNum
  OBVIOUS
<1> HIDE DEF sorted
<1>4. DOMAIN ut = {"rows", "index", "rowsNum", "colsNum", "cellsRange", "state"}
  BY DEF TableOk, TableRec
<1> DEFINE new == [r \in DOMAIN ut.rows |-> ut.rows[IF r \in sorted THEN order[r] ELSE r]]
<1>5. TableRec(ut') /\ ut'.state = "ready" /\ ut'.rows = new /\ ut'.cellsRange = ut.cellsRange /\ SameIndex(ut, ut')
  BY <1>1, <1>2, <1>4 DEF TableRec, SameIndex
<1>6. ASSUME Regular(ut')
      PROVE  Regular(ut)
  <2>1. DOMAIN ut.rows = 1..ut.rowsNum
    BY <1>5, <1>6 DEF Regular, SameIndex
  <2>2. Sorted(ut'.rows, ut.rows, order, sorted)
    BY <1>1, <1>3, <1>5, <2>1 DEF Sorted
  <2> QED BY <1>2, <1>5, <1>6, <2>2, RegularSorted
<1> QED BY <1>2, <1>5, <1>6, SameRangeOk

\* A page without a table.
LEMMA NoTableOk == TableOk(NoTable)
BY DEF NoTable, TableOk, TableRec, RangeOk

\* Selecting.
LEMMA SelectCellsOk ==
  ASSUME SelectCells
  PROVE  TableOk(ut')
<1> DEFINE t == tableClickHander(ut)
<1>1. Rebuilds(t)
  BY UpdateRebuilds DEF tableClickHander
<1>2. \E p, q \in Places(t.rows) : ut' = t \/ ut' = setSelected(t, getCellsRange(t, p, q))
  BY DEF SelectCells
<1> HIDE DEF t
<1>3. PICK p \in Places(t.rows), q \in Places(t.rows) : ut' = t \/ ut' = setSelected(t, getCellsRange(t, p, q))
  BY <1>2
<1>4. TableOk(t)
  BY <1>1, SettledOk DEF Settled
<1>5. TableOk(setSelected(t, getCellsRange(t, p, q)))
  BY <1>1, SelectOk
<1> QED BY <1>3, <1>4, <1>5

\* Calling one of the four operations again and again.
LEMMA AgainOk ==
  ASSUME TableOk(ut), NEW n, NEW op \in {"insertRow", "deleteRow", "insertCol", "deleteCol"}, NEW at
  PROVE  TableOk(Again(ut, n, op, at)) /\ TableOk(Keep(Again(ut, n, op, at)))
<1>1. Again(ut, n, op, at) = ut \/ Settled(Again(ut, n, op, at))
  BY AgainSettled DEF TableOk
<1>2. TableOk(Again(ut, n, op, at))
  BY <1>1, SettledOk
<1> QED BY <1>2, KeepOk

\* Every command leaves such a table behind.
LEMMA TableOkStep ==
  ASSUME TableOk(ut), [TableNext]_ut
  PROVE  TableOk(ut')
<1>0. TableRec(ut)
  BY DEF TableOk
<1>1. ASSUME NEW n \in 1..MaxRows, NEW m \in 1..MaxCols, inserttable(n, m)
      PROVE  TableOk(ut')
  <2>1. \E rows : ut' = update(rows)
    BY <1>1 DEF inserttable
  <2> QED BY <2>1, UpdateRebuilds, SettledOk DEF Settled
<1>2. CASE SelectCells
  BY <1>2, SelectCellsOk
<1>3. ASSUME NEW p \in TablePlaces, NEW w \in Words, TypeWord(p, w)
      PROVE  TableOk(ut')
  <2>1. ut.state = "ready" /\ ut' = [ut EXCEPT !.rows[p[1]][p[2]].text = @ \union {w}]
    BY <1>3 DEF TypeWord, CaretIn
  <2> QED BY <2>1, TypeOk
<1>4. CASE DelCells
  BY <1>4, DelOk DEF DelCells
<1>5. CASE deletetable
  BY <1>5, NoTableOk DEF deletetable
<1>6. CASE mergecells
  BY <1>0, <1>6, MergeSettled, SettledOk DEF mergecells
<1>7. CASE sorttable
  BY <1>7, SortOk
<1>8. ASSUME NEW p \in TablePlaces, mergeright(p) \/ mergedown(p)
      PROVE  TableOk(ut')
  <2>1. ut' = mergeRight(ut, p) \/ ut' = mergeDown(ut, p)
    BY <1>8 DEF mergeright, mergedown
  <2> QED BY <1>0, <2>1, MergeSettled, SettledOk
<1>9. ASSUME NEW p \in TablePlaces, insertrow(p) \/ insertrownext(p) \/ deleterow(p)
      PROVE  TableOk(ut')
  <2>1. \E n, at : ut' = Again(ut, n, "insertRow", at) \/ ut' = Keep(Again(ut, n, "deleteRow", at))
    BY <1>9 DEF insertrow, insertrownext, deleterow
  <2> QED BY <2>1, AgainOk
<1>10. ASSUME NEW p \in TablePlaces, insertcol(p) \/ insertcolnext(p) \/ deletecol(p)
       PROVE  TableOk(ut')
  <2>1. \E n, at : ut' = Again(ut, n, "insertCol", at) \/ ut' = Keep(Again(ut, n, "deleteCol", at))
    BY <1>10 DEF insertcol, insertcolnext, deletecol
  <2> QED BY <2>1, AgainOk
<1>11. ASSUME NEW p \in TablePlaces, splittocells(p) \/ splittorows(p) \/ splittocols(p)
       PROVE  TableOk(ut')
  <2>1. ut' = splitToCells(ut, p) \/ ut' = splitToRows(ut, p) \/ ut' = splitToCols(ut, p)
    BY <1>11 DEF splittocells, splittorows, splittocols
  <2> QED BY <2>1, CellsSettled, SplitsSettled, SettledOk DEF Settled
<1>12. CASE UNCHANGED ut
  BY <1>12
<1> QED BY <1>1, <1>2, <1>3, <1>4, <1>5, <1>6, <1>7, <1>8, <1>9, <1>10, <1>11, <1>12 DEF TableNext, TableCommand

\* The selection's range is one of the table, and cut at its last edge only.
THEOREM TableStaysOk == TableSpec => []TableOk(ut)
<1>1. TableInit => TableOk(ut)
  BY NoTableOk DEF TableInit
<1>2. TableOk(ut) /\ [TableNext]_ut => TableOk(ut)'
  <2> SUFFICES ASSUME TableOk(ut), [TableNext]_ut
               PROVE  TableOk(ut')
    BY DEF TableOk, TableRec, RangeOk
  <2> QED BY TableOkStep
<1> QED BY <1>1, <1>2, PTL DEF TableSpec

\* checkRange leaves no cell half selected but one in the last row or column
\* of the range.
THEOREM TableCutAtLastEdge == TableSpec => []CutOnlyAtLastEdge
<1>1. TableOk(ut) => CutOnlyAtLastEdge
  BY DEF TableOk, CutAtEdge, CutOnlyAtLastEdge
<1> QED BY <1>1, TableStaysOk, PTL

\* A selection that is merged is one of a regular table, cuts no cell, and
\* then its cells become one.
LEMMA MergesToOne ==
  ASSUME TableOk(ut)
  PROVE  MergeIsOne
<1> DEFINE q == ut.cellsRange
           u == mergeRange(ut)
<1> SUFFICES ASSUME ut.state = "ready", Tiled(ut), q # NoRange, u.state = "ready",
                    q.beginCol <= q.endCol,
                    q.beginCol > 1 \/ q.endCol < ut.colsNum,
                    q.beginRow > 1 \/ q.endRow < ut.rowsNum
             PROVE  MadeOne(ut, u, q)
  BY DEF MergeIsOne, MadeOne
<1>1. TableRec(ut)
  BY DEF TableOk
<1>2. ~Cut(ut, q)
  <2>1. Cut(ut, q) => u = Throw(ut, Unmarked(ut.rows))
    BY DEF mergeRange
  <2>2. Throw(ut, Unmarked(ut.rows)).state = "thrown"
    BY <1>1, ThrowSettled
  <2> HIDE DEF u
  <2> QED BY <2>1, <2>2
<1>3. RangeIn(q, ut.rowsNum, ut.colsNum)
  BY TiledRegular DEF TableOk, RangeOk
<1>4. Spread(q, ut.rowsNum, ut.colsNum) /\ ut.rowsNum > 0
  <2>1. ut.rowsNum \in Nat
    BY DEF Tiled
  <2>2. q.beginRow \in 1..ut.rowsNum
    BY <1>3 DEF RangeIn
  <2>3. ut.rowsNum > 0
    BY <2>1, <2>2
  <2>4. Spread(q, ut.rowsNum, ut.colsNum)
    BY <1>3 DEF RangeIn, Spread
  <2> QED BY <2>3, <2>4
<1>5. Standing(ut, ut.rowsNum, ut.colsNum, GridOf(ut), ColumnsOf(ut))
  BY <1>4, StandingTiled
<1>6. Mergeable(ut, ut.rowsNum, ut.colsNum, GridOf(ut), ColumnsOf(ut), q)
  BY <1>2, <1>4, <1>5 DEF Mergeable, Standing
<1> QED BY <1>6, MergeMakesOne

\* Merging a selection that is neither as wide nor as high as the table makes
\* one cell of exactly its area, with all its contents; splitting a cell makes
\* cells of one position and leaves the others their places and contents.
THEOREM TableMergeAndSplit == TableSpec => []MergeAndSplit
<1>1. TableOk(ut) => MergeAndSplit
  BY MergesToOne, SplitsToUnits DEF MergeAndSplit
<1> QED BY <1>1, TableStaysOk, PTL

-----------------------------------------------------------------------------
(* update, whatever the rows: recursive functions and bounds.              *)

(* A sequence of values of X, each made of the one before it.              *)
Recurs(f, n, X, init, step) == f \in [0..n -> X] /\ f[0] = init /\ \A i \in 1..n : f[i] = step[<<f[i - 1], i>>]

\* There is one when the steps stay in the set.
LEMMA Recursion ==
  ASSUME NEW n \in Nat, NEW X, NEW init \in X, NEW step \in [X \X (1..n) -> X]
  PROVE  \E f : Recurs(f, n, X, init, step)
<1> DEFINE Reaches(f, m) == f \in [0..m -> X] /\ f[0] = init /\ \A i \in 1..m : f[i] = step[<<f[i - 1], i>>]
           all == {m \in Nat : m <= n => \E f : Reaches(f, m)}
<1>1. 0 \in all
  <2> DEFINE f == [i \in 0..0 |-> init]
  <2>1. Reaches(f, 0)
    OBVIOUS
  <2> QED BY <2>1
<1>2. ASSUME NEW m \in Nat, m \in all
      PROVE  m + 1 \in all
  <2> SUFFICES ASSUME m + 1 <= n
               PROVE  \E f : Reaches(f, m + 1)
    OBVIOUS
  <2>1. PICK f : Reaches(f, m)
    BY <1>2
  <2> DEFINE g == [i \in 0..(m + 1) |-> IF i = m + 1 THEN step[<<f[m], m + 1>>] ELSE f[i]]
  <2>2. m \in 0..m /\ m + 1 \in 1..n /\ f[m] \in X
    BY <2>1
  <2>3. step[<<f[m], m + 1>>] \in X
    BY <2>2
  <2>4. g \in [0..(m + 1) -> X] /\ g[0] = init
    BY <2>1, <2>3
  <2>5. ASSUME NEW i \in 1..(m + 1)
        PROVE  g[i] = step[<<g[i - 1], i>>]
    <3>1. CASE i = m + 1
      <4>1. g[i - 1] = f[m] /\ g[i] = step[<<f[m], m + 1>>]
        BY <3>1
      <4> QED BY <3>1, <4>1
    <3>2. CASE i # m + 1
      <4>1. i \in 1..m /\ i \in 0..(m + 1) /\ i - 1 \in 0..(m + 1) /\ i - 1 # m + 1
        BY <3>2
      <4>2. g[i - 1] = f[i - 1] /\ g[i] = f[i]
        BY <3>2, <4>1
      <4> QED BY <2>1, <4>1, <4>2
    <3> QED BY <3>1, <3>2
  <2>6. Reaches(g, m + 1)
    BY <2>4, <2>5
  <2> QED BY <2>6
<1> HIDE DEF all
<1>3. n \in all
  BY <1>1, <1>2, NatInSet
<1> QED BY <1>3 DEF all, Recurs

\* Finitely many numbers have a bound.
LEMMA FcnBounded ==
  ASSUME NEW n \in Nat, NEW f \in [1..n -> Nat]
  PROVE  \E b \in Nat : \A i \in 1..n : f[i] <= b
<1> DEFINE all == {m \in Nat : m <= n => \E b \in Nat : \A i \in 1..m : f[i] <= b}
<1>1. 0 \in all
  OBVIOUS
<1>2. ASSUME NEW m \in Nat, m \in all
      PROVE  m + 1 \in all
  <2> SUFFICES ASSUME m + 1 <= n
               PROVE  \E b \in Nat : \A i \in 1..(m + 1) : f[i] <= b
    OBVIOUS
  <2>1. PICK b \in Nat : \A i \in 1..m : f[i] <= b
    BY <1>2
  <2>2. f[m + 1] \in Nat
    OBVIOUS
  <2> DEFINE d == b + f[m + 1]
  <2>3. d \in Nat /\ b <= d /\ f[m + 1] <= d
    BY <2>2
  <2>4. ASSUME NEW i \in 1..(m + 1)
        PROVE  f[i] <= d
    <3>1. CASE i = m + 1
      BY <2>3, <3>1
    <3>2. CASE i # m + 1
      <4>1. i \in 1..m /\ f[i] \in Nat
        BY <3>2
      <4>2. f[i] <= b
        BY <2>1, <4>1
      <4> HIDE DEF d
      <4> QED BY <2>3, <4>1, <4>2
    <3> QED BY <3>1, <3>2
  <2> QED BY <2>3, <2>4
<1> HIDE DEF all
<1>3. n \in all
  BY <1>1, <1>2, NatInSet
<1> QED BY <1>3 DEF all

\* So have the numbers that the places of some rows have.
LEMMA PlacesBounded ==
  ASSUME NEW rows \in Seq(Seq(Cell)), NEW m,
         m = [r \in 1..Len(rows) |-> [i \in 1..Len(rows[r]) |-> m[r][i]]],
         \A r \in 1..Len(rows) : \A i \in 1..Len(rows[r]) : m[r][i] \in Nat
  PROVE  \E b \in Nat : \A r \in 1..Len(rows) : \A i \in 1..Len(rows[r]) : m[r][i] <= b
<1> DEFINE Bound(r, b) == \A i \in 1..Len(rows[r]) : m[r][i] <= b
           f == [r \in 1..Len(rows) |-> CHOOSE b \in Nat : Bound(r, b)]
<1>1. Len(rows) \in Nat /\ \A r \in 1..Len(rows) : Len(rows[r]) \in Nat
  BY RowsTyped
<1>2. ASSUME NEW r \in 1..Len(rows)
      PROVE  \E b \in Nat : Bound(r, b)
  <2>1. m[r] \in [1..Len(rows[r]) -> Nat]
    OBVIOUS
  <2> QED BY <1>1, <2>1, FcnBounded
<1> HIDE DEF Bound
<1>3. \A r \in 1..Len(rows) : f[r] \in Nat /\ Bound(r, f[r])
  BY <1>2
<1>4. f \in [1..Len(rows) -> Nat]
  BY <1>3
<1>5. PICK b \in Nat : \A r \in 1..Len(rows) : f[r] <= b
  BY <1>1, <1>4, FcnBounded
<1>6. ASSUME NEW r \in 1..Len(rows), NEW i \in 1..Len(rows[r])
      PROVE  m[r][i] <= b
  <2>1. f[r] \in Nat /\ m[r][i] \in Nat /\ m[r][i] <= f[r] /\ f[r] <= b
    BY <1>3, <1>5 DEF Bound
  <2> HIDE DEF f
  <2> QED BY <2>1
<1> QED BY <1>6

\* The columns of a row are a number, no less than its cells.
LEMMA OwnColumnsNat ==
  ASSUME NEW row \in Seq(Cell)
  PROVE  OwnColumns(row) \in Nat /\ Len(row) <= OwnColumns(row)
<1> DEFINE n == Len(row)
           Solves(g) == g = [i \in 0..n |-> IF i = 0 THEN 0 ELSE g[i - 1] + row[i].colSpan]
           sum == CHOOSE g : Solves(g)
           val(p) == p[1] + row[p[2]].colSpan
           step == [p \in Nat \X (1..n) |-> val(p)]
<1>1. n \in Nat /\ \A i \in 1..n : row[i].colSpan \in Nat \ {0}
  <2>1. \A i \in 1..n : row[i] \in Cell
    OBVIOUS
  <2> QED BY <2>1, CellTyped
<1>2. OwnColumns(row) = sum[n]
  BY DEF OwnColumns
<1> HIDE DEF n
<1>3. step \in [Nat \X (1..n) -> Nat]
  <2>1. ASSUME NEW p \in Nat \X (1..n)
        PROVE  val(p) \in Nat
    <3>1. p[1] \in Nat /\ p[2] \in 1..n
      OBVIOUS
    <3>2. row[p[2]].colSpan \in Nat
      BY <1>1, <3>1
    <3> QED BY <3>1, <3>2
  <2> HIDE DEF val
  <2> QED BY <2>1
<1>4. \A s \in Nat, i \in 1..n : step[<<s, i>>] = s + row[i].colSpan
  OBVIOUS
<1> HIDE DEF step
<1>5. PICK f : Recurs(f, n, Nat, 0, step)
  BY <1>1, <1>3, Recursion
<1>6. Solves(f)
  <2>1. ASSUME NEW i \in 0..n
        PROVE  f[i] = IF i = 0 THEN 0 ELSE f[i - 1] + row[i].colSpan
    <3>1. CASE i = 0
      BY <1>5, <3>1 DEF Recurs
    <3>2. CASE i # 0
      <4>1. i \in 1..n /\ i - 1 \in 0..n /\ f[i - 1] \in Nat
        BY <1>1, <1>5, <3>2 DEF Recurs
      <4> QED BY <1>4, <1>5, <3>2, <4>1 DEF Recurs
    <3> QED BY <3>1, <3>2
  <2>2. f = [i \in 0..n |-> f[i]]
    BY <1>5 DEF Recurs
  <2> QED BY <2>1, <2>2
<1>7. Solves(sum)
  <2> HIDE DEF Solves
  <2> QED BY <1>6
<1> HIDE DEF sum
<1> DEFINE ok == {i \in Nat : i <= n => sum[i] \in Nat /\ i <= sum[i]}
<1>8. 0 \in ok
  BY <1>1, <1>7
<1>9. ASSUME NEW i \in Nat, i \in ok
      PROVE  i + 1 \in ok
  <2> SUFFICES ASSUME i + 1 <= n
               PROVE  sum[i + 1] \in Nat /\ i + 1 <= sum[i + 1]
    OBVIOUS
  <2>1. i + 1 \in 0..n /\ i + 1 # 0 /\ (i + 1) - 1 = i /\ i <= n /\ i + 1 \in 1..n
    BY <1>1
  <2>2. sum[i + 1] = sum[i] + row[i + 1].colSpan /\ sum[i] \in Nat /\ i <= sum[i]
    BY <1>7, <1>9, <2>1
  <2> QED BY <1>1, <2>1, <2>2
<1> HIDE DEF ok
<1>10. n \in ok
  BY <1>1, <1>8, <1>9, NatInSet
<1> QED BY <1>1, <1>2, <1>10 DEF ok, n

\* The places of some rows lie in a square.
LEMMA PlacesInSquare ==
  ASSUME NEW rows \in Seq(Seq(Cell))
  PROVE  \E b \in Nat : \A r \in 1..Len(rows) : Len(rows[r]) <= b
<1> DEFINE f == [r \in 1..Len(rows) |-> Len(rows[r])]
<1>1. Len(rows) \in Nat /\ f \in [1..Len(rows) -> Nat]
  BY RowsTyped
<1>2. PICK b \in Nat : \A r \in 1..Len(rows) : f[r] <= b
  BY <1>1, FcnBounded
<1> QED BY <1>2

\* What is counted as reaching into a row is a number.
LEMMA ReachedNat ==
  ASSUME NEW rows \in Seq(Seq(Cell)), NEW r
  PROVE  ReachedColumns(rows, r) \in Nat
<1> DEFINE above == {p \in Places(rows) : p[1] < r /\ p[1] + rows[p[1]][p[2]].rowSpan > r}
           first == FirstOf(above)
<1>1. CASE above = {}
  BY <1>1 DEF ReachedColumns
<1>2. CASE above # {}
  <2>1. PICK b \in Nat : \A x \in 1..Len(rows) : Len(rows[x]) <= b
    BY PlacesInSquare
  <2>2. Len(rows) \in Nat /\ \A x \in 1..Len(rows) : Len(rows[x]) \in Nat
    BY RowsTyped
  <2>3. ASSUME NEW p \in above
        PROVE  \E x \in 1..Len(rows), i \in 1..b : p = <<x, i>> /\ i \in 1..Len(rows[x])
    <3>1. PICK x \in 1..Len(rows) : \E i \in 1..Len(rows[x]) : p = <<x, i>>
      BY PlacesAre
    <3>2. PICK i \in 1..Len(rows[x]) : p = <<x, i>>
      BY <3>1
    <3>3. Len(rows[x]) <= b /\ Len(rows[x]) \in Nat
      BY <2>1, <2>2
    <3>4. i \in 1..b
      BY <2>1, <3>3
    <3> QED BY <3>2, <3>4
  <2>4. above \in SUBSET Places(rows)
    OBVIOUS
  <2>5. first \in above
    BY <1>2, <2>4, EndsOf
  <2> HIDE DEF above, first
  <2>6. above \subseteq (1..Len(rows)) \X (1..b)
    BY <2>3
  <2>7. IsFiniteSet((1..Len(rows)) \X (1..b))
    <3>1. IsFiniteSet(1..Len(rows)) /\ IsFiniteSet(1..b)
      BY <2>1, <2>2, FS_Interval
    <3> QED BY <3>1, FS_Product
  <2>8. IsFiniteSet(above)
    BY <2>6, <2>7, FS_Subset
  <2>9. Cardinality(above) \in Nat /\ Cardinality(above) # 0
    BY <1>2, <2>8, FS_CardinalityType, FS_EmptySet
  <2>10. rows[first[1]][first[2]].colSpan \in Nat \ {0}
    <3>1. PICK x \in 1..Len(rows), i \in 1..b : first = <<x, i>> /\ i \in 1..Len(rows[x])
      BY <2>3, <2>5
    <3>2. rows[x][i] \in Cell
      BY <3>1, RowsTyped
    <3>3. rows[x][i].colSpan \in Nat \ {0}
      BY <3>2, CellTyped
    <3> QED BY <3>1, <3>3
  <2>11. ReachedColumns(rows, r) = rows[first[1]][first[2]].colSpan + Cardinality(above) - 1
    BY <1>2 DEF ReachedColumns, above, first
  <2> QED BY <2>9, <2>10, <2>11
<1> QED BY <1>1, <1>2

\* So are the columns of the table, no less than the cells of a row.
LEMMA MaxColsNat ==
  ASSUME NEW rows \in Seq(Seq(Cell))
  PROVE  getMaxCols(rows) \in Nat /\ \A r \in 1..Len(rows) : Len(rows[r]) <= getMaxCols(rows)
<1> DEFINE w(r) == ReachedColumns(rows, r) + OwnColumns(rows[r])
           f == [r \in 1..Len(rows) |-> w(r)]
           S == {0} \union {w(r) : r \in DOMAIN rows}
<1>1. Len(rows) \in Nat /\ DOMAIN rows = 1..Len(rows) /\ \A r \in 1..Len(rows) : rows[r] \in Seq(Cell)
  BY RowsTyped
<1>2. ASSUME NEW r \in 1..Len(rows)
      PROVE  w(r) \in Nat /\ Len(rows[r]) <= w(r) /\ Len(rows[r]) \in Nat
  <2>1. ReachedColumns(rows, r) \in Nat /\ OwnColumns(rows[r]) \in Nat /\ Len(rows[r]) <= OwnColumns(rows[r])
        /\ Len(rows[r]) \in Nat
    BY <1>1, ReachedNat, OwnColumnsNat
  <2> QED BY <2>1
<1>3. getMaxCols(rows) = Max(S)
  BY DEF getMaxCols
<1> HIDE DEF w
<1>4. f \in [1..Len(rows) -> Nat]
  BY <1>2
<1>5. PICK b \in Nat : \A r \in 1..Len(rows) : f[r] <= b
  BY <1>1, <1>4, FcnBounded
<1>6. S \in SUBSET (0..b) /\ S # {}
  BY <1>1, <1>2, <1>5
<1>10. \A r \in 1..Len(rows) : w(r) \in S
  BY <1>1
<1> HIDE DEF S, f
<1>7. Max(S) \in S /\ \A x \in S : x <= Max(S)
  <2>1. 0 \in Int /\ b \in Int
    OBVIOUS
  <2> QED BY <1>6, <2>1, HasMax
<1>8. Max(S) \in 0..b
  BY <1>6, <1>7
<1>9. Max(S) \in Nat
  BY <1>5, <1>8
<1>11. ASSUME NEW r \in 1..Len(rows)
       PROVE  Len(rows[r]) <= Max(S)
  <2>1. w(r) <= Max(S) /\ w(r) \in Nat /\ Len(rows[r]) <= w(r) /\ Len(rows[r]) \in Nat
    BY <1>2, <1>7, <1>10
  <2> QED BY <1>9, <2>1
<1> QED BY <1>3, <1>9, <1>11

(* The rows that the table has at least.                                   *)
HeightOf(rows, h) ==
    /\ h \in Nat \ {0} /\ Len(rows) <= h
    /\ \A r \in 1..Len(rows) : \A i \in 1..Len(rows[r]) : r + rows[r][i].rowSpan - 1 <= h

\* The rows of the table are a number that no cell exceeds, and no more than
\* needed.
LEMMA MaxRowsNat ==
  ASSUME NEW rows \in Seq(Seq(Cell))
  PROVE  /\ HeightOf(rows, getMaxRows(rows))
         /\ HeightOf(rows, Len(rows)) => getMaxRows(rows) = Len(rows)
<1> DEFINE e(p) == p[1] + rows[p[1]][p[2]].rowSpan - 1
           S == {1} \union {e(p) : p \in Places(rows)} \union DOMAIN rows
           m == [r \in 1..Len(rows) |-> [i \in 1..Len(rows[r]) |-> r + rows[r][i].rowSpan - 1]]
<1>1. Len(rows) \in Nat /\ DOMAIN rows = 1..Len(rows)
  BY RowsTyped
<1>2. ASSUME NEW r \in 1..Len(rows), NEW i \in 1..Len(rows[r])
      PROVE  m[r][i] \in Nat /\ m[r][i] = r + rows[r][i].rowSpan - 1 /\ m[r][i] >= 1
  <2>1. rows[r][i].rowSpan \in Nat \ {0}
    BY RowsTyped, CellTyped
  <2> QED BY <2>1
<1>3. m = [r \in 1..Len(rows) |-> [i \in 1..Len(rows[r]) |-> m[r][i]]]
  OBVIOUS
<1> HIDE DEF m
<1>4. PICK b \in Nat : \A r \in 1..Len(rows) : \A i \in 1..Len(rows[r]) : m[r][i] <= b
  BY <1>2, <1>3, PlacesBounded
<1>5. \A p : p \in Places(rows) <=> \E r \in 1..Len(rows) : \E i \in 1..Len(rows[r]) : p = <<r, i>>
  BY PlacesAre
<1>6. \A r \in 1..Len(rows) : \A i \in 1..Len(rows[r]) : e(<<r, i>>) = m[r][i]
  BY <1>2
<1>7. getMaxRows(rows) = Max(S)
  BY DEF getMaxRows
<1> HIDE DEF e
<1>8. \A x \in S : x = 1 \/ x \in 1..Len(rows) \/ \E r \in 1..Len(rows) : \E i \in 1..Len(rows[r]) : x = m[r][i]
  <2>1. ASSUME NEW p \in Places(rows)
        PROVE  \E r \in 1..Len(rows) : \E i \in 1..Len(rows[r]) : e(p) = m[r][i]
    <3>1. PICK r \in 1..Len(rows) : \E i \in 1..Len(rows[r]) : p = <<r, i>>
      BY <1>5
    <3>2. PICK i \in 1..Len(rows[r]) : p = <<r, i>>
      BY <3>1
    <3> QED BY <1>6, <3>2
  <2> QED BY <1>1, <2>1
<1>9. 1 \in S /\ (\A r \in 1..Len(rows) : r \in S) /\ \A r \in 1..Len(rows) : \A i \in 1..Len(rows[r]) : m[r][i] \in S
  <2>1. ASSUME NEW r \in 1..Len(rows), NEW i \in 1..Len(rows[r])
        PROVE  m[r][i] \in S
    <3>1. <<r, i>> \in Places(rows)
      BY <1>5
    <3> QED BY <1>6, <3>1
  <2> QED BY <1>1, <2>1
<1> HIDE DEF S
<1> DEFINE d == b + Len(rows) + 1
<1>10. d \in Nat /\ b <= d /\ Len(rows) <= d /\ 1 <= d
  BY <1>1, <1>4
<1> HIDE DEF d
<1>11. S \in SUBSET (1..d)
  <2>1. ASSUME NEW x \in S
        PROVE  x \in 1..d
    <3>1. CASE x = 1 \/ x \in 1..Len(rows)
      BY <1>1, <1>10, <3>1
    <3>2. CASE \E r \in 1..Len(rows) : \E i \in 1..Len(rows[r]) : x = m[r][i]
      <4>1. PICK r \in 1..Len(rows) : \E i \in 1..Len(rows[r]) : x = m[r][i]
        BY <3>2
      <4>2. PICK i \in 1..Len(rows[r]) : x = m[r][i]
        BY <4>1
      <4>3. x \in Nat /\ x >= 1 /\ x <= b
        BY <1>2, <1>4, <4>2
      <4> QED BY <1>4, <1>10, <4>3
    <3> QED BY <1>8, <3>1, <3>2
  <2> QED BY <2>1
<1>12. Max(S) \in S /\ \A x \in S : x <= Max(S)
  <2>1. 1 \in Int /\ d \in Int /\ S # {}
    BY <1>9, <1>10
  <2> QED BY <1>11, <2>1, HasMax
<1>13. HeightOf(rows, Max(S))
  <2>1. Max(S) \in Nat \ {0}
    <3>1. Max(S) \in 1..d
      BY <1>11, <1>12
    <3> QED BY <1>10, <3>1
  <2>2. Len(rows) <= Max(S)
    <3>1. CASE Len(rows) = 0
      BY <2>1, <3>1
    <3>2. CASE Len(rows) # 0
      BY <1>1, <1>9, <1>12, <3>2
    <3> QED BY <3>1, <3>2
  <2>3. \A r \in 1..Len(rows) : \A i \in 1..Len(rows[r]) : r + rows[r][i].rowSpan - 1 <= Max(S)
    BY <1>2, <1>9, <1>12
  <2> QED BY <2>1, <2>2, <2>3 DEF HeightOf
<1>14. ASSUME HeightOf(rows, Len(rows))
       PROVE  Max(S) = Len(rows)
  <2>1. ASSUME NEW x \in S
        PROVE  x <= Len(rows)
    <3>1. CASE x = 1 \/ x \in 1..Len(rows)
      BY <1>1, <1>14, <3>1 DEF HeightOf
    <3>2. CASE \E r \in 1..Len(rows) : \E i \in 1..Len(rows[r]) : x = m[r][i]
      BY <1>2, <1>14, <3>2 DEF HeightOf
    <3> QED BY <1>8, <3>1, <3>2
  <2>2. Max(S) <= Len(rows) /\ Len(rows) <= Max(S)
    BY <1>12, <1>13, <2>1 DEF HeightOf
  <2>3. Max(S) \in Nat
    BY <1>13 DEF HeightOf
  <2> QED BY <1>1, <2>2, <2>3
<1> QED BY <1>7, <1>13, <1>14

(* What an index says of a position, whatever the rows, and the part of it *)
(* that is filled, in a square.                                            *)
Entry == [row : Nat \ {0}, cell : Nat \ {0}, col : Nat \ {0}, rowSpan : Nat \ {0}, colSpan : Nat \ {0}]
Square(b) == (1..b) \X (1..b)
Filled == UNION {[D -> Entry] : D \in {D \in SUBSET ((Nat \ {0}) \X (Nat \ {0})) : \E b \in Nat : D \subseteq Square(b)}}

\* An index under construction lies in a square and has entries,
LEMMA FilledIs ==
  ASSUME NEW f \in Filled
  PROVE  /\ \E b \in Nat : DOMAIN f \subseteq Square(b)
         /\ f = [pos \in DOMAIN f |-> f[pos]] /\ \A pos \in DOMAIN f : f[pos] \in Entry
<1>1. PICK D \in {D \in SUBSET ((Nat \ {0}) \X (Nat \ {0})) : \E b \in Nat : D \subseteq Square(b)} : f \in [D -> Entry]
  BY DEF Filled
<1>2. PICK b \in Nat : D \subseteq Square(b)
  BY <1>1
<1>3. DOMAIN f = D
  BY <1>1
<1> QED BY <1>1, <1>2, <1>3

\* and whatever does is one.
LEMMA IsFilled ==
  ASSUME NEW f, f = [pos \in DOMAIN f |-> f[pos]], \A pos \in DOMAIN f : f[pos] \in Entry,
         NEW b \in Nat, DOMAIN f \subseteq Square(b)
  PROVE  f \in Filled
<1>1. DOMAIN f \in SUBSET ((Nat \ {0}) \X (Nat \ {0}))
  <2>1. ASSUME NEW p \in DOMAIN f
        PROVE  p \in (Nat \ {0}) \X (Nat \ {0})
    <3>1. p \in (1..b) \X (1..b)
      BY DEF Square
    <3> QED BY <3>1
  <2> QED BY <2>1
<1>2. f \in [DOMAIN f -> Entry]
  OBVIOUS
<1> QED BY <1>1, <1>2 DEF Filled

\* Placing a cell.
LEMMA PlaceFills ==
  ASSUME NEW rows \in Seq(Seq(Cell)), NEW r \in 1..Len(rows), NEW i \in 1..Len(rows[r]), NEW f \in Filled
  PROVE  PlaceCell(rows, f, r, i) \in Filled
<1> DEFINE next == {i} \union {pos[2] + 1 : pos \in DOMAIN f}
           S == {c \in next : c >= i /\ <<r, c>> \notin DOMAIN f}
           info == Info(rows, r, i, Min(S))
<1>1. Len(rows) \in Nat /\ Len(rows[r]) \in Nat /\ r \in Nat \ {0} /\ i \in Nat \ {0}
  BY RowsTyped
<1>2. rows[r][i].rowSpan \in Nat \ {0} /\ rows[r][i].colSpan \in Nat \ {0}
  BY RowsTyped, CellTyped
<1>3. PICK b \in Nat : DOMAIN f \subseteq Square(b)
  BY FilledIs
<1>4. \A p \in DOMAIN f : p[1] \in 1..b /\ p[2] \in 1..b
  BY <1>3 DEF Square
<1> DEFINE d == b + i
<1>5. d \in Nat /\ b <= d /\ i <= d
  BY <1>1
<1> HIDE DEF d
<1>6. \A c \in next : c = i \/ c \in 2..(b + 1)
  BY <1>4
<1>7. S \in SUBSET (1..(d + 1))
  <2>1. ASSUME NEW x \in S
        PROVE  x \in 1..(d + 1)
    <3>1. x = i \/ x \in 2..(b + 1)
      BY <1>6
    <3> QED BY <1>1, <1>5, <3>1
  <2> QED BY <2>1
<1>8. S # {}
  <2>1. CASE <<r, i>> \notin DOMAIN f
    BY <1>1, <2>1
  <2>2. CASE <<r, i>> \in DOMAIN f
    <3> DEFINE T == {pos[2] : pos \in DOMAIN f}
    <3>1. T \in SUBSET (1..b) /\ T # {} /\ i \in T
      BY <1>4, <2>2
    <3>2. \A p \in DOMAIN f : p[2] \in T
      OBVIOUS
    <3>3. \A x \in T : x + 1 \in next
      OBVIOUS
    <3> HIDE DEF T
    <3>4. Max(T) \in T /\ \A x \in T : x <= Max(T)
      <4>1. 1 \in Int /\ b \in Int
        OBVIOUS
      <4> QED BY <3>1, <4>1, HasMax
    <3>5. Max(T) \in 1..b
      BY <3>1, <3>4
    <3>6. i <= Max(T)
      BY <3>1, <3>4
    <3>7. Max(T) + 1 \in next /\ Max(T) + 1 >= i
      BY <1>1, <3>3, <3>4, <3>5, <3>6
    <3>8. <<r, Max(T) + 1>> \notin DOMAIN f
      <4>1. SUFFICES ASSUME <<r, Max(T) + 1>> \in DOMAIN f
                     PROVE  FALSE
        OBVIOUS
      <4>2. Max(T) + 1 \in T
        BY <3>2, <4>1
      <4> QED BY <3>4, <3>5, <4>2
    <3> QED BY <3>7, <3>8
  <2> QED BY <2>1, <2>2
<1>9. PlaceCell(rows, f, r, i) = Covered(f, info)
  BY DEF PlaceCell
<1> HIDE DEF S, next
<1>10. Min(S) \in 1..(d + 1)
  <2>1. 1 \in Int /\ d + 1 \in Int
    BY <1>5
  <2>2. Min(S) \in S
    BY <1>7, <1>8, <2>1, HasMin
  <2> QED BY <1>7, <2>2
<1>11. info \in Entry
  BY <1>1, <1>2, <1>5, <1>10 DEF Info, Entry
<1>12. /\ info.row = r /\ info.col = Min(S) /\ info.rowSpan = rows[r][i].rowSpan
       /\ info.colSpan = rows[r][i].colSpan
  BY DEF Info
<1> DEFINE e == d + 1 + r + info.rowSpan + info.colSpan
<1>13. e \in Nat /\ b <= e /\ info.row + info.rowSpan - 1 <= e /\ info.col + info.colSpan - 1 <= e /\ 1 <= info.row /\ 1 <= info.col
  <2>1. info.rowSpan \in Nat \ {0} /\ info.colSpan \in Nat \ {0} /\ info.row = r /\ info.col \in 1..(d + 1)
    BY <1>2, <1>10, <1>12
  <2> HIDE DEF info
  <2> DEFINE h == info.rowSpan
             w == info.colSpan
             m == info.col
  <2>2. h \in Int /\ w \in Int /\ m \in Int /\ h >= 1 /\ w >= 1 /\ m >= 1 /\ m <= d + 1 /\ r >= 1 /\ r \in Int
    BY <1>1, <1>5, <2>1
  <2>3. e = d + 1 + r + h + w
    OBVIOUS
  <2>4. e \in Int /\ e >= b /\ r + h - 1 <= e /\ m + w - 1 <= e /\ e >= 0
    <3> HIDE DEF h, w, m, e
    <3> QED BY <1>5, <2>2, <2>3
  <2> QED BY <2>1, <2>2, <2>4
<1>14. info.row \in Nat /\ info.col \in Nat /\ info.rowSpan \in Nat /\ info.colSpan \in Nat
  BY <1>11 DEF Entry
<1> HIDE DEF e, info
<1>15. Area(info) \subseteq Square(e)
  <2>1. ASSUME NEW p \in Area(info)
        PROVE  p \in Square(e)
    <3>1. p \in (info.row..(info.row + info.rowSpan - 1)) \X (info.col..(info.col + info.colSpan - 1))
      BY DEF Area
    <3>2. p[1] \in info.row..(info.row + info.rowSpan - 1) /\ p[2] \in info.col..(info.col + info.colSpan - 1)
      BY <3>1
    <3>3. p[1] \in Int /\ p[1] >= info.row /\ p[1] <= info.row + info.rowSpan - 1
      BY <1>14, <3>2
    <3>4. p[2] \in Int /\ p[2] >= info.col /\ p[2] <= info.col + info.colSpan - 1
      BY <1>14, <3>2
    <3>5. p[1] \in 1..e
      BY <1>13, <1>14, <3>3
    <3>6. p[2] \in 1..e
      BY <1>13, <1>14, <3>4
    <3> QED BY <3>1, <3>5, <3>6 DEF Square
  <2> QED BY <2>1
<1>16. DOMAIN f \subseteq Square(e)
  <2>1. Square(b) \subseteq Square(e)
    BY <1>13 DEF Square
  <2> QED BY <1>3, <2>1
<1> DEFINE g == Covered(f, info)
<1>17. /\ DOMAIN g = Area(info) \union DOMAIN f /\ g = [pos \in DOMAIN g |-> g[pos]]
       /\ \A pos \in DOMAIN g : g[pos] = IF pos \in Area(info) THEN info ELSE f[pos]
  BY DEF Covered
<1> HIDE DEF g
<1>18. \A pos \in DOMAIN g : g[pos] \in Entry
  BY <1>11, <1>17, FilledIs
<1>19. DOMAIN g \subseteq Square(e)
  BY <1>15, <1>16, <1>17
<1>20. g \in Filled
  BY <1>13, <1>17, <1>18, <1>19, IsFilled
<1> QED BY <1>9, <1>20 DEF g

\* Placing the cells of a row.
LEMMA RowFills ==
  ASSUME NEW rows \in Seq(Seq(Cell)), NEW r \in 1..Len(rows), NEW f \in Filled
  PROVE  FillRow(rows, f, r) \in Filled
<1> DEFINE n == Len(rows[r])
           Solves(g) == g = [i \in 0..n |-> IF i = 0 THEN f ELSE PlaceCell(rows, g[i - 1], r, i)]
           fill == CHOOSE g : Solves(g)
           val(p) == PlaceCell(rows, p[1], r, p[2])
           step == [p \in Filled \X (1..n) |-> val(p)]
<1>1. n \in Nat
  BY RowsTyped
<1>2. FillRow(rows, f, r) = fill[n]
  BY DEF FillRow
<1>3. ASSUME NEW g \in Filled, NEW i \in 1..n
      PROVE  PlaceCell(rows, g, r, i) \in Filled
  BY PlaceFills
<1> HIDE DEF n
<1>4. step \in [Filled \X (1..n) -> Filled]
  <2>1. ASSUME NEW p \in Filled \X (1..n)
        PROVE  val(p) \in Filled
    <3>1. p[1] \in Filled /\ p[2] \in 1..n
      OBVIOUS
    <3> QED BY <1>3, <3>1
  <2> HIDE DEF val
  <2> QED BY <2>1
<1>5. \A g \in Filled, i \in 1..n : step[<<g, i>>] = PlaceCell(rows, g, r, i)
  OBVIOUS
<1> HIDE DEF step
<1>6. PICK h : Recurs(h, n, Filled, f, step)
  BY <1>1, <1>4, Recursion
<1>7. Solves(h)
  <2>1. ASSUME NEW i \in 0..n
        PROVE  h[i] = IF i = 0 THEN f ELSE PlaceCell(rows, h[i - 1], r, i)
    <3>1. CASE i = 0
      BY <1>6, <3>1 DEF Recurs
    <3>2. CASE i # 0
      <4>1. i \in 1..n /\ i - 1 \in 0..n /\ h[i - 1] \in Filled
        BY <1>1, <1>6, <3>2 DEF Recurs
      <4> QED BY <1>5, <1>6, <3>2, <4>1 DEF Recurs
    <3> QED BY <3>1, <3>2
  <2>2. h = [i \in 0..n |-> h[i]]
    BY <1>6 DEF Recurs
  <2> QED BY <2>1, <2>2
<1>8. Solves(fill)
  <2> HIDE DEF Solves
  <2> QED BY <1>7
<1> HIDE DEF fill
<1> DEFINE ok == {i \in Nat : i <= n => fill[i] \in Filled}
<1>9. 0 \in ok
  BY <1>1, <1>8
<1>10. ASSUME NEW i \in Nat, i \in ok
       PROVE  i + 1 \in ok
  <2> SUFFICES ASSUME i + 1 <= n
               PROVE  fill[i + 1] \in Filled
    OBVIOUS
  <2>1. i + 1 \in 0..n /\ i + 1 # 0 /\ (i + 1) - 1 = i /\ i <= n /\ i + 1 \in 1..n
    BY <1>1
  <2>2. fill[i + 1] = PlaceCell(rows, fill[i], r, i + 1) /\ fill[i] \in Filled
    BY <1>8, <1>10, <2>1
  <2> QED BY <1>3, <2>1, <2>2
<1> HIDE DEF ok
<1>11. n \in ok
  BY <1>1, <1>9, <1>10, NatInSet
<1> QED BY <1>1, <1>2, <1>11 DEF ok

\* And of all rows.
LEMMA IndexFills ==
  ASSUME NEW rows \in Seq(Seq(Cell))
  PROVE  FillIndex(rows) \in Filled
<1> DEFINE n == Len(rows)
           Solves(g) == g = [i \in 0..n |-> IF i = 0 THEN <<>> ELSE FillRow(rows, g[i - 1], i)]
           fill == CHOOSE g : Solves(g)
           val(p) == FillRow(rows, p[1], p[2])
           step == [p \in Filled \X (1..n) |-> val(p)]
<1>1. n \in Nat
  BY RowsTyped
<1>2. FillIndex(rows) = fill[n]
  BY DEF FillIndex
<1>3. ASSUME NEW g \in Filled, NEW i \in 1..n
      PROVE  FillRow(rows, g, i) \in Filled
  BY RowFills
<1>0. <<>> \in Filled
  <2>1. DOMAIN <<>> = {} /\ <<>> = [pos \in DOMAIN <<>> |-> (<<>>)[pos]]
    OBVIOUS
  <2>2. DOMAIN <<>> \subseteq Square(0)
    BY <2>1
  <2>3. \A pos \in DOMAIN <<>> : (<<>>)[pos] \in Entry
    BY <2>1
  <2>4. 0 \in Nat
    OBVIOUS
  <2> HIDE DEF n
  <2> QED BY <2>1, <2>2, <2>3, <2>4, IsFilled
<1> HIDE DEF n
<1>4. step \in [Filled \X (1..n) -> Filled]
  <2>1. ASSUME NEW p \in Filled \X (1..n)
        PROVE  val(p) \in Filled
    <3>1. p[1] \in Filled /\ p[2] \in 1..n
      OBVIOUS
    <3> QED BY <1>3, <3>1
  <2> HIDE DEF val
  <2> QED BY <2>1
<1>5. \A g \in Filled, i \in 1..n : step[<<g, i>>] = FillRow(rows, g, i)
  OBVIOUS
<1> HIDE DEF step
<1>6. PICK h : Recurs(h, n, Filled, <<>>, step)
  BY <1>0, <1>1, <1>4, Recursion
<1>7. Solves(h)
  <2>1. ASSUME NEW i \in 0..n
        PROVE  h[i] = IF i = 0 THEN <<>> ELSE FillRow(rows, h[i - 1], i)
    <3>1. CASE i = 0
      BY <1>6, <3>1 DEF Recurs
    <3>2. CASE i # 0
      <4>1. i \in 1..n /\ i - 1 \in 0..n /\ h[i - 1] \in Filled
        BY <1>1, <1>6, <3>2 DEF Recurs
      <4> QED BY <1>5, <1>6, <3>2, <4>1 DEF Recurs
    <3> QED BY <3>1, <3>2
  <2>2. h = [i \in 0..n |-> h[i]]
    BY <1>6 DEF Recurs
  <2> QED BY <2>1, <2>2
<1>8. Solves(fill)
  <2> HIDE DEF Solves
  <2> QED BY <1>7
<1> HIDE DEF fill
<1> DEFINE ok == {i \in Nat : i <= n => fill[i] \in Filled}
<1>9. 0 \in ok
  BY <1>0, <1>1, <1>8
<1>10. ASSUME NEW i \in Nat, i \in ok
       PROVE  i + 1 \in ok
  <2> SUFFICES ASSUME i + 1 <= n
               PROVE  fill[i + 1] \in Filled
    OBVIOUS
  <2>1. i + 1 \in 0..n /\ i + 1 # 0 /\ (i + 1) - 1 = i /\ i <= n /\ i + 1 \in 1..n
    BY <1>1
  <2>2. fill[i + 1] = FillRow(rows, fill[i], i + 1) /\ fill[i] \in Filled
    BY <1>8, <1>10, <2>1
  <2> QED BY <1>3, <2>1, <2>2
<1> HIDE DEF ok
<1>11. n \in ok
  BY <1>1, <1>9, <1>10, NatInSet
<1> QED BY <1>1, <1>2, <1>11 DEF ok

(* Row v is row u with cells of one row put behind it.                     *)
Longer(v, u) ==
    /\ v \in Seq(Cell) /\ Len(u) <= Len(v)
    /\ \A i \in 1..Len(u) : v[i] = u[i]
    /\ \A i \in 1..Len(v) : i > Len(u) => v[i].rowSpan = 1

\* The cells a row misses.
LEMMA CloneIs ==
  ASSUME NEW row \in Seq(Cell)
  PROVE  Clone(row) \in Cell /\ Clone(row).rowSpan = 1
<1> DEFINE x == IF row = <<>> THEN BlankCell ELSE Last(row)
<1>1. x \in Cell
  <2>1. CASE row = <<>>
    BY <2>1, BlankIs
  <2>2. CASE row # <<>>
    <3>1. Len(row) \in Nat /\ Len(row) # 0
      BY <2>2
    <3>2. Len(row) \in 1..Len(row)
      BY <3>1
    <3>3. row[Len(row)] \in Cell
      BY <3>2
    <3> QED BY <2>2, <3>3 DEF Last
  <2> QED BY <2>1, <2>2
<1>2. Clone(row) = [x EXCEPT !.rowSpan = 1, !.colSpan = 1, !.text = {}]
  BY DEF Clone
<1> HIDE DEF x
<1> DEFINE a == [x EXCEPT !.rowSpan = 1]
           b == [a EXCEPT !.colSpan = 1]
           d == [b EXCEPT !.text = {}]
<1>3. x = [rowSpan |-> x.rowSpan, colSpan |-> x.colSpan, text |-> x.text, selected |-> x.selected]
  BY <1>1 DEF Cell
<1>4. Clone(row) = d
  BY <1>2, <1>3
<1>5. a \in Cell /\ a.rowSpan = 1
  <2>1. 1 \in Nat \ {0}
    OBVIOUS
  <2> QED BY <1>1, <2>1, WithRowSpan
<1> HIDE DEF a
<1>6. b \in Cell /\ b.rowSpan = 1
  <2>1. 1 \in Nat \ {0}
    OBVIOUS
  <2> QED BY <1>5, <2>1, WithColSpan
<1> HIDE DEF b
<1>7. d \in Cell /\ d.rowSpan = 1
  BY <1>6, WithText
<1> QED BY <1>4, <1>7

\* There are finitely many positions that no cell covers.
LEMMA MissingIs ==
  ASSUME NEW f \in Filled, NEW r, NEW m \in Nat
  PROVE  /\ Cardinality(Missing(f, r, m)) \in Nat
         /\ \A c \in 1..m : <<r, c>> \notin DOMAIN f =>
              Cardinality({x \in Missing(f, r, m) : x <= c}) \in Nat \ {0}
<1>1. Missing(f, r, m) \subseteq 1..m /\ \A c \in 1..m : <<r, c>> \notin DOMAIN f => c \in Missing(f, r, m)
  BY DEF Missing
<1>2. IsFiniteSet(1..m)
  BY FS_Interval
<1>3. IsFiniteSet(Missing(f, r, m))
  BY <1>1, <1>2, FS_Subset
<1>4. ASSUME NEW c \in 1..m, <<r, c>> \notin DOMAIN f
      PROVE  Cardinality({x \in Missing(f, r, m) : x <= c}) \in Nat \ {0}
  <2> DEFINE S == {x \in Missing(f, r, m) : x <= c}
  <2>1. S \subseteq Missing(f, r, m) /\ c \in S
    BY <1>1, <1>4
  <2> HIDE DEF S
  <2>2. IsFiniteSet(S) /\ S # {}
    BY <1>3, <2>1, FS_Subset
  <2>3. Cardinality(S) \in Nat \ {0}
    BY <2>2, FS_CardinalityType, FS_EmptySet
  <2> QED BY <2>3 DEF S
<1> QED BY <1>3, <1>4, FS_CardinalityType

\* The missing cells are put behind the others.
LEMMA WithMissingIs ==
  ASSUME NEW rows \in Seq(Seq(Cell)), NEW f \in Filled, NEW m \in Nat, NEW w, w = WithMissing(rows, f, m)
  PROVE  /\ w \in Seq(Seq(Cell)) /\ Len(w) = Len(rows)
         /\ \A r \in 1..Len(rows) : Longer(w[r], rows[r])
<1>1. Len(rows) \in Nat /\ DOMAIN rows = 1..Len(rows)
  BY RowsTyped
<1>2. ASSUME NEW r \in 1..Len(rows)
      PROVE  w[r] \in Seq(Cell) /\ Longer(w[r], rows[r])
  <2> DEFINE n == Cardinality(Missing(f, r, m))
             x == Clone(rows[r])
             more == [k \in 1..n |-> x]
  <2>1. n \in Nat /\ rows[r] \in Seq(Cell)
    BY MissingIs, RowsTyped
  <2>2. x \in Cell /\ x.rowSpan = 1
    BY <2>1, CloneIs
  <2>3. w[r] = rows[r] \o more
    BY <1>1 DEF WithMissing
  <2> HIDE DEF n, x
  <2>4. more \in [1..n -> Cell]
    BY <2>2
  <2>5. more \in Seq(Cell) /\ Len(more) = n /\ \A k \in 1..n : more[k] = x
    <3>1. \A k \in 1..n : more[k] = x
      OBVIOUS
    <3> HIDE DEF more
    <3> QED BY <2>1, <2>4, <3>1, FcnIsSeq
  <2> HIDE DEF more
  <2>6. w[r] \in Seq(Cell) /\ Len(w[r]) = Len(rows[r]) + n
    <3>1. rows[r] \o more \in Seq(Cell)
      BY <2>1, <2>5
    <3>2. Len(rows[r] \o more) = Len(rows[r]) + Len(more)
      BY <2>1, <2>5, ConcatProperties
    <3> QED BY <2>3, <2>5, <3>1, <3>2
  <2>7. \A i \in 1..Len(rows[r]) : w[r][i] = rows[r][i]
    BY <2>1, <2>3, <2>5
  <2>8. \A i \in 1..Len(w[r]) : i > Len(rows[r]) => w[r][i] = x
    BY <2>1, <2>3, <2>5, <2>6
  <2>9. Len(rows[r]) \in Nat
    BY <2>1
  <2> QED BY <2>1, <2>2, <2>6, <2>7, <2>8, <2>9 DEF Longer
<1>3. w = [r \in 1..Len(rows) |-> w[r]]
  BY <1>1 DEF WithMissing
<1> HIDE DEF WithMissing
<1>4. w \in [1..Len(rows) -> Seq(Cell)]
  BY <1>2, <1>3
<1> QED BY <1>1, <1>2, <1>4, FcnIsSeq

\* What the completed index says of a position.
LEMMA IndexTyped ==
  ASSUME NEW rows \in Seq(Seq(Cell)), NEW f \in Filled, NEW m \in Nat,
         NEW r \in 1..Len(rows), NEW c \in 1..m
  PROVE  IndexWithMissing(rows, f, m)[<<r, c>>] \in Entry
<1> DEFINE pos == <<r, c>>
           n == Cardinality({x \in Missing(f, r, m) : x <= c})
<1>1. Len(rows) \in Nat /\ DOMAIN rows = 1..Len(rows) /\ Len(rows[r]) \in Nat
  BY RowsTyped
<1>2. pos \in (DOMAIN rows) \X (1..m)
  BY <1>1
<1>3. CASE pos \in DOMAIN f
  <2>1. IndexWithMissing(rows, f, m)[pos] = f[pos]
    BY <1>2, <1>3 DEF IndexWithMissing
  <2> QED BY <1>3, <2>1, FilledIs
<1>4. CASE pos \notin DOMAIN f
  <2>1. IndexWithMissing(rows, f, m)[pos]
          = [row |-> r, cell |-> Len(rows[r]) + n, col |-> c, rowSpan |-> 1, colSpan |-> 1]
    BY <1>2, <1>4 DEF IndexWithMissing
  <2>2. n \in Nat \ {0}
    BY <1>4, MissingIs
  <2> HIDE DEF n
  <2>3. Len(rows[r]) + n \in Nat \ {0}
    BY <1>1, <2>2
  <2> QED BY <1>1, <2>1, <2>3 DEF Entry
<1> QED BY <1>3, <1>4

(* Table u is built from some rows: none of their cells is lost, and every *)
(* position of the grid has an entry.                                      *)
BuiltFrom(u, rows) ==
    /\ u.state = "ready" /\ u.rows \in Seq(Seq(Cell)) /\ u.rowsNum = Len(u.rows) /\ u.colsNum \in Nat
    /\ Len(rows) <= Len(u.rows) /\ \A r \in 1..Len(rows) : Longer(u.rows[r], rows[r])
    /\ \A r \in 1..u.rowsNum, c \in 1..u.colsNum : u.index[<<r, c>>] \in Entry
    /\ HeightOf(rows, Len(rows)) => Len(u.rows) = Len(rows)
    /\ \A r \in 1..Len(rows) : Len(rows[r]) <= u.colsNum

\* What update makes of any rows of cells.
LEMMA UpdateBuilds ==
  ASSUME NEW rows \in Seq(Seq(Cell))
  PROVE  BuiltFrom(update(rows), rows)
<1> DEFINE h == getMaxRows(rows)
           m == getMaxCols(rows)
           full == [r \in 1..h |-> IF r \in DOMAIN rows THEN rows[r] ELSE <<>>]
           f == FillIndex(full)
           u == update(rows)
<1>1. Len(rows) \in Nat /\ DOMAIN rows = 1..Len(rows) /\ \A r \in 1..Len(rows) : rows[r] \in Seq(Cell)
  BY RowsTyped
<1>2. HeightOf(rows, h) /\ (HeightOf(rows, Len(rows)) => h = Len(rows))
  BY MaxRowsNat
<1>3. m \in Nat /\ \A r \in 1..Len(rows) : Len(rows[r]) <= m
  BY MaxColsNat
<1>4. h \in Nat /\ Len(rows) <= h
  BY <1>2 DEF HeightOf
<1>5. /\ u.rows = WithMissing(full, f, m) /\ u.index = IndexWithMissing(full, f, m)
      /\ u.rowsNum = h /\ u.colsNum = m /\ u.state = "ready"
  BY DEF update
<1> HIDE DEF h, m, u
<1>6. full \in [1..h -> Seq(Cell)]
  <2>1. <<>> \in Seq(Cell)
    OBVIOUS
  <2> QED BY <1>1, <2>1
<1>7. full \in Seq(Seq(Cell)) /\ Len(full) = h
  BY <1>4, <1>6, FcnIsSeq
<1>8. \A r \in 1..Len(rows) : full[r] = rows[r]
  BY <1>1, <1>4
<1> HIDE DEF full
<1>9. f \in Filled
  BY <1>7, IndexFills
<1> HIDE DEF f
<1>10. u.rows \in Seq(Seq(Cell)) /\ Len(u.rows) = h /\ \A r \in 1..h : Longer(u.rows[r], full[r])
  BY <1>3, <1>5, <1>7, <1>9, WithMissingIs
<1>11. \A r \in 1..Len(rows) : Longer(u.rows[r], rows[r])
  <2>1. ASSUME NEW r \in 1..Len(rows)
        PROVE  Longer(u.rows[r], rows[r])
    <3>1. r \in 1..h /\ full[r] = rows[r]
      BY <1>1, <1>4, <1>8
    <3>2. Longer(u.rows[r], full[r])
      BY <1>10, <3>1
    <3> QED BY <3>1, <3>2
  <2> QED BY <2>1
<1>12. \A r \in 1..h, c \in 1..m : u.index[<<r, c>>] \in Entry
  BY <1>3, <1>5, <1>7, <1>9, IndexTyped
<1>13. BuiltFrom(u, rows)
  BY <1>2, <1>3, <1>4, <1>5, <1>10, <1>11, <1>12 DEF BuiltFrom
<1> QED BY <1>13 DEF u

-----------------------------------------------------------------------------
(* Columns put in wherever cells begin.                                    *)

(* Row v has the contents of row u, and no cell higher than one of u.      *)
Covers(v, u) ==
    /\ v \in Seq(Cell) /\ u \in Seq(Cell) /\ Len(u) <= Len(v)
    /\ \A i \in 1..Len(u) : \E j \in 1..Len(v) : v[j].text = u[i].text
    /\ \A j \in 1..Len(v) : v[j].rowSpan = 1 \/ \E i \in 1..Len(u) : v[j].rowSpan = u[i].rowSpan

RowsCover(w, rows) ==
    /\ w \in Seq(Seq(Cell)) /\ rows \in Seq(Seq(Cell)) /\ Len(rows) <= Len(w)
    /\ \A r \in 1..Len(rows) : Covers(w[r], rows[r])

\* Covering a row is transitive.
LEMMA CoversTrans ==
  ASSUME NEW u, NEW v, NEW w, Covers(w, v), Covers(v, u)
  PROVE  Covers(w, u)
<1>1. Len(u) \in Nat /\ Len(v) \in Nat /\ Len(w) \in Nat
  BY DEF Covers
<1>2. Len(u) <= Len(w)
  BY <1>1 DEF Covers
<1>3. ASSUME NEW i \in 1..Len(u)
      PROVE  \E k \in 1..Len(w) : w[k].text = u[i].text
  <2>1. PICK j \in 1..Len(v) : v[j].text = u[i].text
    BY DEF Covers
  <2>2. PICK k \in 1..Len(w) : w[k].text = v[j].text
    BY DEF Covers
  <2> QED BY <2>1, <2>2
<1>4. ASSUME NEW k \in 1..Len(w), w[k].rowSpan # 1
      PROVE  \E i \in 1..Len(u) : w[k].rowSpan = u[i].rowSpan
  <2>1. PICK j \in 1..Len(v) : w[k].rowSpan = v[j].rowSpan
    BY <1>4 DEF Covers
  <2>2. PICK i \in 1..Len(u) : v[j].rowSpan = u[i].rowSpan
    BY <1>4, <2>1 DEF Covers
  <2> QED BY <2>1, <2>2
<1> QED BY <1>2, <1>3, <1>4 DEF Covers

\* A row with further cells at its end covers the row,
LEMMA LongerCovers ==
  ASSUME NEW v, NEW u \in Seq(Cell), Longer(v, u)
  PROVE  Covers(v, u)
<1>1. Len(u) \in Nat /\ Len(v) \in Nat
  BY DEF Longer
<1>2. \A i \in 1..Len(u) : i \in 1..Len(v)
  BY <1>1 DEF Longer
<1>3. ASSUME NEW j \in 1..Len(v), v[j].rowSpan # 1
      PROVE  j \in 1..Len(u)
  BY <1>1, <1>3 DEF Longer
<1> QED BY <1>1, <1>2, <1>3 DEF Longer, Covers

\* and so does one with a new cell inside.
LEMMA InsertedCovers ==
  ASSUME NEW u \in Seq(Cell), NEW m \in 1..(Len(u) + 1), NEW v, Inserted(v, u, m, BlankCell)
  PROVE  Covers(v, u)
<1>1. Len(u) \in Nat /\ Len(v) = Len(u) + 1 /\ v \in Seq(Cell)
  BY DEF Inserted
<1>2. ASSUME NEW i \in 1..Len(u)
      PROVE  \E j \in 1..Len(v) : v[j].text = u[i].text
  <2>1. CASE i < m
    <3>1. i \in 1..Len(v) /\ v[i] = u[i]
      BY <1>1, <2>1 DEF Inserted
    <3> QED BY <3>1
  <2>2. CASE ~(i < m)
    <3>1. i + 1 \in 1..Len(v) /\ ~(i + 1 < m) /\ i + 1 # m /\ (i + 1) - 1 = i
      BY <1>1, <2>2
    <3>2. v[i + 1] = u[i]
      BY <3>1 DEF Inserted
    <3> QED BY <3>1, <3>2
  <2> QED BY <2>1, <2>2
<1>3. ASSUME NEW j \in 1..Len(v), v[j].rowSpan # 1
      PROVE  \E i \in 1..Len(u) : v[j].rowSpan = u[i].rowSpan
  <2>1. j # m
    BY <1>3, BlankIs DEF Inserted
  <2>2. CASE j < m
    <3>1. j \in 1..Len(u) /\ v[j] = u[j]
      BY <1>1, <2>2 DEF Inserted
    <3> QED BY <3>1
  <2>3. CASE ~(j < m)
    <3>1. j - 1 \in 1..Len(u) /\ v[j] = u[j - 1]
      BY <1>1, <2>1, <2>3 DEF Inserted
    <3> QED BY <3>1
  <2> QED BY <2>2, <2>3
<1> QED BY <1>1, <1>2, <1>3 DEF Covers

\* Every row covers itself.
LEMMA SelfCovers ==
  ASSUME NEW u \in Seq(Cell)
  PROVE  Covers(u, u)
BY DEF Covers

\* What WithNewCell does to a row, whatever the index says.
LEMMA NewCellCovers ==
  ASSUME NEW t, NEW at \in Nat \ {0}, t.colsNum \in Nat \ {0}, NEW r, NEW row \in Seq(Cell),
         at \in 2..t.colsNum => t.index[<<r, at>>] \in Entry,
         NEW v, v = WithNewCell(t, at, row, r)
  PROVE  Covers(v, row)
<1> DEFINE info == t.index[<<r, at>>]
<1>1. Len(row) \in Nat /\ BlankCell \in Cell
  BY BlankIs
<1>2. CASE at = 1
  <2>1. v = <<BlankCell>> \o row
    BY <1>2 DEF WithNewCell
  <2>2. Inserted(v, row, 1, BlankCell)
    BY <1>1, <2>1, PrependIs
  <2>3. 1 \in 1..(Len(row) + 1)
    BY <1>1
  <2> QED BY <2>2, <2>3, InsertedCovers
<1>3. CASE at > t.colsNum
  <2>1. v = Append(row, BlankCell)
    BY <1>3 DEF WithNewCell
  <2>2. Inserted(v, row, Len(row) + 1, BlankCell)
    BY <1>1, <2>1, AppendIs
  <2>3. Len(row) + 1 \in 1..(Len(row) + 1)
    BY <1>1
  <2> QED BY <2>2, <2>3, InsertedCovers
<1>4. CASE at \in 2..t.colsNum
  <2>1. info \in Entry
    BY <1>4
  <2>2. info.col \in Nat /\ info.cell \in Nat \ {0}
    BY <2>1 DEF Entry
  <2>3. CASE info.col < at
    <3>1. v = row
      <4>1. at # 1 /\ ~(at > t.colsNum)
        BY <1>4
      <4>2. info.col \in Int
        BY <2>2
      <4> QED BY <4>1, <4>2, <1>4, <2>3, NewCellIs
    <3> QED BY <3>1, SelfCovers
  <2>4. CASE ~(info.col < at)
    <3>1. v = IF info.cell <= Len(row) THEN InsertAt(row, info.cell, BlankCell) ELSE Append(row, BlankCell)
      BY <1>4, <2>2, <2>4 DEF WithNewCell
    <3> HIDE DEF info
    <3>2. CASE info.cell <= Len(row)
      <4>1. info.cell \in 1..(Len(row) + 1)
        BY <1>1, <2>2, <3>2
      <4>2. Inserted(v, row, info.cell, BlankCell)
        BY <1>1, <3>1, <3>2, <4>1, InsertAtIs
      <4> QED BY <4>1, <4>2, InsertedCovers
    <3>3. CASE ~(info.cell <= Len(row))
      <4>1. Len(row) + 1 \in 1..(Len(row) + 1)
        BY <1>1
      <4>2. Inserted(v, row, Len(row) + 1, BlankCell)
        BY <1>1, <3>1, <3>3, AppendIs
      <4> QED BY <4>1, <4>2, InsertedCovers
    <3> QED BY <3>2, <3>3
  <2> QED BY <2>3, <2>4
<1> QED BY <1>2, <1>3, <1>4

(* A table whose index need not be the table, but has an entry for every   *)
(* position.                                                               *)
Loose(t) ==
    /\ t.state = "ready" /\ t.rows \in Seq(Seq(Cell)) /\ t.rowsNum = Len(t.rows) /\ t.colsNum \in Nat \ {0}
    /\ \A r \in 1..t.rowsNum, c \in 1..t.colsNum : t.index[<<r, c>>] \in Entry
    /\ \E r \in 1..Len(t.rows) : t.rows[r] # <<>>

(* A row without a cell, or a first row of one cell.                       *)
BareRow(t) == (\E r \in 1..t.rowsNum : t.rows[r] = <<>>) \/ Len(t.rows[1]) = 1

(* What insertCol leaves behind: a table built again, or half done.        *)
Leaves(u, t, rows, stopped) ==
    \/ u = update(rows)
    \/ u = Throw(t, rows) /\ stopped

\* A column put in loses no cell, and stops half way only in a table with a
\* bare row.
LEMMA InsColCovers ==
  ASSUME NEW t, Loose(t), NEW at \in Nat \ {0}
  PROVE  \E rows : /\ RowsCover(rows, t.rows) /\ Len(rows) = Len(t.rows)
                   /\ Leaves(insertCol(t, at), t, rows, BareRow(t))
<1> DEFINE reached(r) == at \in 2..t.colsNum /\ t.index[<<r, at>>].col < at
           Stops(r) == \/ at > t.colsNum /\ t.rows[r] = <<>>
                       \/ r = 1 /\ reached(1) /\ Len(t.rows[1]) = 1
           stop == {r \in 1..t.rowsNum : Stops(r)}
           done == IF stop = {} THEN 1..t.rowsNum
                   ELSE {r \in 1..t.rowsNum : r < Min(stop) \/ (r = Min(stop) /\ reached(r))}
           grown == {<<t.index[<<r, at>>].row, t.index[<<r, at>>].cell>> : r \in {x \in done : reached(x)}}
           cell(r, i) == IF <<r, i>> \in grown THEN [t.rows[r][i] EXCEPT !.colSpan = @ + 1] ELSE t.rows[r][i]
           wider == [r \in DOMAIN t.rows |-> [i \in DOMAIN t.rows[r] |-> cell(r, i)]]
           row(r) == IF r \in done THEN WithNewCell(t, at, wider[r], r) ELSE wider[r]
           rows == [r \in DOMAIN wider |-> row(r)]
<1>1. insertCol(t, at) = IF stop = {} THEN update(rows) ELSE Throw(t, rows)
  BY DEF insertCol
<1>2. t.rows \in Seq(Seq(Cell)) /\ t.rowsNum = Len(t.rows) /\ t.colsNum \in Nat \ {0}
  BY DEF Loose
<1>3. Len(t.rows) \in Nat /\ DOMAIN t.rows = 1..Len(t.rows)
      /\ \A r \in 1..Len(t.rows) : t.rows[r] \in Seq(Cell) /\ DOMAIN t.rows[r] = 1..Len(t.rows[r])
  BY <1>2, RowsTyped
<1>4. stop # {} => BareRow(t)
  BY DEF BareRow
<1>5. done \subseteq 1..t.rowsNum
  OBVIOUS
<1> HIDE DEF done, grown, stop
<1>6. ASSUME NEW r \in 1..Len(t.rows), NEW i \in 1..Len(t.rows[r])
      PROVE  cell(r, i) \in Cell /\ cell(r, i).text = t.rows[r][i].text /\ cell(r, i).rowSpan = t.rows[r][i].rowSpan
  <2>1. t.rows[r][i] \in Cell
    BY <1>2, RowsTyped
  <2>2. t.rows[r][i].colSpan + 1 \in Nat \ {0}
    BY <2>1, CellTyped
  <2>3. CASE <<r, i>> \in grown
    <3>1. cell(r, i) = [t.rows[r][i] EXCEPT !.colSpan = t.rows[r][i].colSpan + 1]
      BY <2>3
    <3> QED BY <2>1, <2>2, <3>1, WithColSpan
  <2>4. CASE <<r, i>> \notin grown
    BY <2>1, <2>4
  <2> QED BY <2>3, <2>4
<1> HIDE DEF cell
<1>7. /\ wider = [r \in DOMAIN t.rows |-> wider[r]]
      /\ \A r \in DOMAIN t.rows : wider[r] = [i \in DOMAIN t.rows[r] |-> wider[r][i]]
      /\ \A r \in DOMAIN t.rows : \A i \in DOMAIN t.rows[r] : wider[r][i] = cell(r, i)
      /\ DOMAIN wider = DOMAIN t.rows
  OBVIOUS
<1> HIDE DEF wider
<1>8. ASSUME NEW r \in 1..Len(t.rows)
      PROVE  wider[r] \in Seq(Cell) /\ Covers(wider[r], t.rows[r])
  <2>0. ASSUME NEW x \in DOMAIN t.rows, NEW i \in DOMAIN t.rows[x]
        PROVE  /\ wider[x][i] \in Cell /\ wider[x][i].text = t.rows[x][i].text
               /\ wider[x][i].rowSpan = t.rows[x][i].rowSpan
    <3>1. x \in 1..Len(t.rows) /\ i \in 1..Len(t.rows[x])
      BY <1>3
    <3>2. wider[x][i] = cell(x, i)
      BY <1>7
    <3> QED BY <1>6, <3>1, <3>2
  <2>1. \A x \in DOMAIN t.rows : \A i \in DOMAIN t.rows[x] : wider[x][i] \in Cell
    BY <2>0
  <2>2. wider[r] \in Seq(Cell) /\ Len(wider[r]) = Len(t.rows[r])
    <3>1. wider = [x \in DOMAIN t.rows |-> wider[x]]
      BY <1>7
    <3>2. \A x \in DOMAIN t.rows : wider[x] = [i \in DOMAIN t.rows[x] |-> wider[x][i]]
      BY <1>7
    <3>3. \A x \in 1..Len(t.rows) : /\ wider[x] \in Seq(Cell) /\ Len(wider[x]) = Len(t.rows[x])
                                     /\ DOMAIN wider[x] = 1..Len(t.rows[x])
      <4> DEFINE old == t.rows
      <4>1. old \in Seq(Seq(Cell)) /\ wider = [x \in DOMAIN old |-> wider[x]]
        BY <1>2, <3>1
      <4>2. \A x \in DOMAIN old : wider[x] = [i \in DOMAIN old[x] |-> wider[x][i]]
        BY <3>2
      <4>3. \A x \in DOMAIN old : \A i \in DOMAIN old[x] : wider[x][i] \in Cell
        BY <2>1
      <4> HIDE DEF old, rows, row
      <4>4. \A x \in 1..Len(old) : /\ wider[x] \in Seq(Cell) /\ Len(wider[x]) = Len(old[x])
                                    /\ DOMAIN wider[x] = 1..Len(old[x])
        BY <4>1, <4>2, <4>3, RowsChanged
      <4> QED BY <4>4 DEF old
    <3> QED BY <3>3
  <2>3. \A i \in 1..Len(t.rows[r]) : wider[r][i].text = t.rows[r][i].text /\ wider[r][i].rowSpan = t.rows[r][i].rowSpan
    BY <1>3, <2>0
  <2>4. t.rows[r] \in Seq(Cell) /\ Len(t.rows[r]) \in Nat
    BY <1>3
  <2> QED BY <2>2, <2>3, <2>4 DEF Covers
<1>9. ASSUME NEW r \in 1..Len(t.rows)
      PROVE  row(r) \in Seq(Cell) /\ Covers(row(r), t.rows[r])
  <2>1. CASE r \in done
    <3> DEFINE v == WithNewCell(t, at, wider[r], r)
    <3>1. at \in 2..t.colsNum => t.index[<<r, at>>] \in Entry
      BY <1>2 DEF Loose
    <3>2. Covers(v, wider[r])
      BY <1>2, <1>8, <3>1, NewCellCovers
    <3>3. row(r) = v
      BY <2>1
    <3> HIDE DEF v, row
    <3>4. Covers(v, t.rows[r])
      BY <1>8, <3>2, CoversTrans
    <3> QED BY <3>3, <3>4 DEF Covers
  <2>2. CASE r \notin done
    <3>1. row(r) = wider[r]
      BY <2>2
    <3> QED BY <1>8, <3>1
  <2> QED BY <2>1, <2>2
<1> HIDE DEF row
<1>10. rows = [r \in 1..Len(t.rows) |-> rows[r]] /\ \A r \in 1..Len(t.rows) : rows[r] = row(r)
  BY <1>3, <1>7
<1> HIDE DEF rows
<1>11. rows \in [1..Len(t.rows) -> Seq(Cell)]
  BY <1>9, <1>10
<1>12. rows \in Seq(Seq(Cell)) /\ Len(rows) = Len(t.rows)
  BY <1>3, <1>11, FcnIsSeq
<1>13. RowsCover(rows, t.rows)
  <2>1. ASSUME NEW r \in 1..Len(t.rows)
        PROVE  Covers(rows[r], t.rows[r])
    <3>1. rows[r] = row(r)
      BY <1>10
    <3> QED BY <1>9, <3>1
  <2> QED BY <1>2, <1>3, <1>12, <2>1 DEF RowsCover
<1>14. Leaves(insertCol(t, at), t, rows, BareRow(t))
  BY <1>1, <1>4 DEF Leaves
<1> QED BY <1>12, <1>13, <1>14

\* Covering rows is transitive.
LEMMA RowsCoverTrans ==
  ASSUME NEW a, NEW b, NEW c, RowsCover(c, b), RowsCover(b, a)
  PROVE  RowsCover(c, a)
<1>1. Len(a) \in Nat /\ Len(b) \in Nat /\ Len(c) \in Nat
  BY RowsTyped DEF RowsCover
<1>2. ASSUME NEW r \in 1..Len(a)
      PROVE  Covers(c[r], a[r])
  <2>1. r \in 1..Len(b)
    BY <1>1 DEF RowsCover
  <2>2. Covers(c[r], b[r]) /\ Covers(b[r], a[r])
    BY <2>1 DEF RowsCover
  <2> QED BY <2>2, CoversTrans
<1> QED BY <1>1, <1>2 DEF RowsCover

\* What update builds from rows covers them.
LEMMA BuiltCovers ==
  ASSUME NEW rows \in Seq(Seq(Cell)), NEW u, BuiltFrom(u, rows)
  PROVE  RowsCover(u.rows, rows)
<1>1. \A r \in 1..Len(rows) : rows[r] \in Seq(Cell)
  BY RowsTyped
<1>2. ASSUME NEW r \in 1..Len(rows)
      PROVE  Covers(u.rows[r], rows[r])
  BY <1>1, LongerCovers DEF BuiltFrom
<1> QED BY <1>2 DEF BuiltFrom, RowsCover

\* And is such a table, too.
LEMMA BuiltLoose ==
  ASSUME NEW rows \in Seq(Seq(Cell)), NEW u, BuiltFrom(u, rows), NEW r \in 1..Len(rows), rows[r] # <<>>
  PROVE  Loose(u)
<1>1. Len(rows) \in Nat /\ Len(rows[r]) \in Nat /\ rows[r] \in Seq(Cell)
  BY RowsTyped
<1>2. Len(rows[r]) # 0
  BY <1>1
<1>3. u.colsNum \in Nat \ {0}
  BY <1>1, <1>2 DEF BuiltFrom
<1>4. Len(u.rows) \in Nat /\ u.rows \in Seq(Seq(Cell)) /\ Len(rows) <= Len(u.rows)
  BY RowsTyped DEF BuiltFrom
<1>5. r \in 1..Len(u.rows) /\ Len(u.rows[r]) \in Nat
  BY <1>1, <1>4, RowsTyped
<1>6. Len(rows[r]) <= Len(u.rows[r])
  BY DEF BuiltFrom, Longer
<1>7. Len(u.rows[r]) # 0
  BY <1>1, <1>2, <1>5, <1>6
<1>8. u.rows[r] # <<>>
  BY <1>7
<1> QED BY <1>3, <1>5, <1>8 DEF BuiltFrom, Loose

(* No row is bare, the first has two cells at least, and no cell reaches   *)
(* below the last row.                                                     *)
Firm(rows) ==
    /\ HeightOf(rows, Len(rows)) /\ \A r \in 1..Len(rows) : rows[r] # <<>>
    /\ Len(rows[1]) >= 2

\* Rows that cover firm ones are firm.
LEMMA FirmKept ==
  ASSUME NEW rows, NEW w, RowsCover(w, rows), Len(w) = Len(rows), Firm(rows)
  PROVE  Firm(w)
<1>1. Len(rows) \in Nat \ {0} /\ \A r \in 1..Len(rows) : Len(rows[r]) \in Nat /\ Len(w[r]) \in Nat /\ w[r] \in Seq(Cell)
  BY RowsTyped DEF RowsCover, Firm, HeightOf
<1>2. ASSUME NEW r \in 1..Len(w)
      PROVE  w[r] # <<>> /\ Len(rows[r]) <= Len(w[r])
  <2>1. r \in 1..Len(rows) /\ rows[r] # <<>>
    BY DEF Firm
  <2>2. Len(rows[r]) <= Len(w[r]) /\ rows[r] \in Seq(Cell)
    BY <2>1 DEF RowsCover, Covers
  <2>3. Len(rows[r]) # 0
    BY <2>1, <2>2
  <2>4. Len(w[r]) # 0
    BY <1>1, <2>1, <2>2, <2>3
  <2> QED BY <2>2, <2>4
<1>3. Len(w[1]) >= 2
  <2>1. 1 \in 1..Len(rows) /\ 1 \in 1..Len(w)
    BY <1>1
  <2>2. Len(rows[1]) >= 2 /\ Len(rows[1]) <= Len(w[1])
    BY <1>2, <2>1 DEF Firm
  <2> QED BY <1>1, <2>1, <2>2
<1>4. ASSUME NEW r \in 1..Len(w), NEW j \in 1..Len(w[r])
      PROVE  r + w[r][j].rowSpan - 1 <= Len(w)
  <2>1. r \in 1..Len(rows) /\ Covers(w[r], rows[r])
    BY DEF RowsCover
  <2>2. CASE w[r][j].rowSpan = 1
    BY <1>1, <2>2
  <2>3. CASE w[r][j].rowSpan # 1
    <3>1. PICK i \in 1..Len(rows[r]) : w[r][j].rowSpan = rows[r][i].rowSpan
      BY <2>1, <2>3 DEF Covers
    <3>2. r + rows[r][i].rowSpan - 1 <= Len(rows)
      BY <2>1 DEF Firm, HeightOf
    <3> QED BY <3>1, <3>2
  <2> QED BY <2>2, <2>3
<1>5. HeightOf(w, Len(w))
  BY <1>1, <1>4 DEF HeightOf
<1> QED BY <1>2, <1>3, <1>5 DEF Firm

\* One column put in.
LEMMA InsColStep ==
  ASSUME NEW t, TableRec(t), Loose(t), NEW at \in Nat \ {0}, NEW u, u = insertCol(t, at)
  PROVE  /\ TableRec(u) /\ RowsCover(u.rows, t.rows) /\ (Loose(u) \/ u.state = "thrown")
         /\ Firm(t.rows) => Loose(u) /\ Firm(u.rows)
<1>1. PICK rows : /\ RowsCover(rows, t.rows) /\ Len(rows) = Len(t.rows)
                  /\ Leaves(u, t, rows, BareRow(t))
  BY InsColCovers
<1>2. rows \in Seq(Seq(Cell)) /\ t.rows \in Seq(Seq(Cell)) /\ t.rowsNum = Len(t.rows) /\ Len(rows) \in Nat
  BY <1>1, RowsTyped DEF RowsCover, Loose
<1>3. ASSUME u = update(rows)
      PROVE  /\ TableRec(u) /\ RowsCover(u.rows, t.rows) /\ Loose(u)
             /\ Firm(t.rows) => Firm(u.rows)
  <2>1. BuiltFrom(u, rows) /\ TableRec(u)
    BY <1>2, <1>3, UpdateBuilds, UpdateRebuilds DEF Rebuilds
  <2>2. RowsCover(u.rows, rows)
    BY <1>2, <2>1, BuiltCovers
  <2>3. RowsCover(u.rows, t.rows)
    BY <1>1, <2>2, RowsCoverTrans
  <2>4. Loose(u)
    <3>1. PICK r \in 1..Len(t.rows) : t.rows[r] # <<>>
      BY DEF Loose
    <3>2. r \in 1..Len(rows) /\ Covers(rows[r], t.rows[r])
      BY <1>1, <3>1 DEF RowsCover
    <3>3. Len(t.rows[r]) # 0 /\ Len(t.rows[r]) \in Nat
      BY <3>1, <3>2 DEF Covers
    <3>4. Len(rows[r]) # 0
      <4>1. Len(rows[r]) \in Nat /\ Len(t.rows[r]) <= Len(rows[r])
        BY <3>2 DEF Covers
      <4> QED BY <3>3, <4>1
    <3>5. rows[r] # <<>>
      BY <3>4
    <3> QED BY <1>2, <2>1, <3>2, <3>5, BuiltLoose
  <2>5. ASSUME Firm(t.rows)
        PROVE  Firm(u.rows)
    <3>1. Firm(rows)
      BY <1>1, <2>5, FirmKept
    <3>2. Len(u.rows) = Len(rows)
      BY <2>1, <3>1 DEF Firm, BuiltFrom
    <3> QED BY <2>2, <3>1, <3>2, FirmKept
  <2> QED BY <2>1, <2>3, <2>4, <2>5
<1>4. ASSUME u = Throw(t, rows), BareRow(t)
      PROVE  /\ TableRec(u) /\ RowsCover(u.rows, t.rows) /\ u.state = "thrown" /\ ~Firm(t.rows)
  <2>1. u.rows = rows /\ u.state = "thrown" /\ TableRec(u)
    BY <1>4 DEF Throw, TableRec
  <2>2. ~Firm(t.rows)
    <3>1. CASE \E r \in 1..t.rowsNum : t.rows[r] = <<>>
      BY <1>2, <3>1 DEF Firm
    <3>2. CASE Len(t.rows[1]) = 1
      <4>1. ~(Len(t.rows[1]) >= 2)
        BY <3>2
      <4> QED BY <4>1 DEF Firm
    <3> QED BY <1>4, <3>1, <3>2 DEF BareRow
  <2> QED BY <1>1, <2>1, <2>2
<1> QED BY <1>1, <1>3, <1>4 DEF Leaves

(* So far on the way through the calls of insertCol.                       *)
OnTheWay(u, t) ==
    /\ TableRec(u) /\ RowsCover(u.rows, t.rows) /\ (Loose(u) \/ u.state = "thrown")
    /\ Firm(t.rows) => Loose(u) /\ Firm(u.rows)

\* Columns put in lose no cell, and do not stop half way in a firm table.
LEMMA InsColsCover ==
  ASSUME NEW t, TableRec(t), Loose(t), NEW n \in Nat, NEW at \in Nat \ {0}
  PROVE  OnTheWay(Again(t, n, "insertCol", at), t)
<1>1. PICK f : CallSteps(f, t, n, "insertCol", at)
  BY AgainIs
<1>2. Again(t, n, "insertCol", at) = f[n]
  BY <1>1 DEF CallSteps
<1> DEFINE ok == {k \in Nat : OnTheWay(f[k], t)}
<1>3. 0 \in ok
  <2>1. f[0] = t
    BY <1>1 DEF CallSteps
  <2>2. RowsCover(t.rows, t.rows)
    <3>1. t.rows \in Seq(Seq(Cell)) /\ Len(t.rows) \in Nat /\ \A r \in 1..Len(t.rows) : t.rows[r] \in Seq(Cell)
      BY RowsTyped DEF Loose
    <3> QED BY <3>1, SelfCovers DEF RowsCover
  <2> QED BY <2>1, <2>2 DEF OnTheWay
<1>4. ASSUME NEW k \in Nat, k \in ok
      PROVE  k + 1 \in ok
  <2> DEFINE u == f[k]
             v == f[k + 1]
  <2>1. OnTheWay(u, t)
    BY <1>4
  <2>2. v = IF u.state = "thrown" \/ ~Tiled(u) THEN u ELSE Call("insertCol", u, at)
    <3>1. k + 1 \in Nat /\ k + 1 # 0 /\ (k + 1) - 1 = k
      OBVIOUS
    <3> QED BY <1>1, <3>1 DEF CallSteps
  <2> HIDE DEF u, v
  <2>3. CASE u.state = "thrown" \/ ~Tiled(u)
    BY <2>1, <2>2, <2>3 DEF v
  <2>4. CASE u.state # "thrown" /\ Tiled(u)
    <3>1. Loose(u) /\ TableRec(u)
      BY <2>1, <2>4 DEF OnTheWay
    <3>2. v = insertCol(u, at)
      BY <2>2, <2>4 DEF Call
    <3>3. /\ TableRec(v) /\ RowsCover(v.rows, u.rows) /\ (Loose(v) \/ v.state = "thrown")
          /\ Firm(u.rows) => Loose(v) /\ Firm(v.rows)
      BY <3>1, <3>2, InsColStep
    <3>4. RowsCover(v.rows, t.rows)
      BY <2>1, <3>3, RowsCoverTrans DEF OnTheWay
    <3>5. OnTheWay(v, t)
      BY <2>1, <3>3, <3>4 DEF OnTheWay
    <3> QED BY <3>5 DEF v
  <2> QED BY <2>3, <2>4
<1> HIDE DEF ok
<1>5. n \in ok
  BY <1>3, <1>4, NatInSet
<1> QED BY <1>2, <1>5 DEF ok

-----------------------------------------------------------------------------
(* Rows put in and taken out where every row has a cell.                   *)

NoBare(rows) == \A r \in 1..Len(rows) : rows[r] # <<>>

\* A row has a cell when one begins in it.
LEMMA LinedBare ==
  ASSUME NEW row, NEW X \in SUBSET Int, NEW f, Lined(row, X, f)
  PROVE  row # <<>> <=> X # {}
<1>1. PICK at : Line(row, at, X, f)
  BY DEF Lined
<1>2. row \in Seq(Cell) /\ Len(row) \in Nat /\ at \in [1..Len(row) -> X]
  BY <1>1 DEF Line
<1>3. ASSUME X # {}
      PROVE  row # <<>>
  <2>1. PICK x \in X : TRUE
    BY <1>3
  <2>2. PICK i \in 1..Len(row) : at[i] = x
    BY <1>1 DEF Line
  <2> QED BY <2>2
<1>4. ASSUME row # <<>>
      PROVE  X # {}
  <2>1. Len(row) # 0
    BY <1>2, <1>4
  <2>2. 1 \in 1..Len(row)
    BY <1>2, <2>1
  <2> QED BY <1>2, <2>2
<1> QED BY <1>3, <1>4

\* A row has cells if the grid has cells that start in it,
LEMMA LaysBare ==
  ASSUME NEW rows, NEW C, NEW G, Lays(rows, C, {}, G), NEW r \in 1..Len(rows)
  PROVE  rows[r] # <<>> <=> Starts(G, r, C) # {}
<1>1. Lined(rows[r], Starts(G, r, C), CellsOf(G, r, C))
  BY DEF Lays, Lined
<1>2. Starts(G, r, C) \in SUBSET Int
  BY DEF Starts
<1> QED BY <1>1, <1>2, LinedBare

\* also in a table that is laid as a grid says.
LEMMA TableBare ==
  ASSUME NEW t, NEW R, NEW C, NEW G, NEW K, TableOf(t, R, C, G, K), NEW r \in 1..R
  PROVE  t.rows[r] # <<>> <=> Starts(G, r, C) # {}
<1>1. Lined(t.rows[r], Starts(G, r, C), CellsOf(G, r, C))
  BY DEF TableOf, Lined
<1>2. Starts(G, r, C) \in SUBSET Int
  BY DEF Starts
<1> QED BY <1>1, <1>2, LinedBare

\* insertRow stops half way only beside a bare row.
LEMMA InsRowReady ==
  ASSUME NEW t, t.rowsNum \in Nat, t.rowsNum = Len(t.rows), NoBare(t.rows), t.rowsNum > 0, NEW at \in 1..(t.rowsNum + 1)
  PROVE  insertRow(t, at).state = "ready"
<1> DEFINE neighbour == IF at <= t.rowsNum THEN t.rows[at] ELSE t.rows[at - 1]
<1>1. neighbour # <<>>
  <2>1. CASE at <= t.rowsNum
    <3>1. at \in 1..Len(t.rows)
      BY <2>1
    <3> QED BY <2>1, <3>1 DEF NoBare
  <2>2. CASE ~(at <= t.rowsNum)
    <3>1. at - 1 \in 1..Len(t.rows)
      BY <2>2
    <3> QED BY <2>2, <3>1 DEF NoBare
  <2> QED BY <2>1, <2>2
<1> QED BY <1>1, UpdateRebuilds DEF insertRow, Rebuilds

\* A row put in where every row has a cell has one itself.
LEMMA InsRowNoBare ==
  ASSUME NEW t, Tiled(t), t.rowsNum > 0, NoBare(t.rows), NEW at \in 1..(t.rowsNum + 1), NEW u, u = insertRow(t, at)
  PROVE  /\ u.state = "ready" /\ Tiled(u) /\ NoBare(u.rows) /\ u.rowsNum = t.rowsNum + 1
<1> DEFINE R == t.rowsNum
           C == t.colsNum
           G == GridOf(t)
           K == ColumnsOf(t)
           D == InsRowGrid(G, R, C, at)
<1>1. Standing(t, R, C, G, K)
  BY StandingTiled
<1> HIDE DEF G, K
<1>2. /\ TableOf(t, R, C, G, K) /\ Laid(G, R, C, {}) /\ R \in Nat \ {0} /\ C \in Nat /\ Len(t.rows) = R
      /\ \A r \in 1..R : \A i \in 1..Len(t.rows[r]) : Stands(t, R, C, G, K, r, i)
      /\ \A r \in 1..R, c \in 1..C : Agrees(t, G, K, r, c)
  BY <1>1 DEF Standing, TableOf
<1>3. u.state = "ready"
  BY <1>2, InsRowReady
<1>4. u.state # "thrown"
  BY <1>3
<1>5. PICK rows : u = update(rows) /\ Lays(rows, C, {}, D) /\ Len(rows) = R + 1
  BY <1>2, <1>4, InsRowLays
<1>6. LooksLike(u, rows, C, D)
  BY <1>5, UpdateLays
<1>7. Tiled(u) /\ u.rows = rows /\ u.rowsNum = R + 1
  BY <1>5, <1>6 DEF LooksLike
<1>8. InsRowMove(G, R, C, at, D)
  BY <1>2 DEF InsRowMove
<1>9. \A r \in 1..R : Starts(G, r, C) # {}
  <2>1. ASSUME NEW r \in 1..R
        PROVE  Starts(G, r, C) # {}
    <3>1. t.rows[r] # <<>>
      BY <1>2 DEF NoBare
    <3> QED BY <1>2, <3>1, TableBare
  <2> QED BY <2>1
<1> HIDE DEF D, R, C
<1>10. ASSUME NEW s \in 1..(R + 1)
       PROVE  Starts(D, s, C) # {}
  <2>1. CASE s # at
    <3> DEFINE r == IF s < at THEN s ELSE s - 1
    <3>1. r \in 1..R /\ s = (IF r < at THEN r ELSE r + 1)
      BY <1>2, <2>1 DEF R
    <3> HIDE DEF r
    <3>2. Starts(D, s, C) = Starts(G, r, C)
      BY <1>8, <3>1, InsRowOther
    <3> QED BY <1>9, <3>1, <3>2
  <2>2. CASE s = at
    <3>1. Starts(D, at, C) = {c \in 1..C : ~(at \in 2..R /\ G[at][c].row < at)}
      BY <1>8, InsRowNew
    <3>2. CASE at \in 2..R
      <4>1. PICK c \in Starts(G, at, C) : TRUE
        BY <1>2, <1>9, <3>2
      <4>2. c \in 1..C /\ G[at][c].row = at
        BY <4>1 DEF Starts
      <4>3. ~(G[at][c].row < at)
        BY <3>2, <4>2
      <4> QED BY <2>2, <3>1, <4>2, <4>3
    <3>3. CASE at \notin 2..R
      <4>1. 1 \in 1..R
        BY <1>2
      <4>2. PICK c \in Starts(G, 1, C) : TRUE
        BY <1>9, <4>1
      <4>3. c \in 1..C
        BY <4>2 DEF Starts
      <4> QED BY <2>2, <3>1, <3>3, <4>3
    <3> QED BY <3>2, <3>3
  <2> QED BY <2>1, <2>2
<1>11. NoBare(u.rows)
  <2>1. ASSUME NEW s \in 1..Len(rows)
        PROVE  rows[s] # <<>>
    <3>1. Starts(D, s, C) # {}
      BY <1>5, <1>10
    <3> QED BY <1>5, <3>1, LaysBare
  <2> QED BY <1>7, <2>1 DEF NoBare
<1> QED BY <1>3, <1>7, <1>11 DEF R

\* A row taken out where every row has a cell loses no lower part.
LEMMA DelRowNoBare ==
  ASSUME NEW t, Tiled(t), t.rowsNum > 1, NoBare(t.rows), NEW at \in 1..t.rowsNum, NEW u, u = deleteRow(t, at)
  PROVE  /\ u.state = "ready" /\ Tiled(u) /\ NoBare(u.rows) /\ u.rowsNum = t.rowsNum - 1
<1> DEFINE R == t.rowsNum
           C == t.colsNum
           G == GridOf(t)
           K == ColumnsOf(t)
           D == DelRowGrid(G, R, C, at)
<1>0. t.rowsNum \in Nat
  BY DEF Tiled
<1>1. Standing(t, R, C, G, K)
  BY <1>0, StandingTiled
<1> HIDE DEF G, K
<1>2. /\ TableOf(t, R, C, G, K) /\ Laid(G, R, C, {}) /\ R \in Nat \ {0} /\ C \in Nat /\ Len(t.rows) = R
      /\ \A r \in 1..R : \A i \in 1..Len(t.rows[r]) : Stands(t, R, C, G, K, r, i)
      /\ \A r \in 1..R, c \in 1..C : Agrees(t, G, K, r, c)
  BY <1>1 DEF Standing, TableOf
<1>3. DelRowMove(G, R, C, at, D)
  BY <1>2 DEF DelRowMove
<1>4. ~LeavesIn(t, at)
  <2>1. SUFFICES ASSUME NEW c \in 1..C, t.index[<<at, c>>].row = at, t.index[<<at, c>>].rowSpan > 1,
                        t.rows[at + 1] = <<>>
                 PROVE  FALSE
    BY DEF LeavesIn
  <2>2. CoversAt(t, t.index[<<at, c>>], at, c)
    BY TiledAt
  <2> DEFINE h == t.index[<<at, c>>].rowSpan
  <2>3. h \in Nat /\ h > 1 /\ at + h <= R + 1
    BY <2>1, <2>2 DEF CoversAt
  <2> HIDE DEF h
  <2>4. at + 1 \in 1..Len(t.rows)
    BY <1>2, <2>3
  <2> QED BY <2>1, <2>4 DEF NoBare
<1>5. Removing(t, R, C, G, K, at, D)
  BY <1>2, <1>3, <1>4 DEF Removing
<1>6. PICK rows : u = update(rows) /\ Lays(rows, C, {}, D) /\ Len(rows) = R - 1
  BY <1>5, DelRowLays
<1>7. LooksLike(u, rows, C, D)
  BY <1>6, UpdateLays
<1>8. Tiled(u) /\ u.rows = rows /\ u.rowsNum = R - 1 /\ u.state = "ready"
  BY <1>6, <1>7 DEF LooksLike
<1>9. ASSUME NEW r \in 1..R
      PROVE  Starts(G, r, C) # {}
  <2>1. t.rows[r] # <<>>
    BY <1>2 DEF NoBare
  <2> QED BY <1>2, <2>1, TableBare
<1>10. R > 1 /\ at \in 1..R
  OBVIOUS
<1> HIDE DEF D, R, C
<1>11. ASSUME NEW s \in 1..(R - 1)
       PROVE  Starts(D, s, C) # {}
  <2>1. CASE s # at
    <3> DEFINE r == IF s < at THEN s ELSE s + 1
    <3>1. r \in 1..R /\ r # at /\ r # at + 1 /\ s = (IF r < at THEN r ELSE r - 1)
      BY <1>2, <1>10, <2>1
    <3> HIDE DEF r
    <3>2. Starts(D, s, C) = Starts(G, r, C)
      BY <1>3, <3>1, DelRowOther
    <3> QED BY <1>9, <3>1, <3>2
  <2>2. CASE s = at
    <3>1. at < R /\ at + 1 \in 1..R
      BY <1>2, <2>2
    <3>2. Starts(D, at, C) = Starts(G, at + 1, C) \union Low(G, at, C)
      BY <1>3, <3>1, DelRowNext
    <3> QED BY <1>9, <2>2, <3>1, <3>2
  <2> QED BY <2>1, <2>2
<1>12. NoBare(u.rows)
  <2>1. ASSUME NEW s \in 1..Len(rows)
        PROVE  rows[s] # <<>>
    <3>1. Starts(D, s, C) # {}
      BY <1>6, <1>11
    <3> QED BY <1>6, <3>1, LaysBare
  <2> QED BY <1>8, <2>1 DEF NoBare
<1> QED BY <1>8, <1>12 DEF R

\* No lower part is left of the only row.
LEMMA DelOnlyRow ==
  ASSUME NEW t, Tiled(t), t.rowsNum = 1
  PROVE  deleteRow(t, 1).state = "ready"
<1> DEFINE at == 1
           init == [rows |-> t.rows, count |-> 0, ok |-> TRUE]
           next(k, c) == LET info == t.index[<<at, c>>]
                         IN  IF c = 0 THEN init
                             ELSE IF info.row = at /\ info.col = c /\ info.rowSpan > 1
                             THEN KeepLowerPart(t, at, k[c - 1], info)
                             ELSE k[c - 1]
           Solves(k) == k = [c \in 0..t.colsNum |-> next(k, c)]
           keep == CHOOSE k : Solves(k)
           one == [c \in 0..t.colsNum |-> init]
<1>1. KeepLowerParts(t, 1) = keep[t.colsNum]
  BY DEF KeepLowerParts
<1>2. t.colsNum \in Nat
  BY DEF Tiled
<1>3. ASSUME NEW c \in 1..t.colsNum
      PROVE  ~(t.index[<<at, c>>].row = at /\ t.index[<<at, c>>].col = c /\ t.index[<<at, c>>].rowSpan > 1)
  <2>1. at \in 1..t.rowsNum
    OBVIOUS
  <2>2. CoversAt(t, t.index[<<at, c>>], at, c)
    BY <2>1, TiledAt
  <2> DEFINE h == t.index[<<at, c>>].rowSpan
             x == t.index[<<at, c>>].row
  <2>3. h \in Nat /\ x \in 1..1 /\ x + h <= 2
    BY <2>2 DEF CoversAt
  <2>4. ~(h > 1)
    <3> HIDE DEF h, x
    <3> QED BY <2>3
  <2> QED BY <2>4
<1>4. ASSUME NEW k, NEW c \in 0..t.colsNum
      PROVE  next(k, c) = IF c = 0 THEN init ELSE k[c - 1]
  <2>1. CASE c = 0
    BY <2>1
  <2>2. CASE c # 0
    <3>1. c \in 1..t.colsNum
      BY <1>2, <2>2
    <3> QED BY <1>3, <2>2, <3>1
  <2> QED BY <2>1, <2>2
<1> HIDE DEF next, init, at
<1>5. Solves(one)
  <2>1. ASSUME NEW c \in 0..t.colsNum
        PROVE  next(one, c) = init
    <3>1. CASE c = 0
      BY <1>4, <3>1
    <3>2. CASE c # 0
      <4>1. c - 1 \in 0..t.colsNum
        BY <1>2, <3>2
      <4>2. one[c - 1] = init
        BY <4>1
      <4> HIDE DEF one
      <4> QED BY <1>4, <3>2, <4>2
    <3> QED BY <3>1, <3>2
  <2>2. one = [c \in 0..t.colsNum |-> init]
    OBVIOUS
  <2> HIDE DEF one
  <2> QED BY <2>1, <2>2
<1>6. Solves(keep)
  <2> HIDE DEF Solves
  <2> QED BY <1>5
<1> HIDE DEF keep
<1> DEFINE all == {c \in Nat : c <= t.colsNum => keep[c] = init}
<1>7. ASSUME NEW c \in 0..t.colsNum
      PROVE  keep[c] = IF c = 0 THEN init ELSE keep[c - 1]
  <2>1. keep[c] = next(keep, c)
    BY <1>6
  <2> HIDE DEF Solves
  <2> QED BY <1>4, <2>1
<1>8. 0 \in all
  BY <1>2, <1>7
<1>9. ASSUME NEW c \in Nat, c \in all
      PROVE  c + 1 \in all
  <2> SUFFICES ASSUME c + 1 <= t.colsNum
               PROVE  keep[c + 1] = init
    OBVIOUS
  <2>1. c + 1 \in 0..t.colsNum /\ c + 1 # 0 /\ (c + 1) - 1 = c /\ c <= t.colsNum
    BY <1>2
  <2> QED BY <1>7, <1>9, <2>1
<1> HIDE DEF all
<1>10. t.colsNum \in all
  BY <1>2, <1>8, <1>9, NatInSet
<1>11. KeepLowerParts(t, 1).ok
  BY <1>1, <1>2, <1>10 DEF all, init
<1> QED BY <1>11, UpdateRebuilds DEF deleteRow, Rebuilds

-----------------------------------------------------------------------------
(* While no range is selected, no cell is marked.                          *)

(* Every cell says whether it is selected.                                 *)
Selectable(rows) == \A r \in DOMAIN rows : \A i \in DOMAIN rows[r] : "selected" \in DOMAIN rows[r][i]

MarkOk(u) ==
    u.state = "ready" /\ Regular(u) /\ Selectable(u.rows) /\ u.cellsRange = NoRange => Marked(u.rows) = {}

\* Nothing is marked.
LEMMA NoneMarked ==
  ASSUME NEW rows
  PROVE  Marked(rows) = {} <=> \A r \in DOMAIN rows : \A i \in DOMAIN rows[r] : ~rows[r][i].selected
<1>1. ASSUME Marked(rows) = {}, NEW r \in DOMAIN rows, NEW i \in DOMAIN rows[r]
      PROVE  ~rows[r][i].selected
  <2>1. <<r, i>> \in Places(rows)
    BY PlaceOf
  <2> QED BY <1>1, <2>1 DEF Marked
<1>2. ASSUME \A r \in DOMAIN rows : \A i \in DOMAIN rows[r] : ~rows[r][i].selected
      PROVE  Marked(rows) = {}
  <2> SUFFICES ASSUME NEW p \in Places(rows), rows[p[1]][p[2]].selected
               PROVE  FALSE
    BY DEF Marked
  <2>1. PICK r \in DOMAIN rows : p \in {r} \X (DOMAIN rows[r])
    BY DEF Places
  <2> QED BY <1>2, <2>1
<1> QED BY <1>1, <1>2

\* A table that was built again, or left half done, is so.
LEMMA SettledMark ==
  ASSUME NEW u, Settled(u)
  PROVE  MarkOk(u)
<1>1. CASE Rebuilds(u)
  <2>1. u.cellsRange = RangeOfMarked(u.rows, u.index)
    BY <1>1 DEF Rebuilds
  <2>2. u.cellsRange = NoRange => Marked(u.rows) = {}
    BY <2>1 DEF RangeOfMarked, NoRange
  <2> QED BY <2>2 DEF MarkOk
<1>2. CASE u.state = "thrown"
  BY <1>2 DEF MarkOk
<1> QED BY <1>1, <1>2 DEF Settled

\* A table that is removed is no table.
LEMMA KeepMark ==
  ASSUME NEW u, TableRec(u), MarkOk(u)
  PROVE  MarkOk(Keep(u))
<1>1. CASE Keep(u) = u
  BY <1>1
<1>2. CASE Keep(u) = [u EXCEPT !.state = "none"]
  <2> DEFINE v == [u EXCEPT !.state = "none"]
  <2>1. v.state = "none"
    BY DEF TableRec
  <2> HIDE DEF v
  <2>2. MarkOk(v)
    BY <2>1 DEF MarkOk
  <2> QED BY <1>2, <2>2 DEF v
<1> QED BY <1>1, <1>2 DEF Keep

\* What dragging the mouse selects is a range.
LEMMA SelectMark ==
  ASSUME NEW t, Rebuilds(t), NEW p \in Places(t.rows), NEW q \in Places(t.rows)
  PROVE  MarkOk(setSelected(t, getCellsRange(t, p, q)))
<1> DEFINE g == getCellsRange(t, p, q)
           u == setSelected(t, g)
           marked == Mark(Unmarked(t.rows), PlacesIn(t, g))
<1>1. DOMAIN t = {"rows", "index", "rowsNum", "colsNum", "cellsRange", "state"} /\ t.state = "ready"
  BY DEF Rebuilds, TableRec
<1>2. /\ DOMAIN marked = DOMAIN t.rows
      /\ \A r \in DOMAIN t.rows : DOMAIN marked[r] = DOMAIN t.rows[r]
  BY DEF Unmarked, Mark
<1> HIDE DEF g, marked
<1>3. ASSUME Indexed(t)
      PROVE  g # NoRange
  <2>1. Ranged(g, t.rowsNum, t.colsNum)
    BY <1>3, CellsRangeIs DEF g
  <2>2. "beginRow" \in DOMAIN g
    BY <2>1 DEF Ranged
  <2> QED BY <2>2 DEF NoRange
<1>4. CASE Cut(t, g)
  <2>1. u = [t EXCEPT !.rows = Unmarked(t.rows), !.cellsRange = g, !.state = "null"]
    BY <1>4 DEF setSelected
  <2> HIDE DEF u
  <2>2. u.state = "null"
    BY <1>1, <2>1
  <2>3. MarkOk(u)
    BY <2>2 DEF MarkOk
  <2> QED BY <2>3 DEF u, g
<1>5. CASE ~Cut(t, g)
  <2>1. u = [t EXCEPT !.rows = marked, !.cellsRange = g]
    BY <1>5 DEF setSelected, marked
  <2> HIDE DEF u
  <2>2. u.rows = marked /\ u.cellsRange = g /\ SameIndex(t, u)
    BY <1>1, <2>1 DEF SameIndex
  <2>3. Regular(u) => Indexed(t)
    <3>1. Regular(u) => Indexed(u)
      BY DEF Regular
    <3> QED BY <1>2, <2>2, <3>1, IndexedSame
  <2>4. MarkOk(u)
    BY <1>3, <2>2, <2>3 DEF MarkOk
  <2> QED BY <2>4 DEF u, g
<1> QED BY <1>4, <1>5

\* Selecting.
LEMMA SelectCellsMark ==
  ASSUME SelectCells
  PROVE  MarkOk(ut')
<1> DEFINE t == tableClickHander(ut)
<1>1. Rebuilds(t)
  BY UpdateRebuilds DEF tableClickHander
<1>2. \E p, q \in Places(t.rows) : ut' = t \/ ut' = setSelected(t, getCellsRange(t, p, q))
  BY DEF SelectCells
<1> HIDE DEF t
<1>3. PICK p \in Places(t.rows), q \in Places(t.rows) : ut' = t \/ ut' = setSelected(t, getCellsRange(t, p, q))
  BY <1>2
<1>4. MarkOk(t)
  BY <1>1, SettledMark DEF Settled
<1>5. MarkOk(setSelected(t, getCellsRange(t, p, q)))
  BY <1>1, SelectMark
<1> QED BY <1>3, <1>4, <1>5

(* Tables with the same places, whose cells are selected or not as before. *)
SameMarks(a, b) ==
    /\ DOMAIN a = DOMAIN b
    /\ \A r \in DOMAIN a : /\ DOMAIN a[r] = DOMAIN b[r]
                           /\ \A i \in DOMAIN a[r] : "selected" \in DOMAIN b[r][i] =>
                                 "selected" \in DOMAIN a[r][i] /\ b[r][i].selected = a[r][i].selected

\* Cells that are filled or emptied stay selected or not.
LEMMA SameMarkOk ==
  ASSUME NEW t, NEW u, MarkOk(t), t.state = "ready", Regular(u) => Regular(t),
         u.cellsRange = t.cellsRange, SameMarks(t.rows, u.rows)
  PROVE  MarkOk(u)
<1> SUFFICES ASSUME Regular(u), Selectable(u.rows), u.cellsRange = NoRange
             PROVE  Marked(u.rows) = {}
  BY DEF MarkOk
<1>1. Selectable(t.rows)
  BY DEF Selectable, SameMarks
<1>2. Marked(t.rows) = {}
  BY <1>1 DEF MarkOk
<1>3. ASSUME NEW r \in DOMAIN u.rows, NEW i \in DOMAIN u.rows[r]
      PROVE  ~u.rows[r][i].selected
  <2>1. r \in DOMAIN t.rows /\ i \in DOMAIN t.rows[r] /\ u.rows[r][i].selected = t.rows[r][i].selected
    BY DEF SameMarks, Selectable
  <2> QED BY <1>2, <2>1, NoneMarked
<1> QED BY <1>3, NoneMarked

\* The text of a cell is not its mark.
LEMMA MarkStays ==
  ASSUME NEW a, NEW x, "selected" \in DOMAIN [a EXCEPT !.text = x]
  PROVE  "selected" \in DOMAIN a /\ [a EXCEPT !.text = x].selected = a.selected
OBVIOUS

\* Typing into a cell.
LEMMA TypeMark ==
  ASSUME TableRec(ut), MarkOk(ut), ut.state = "ready", NEW p, NEW w, NEW u,
         u = [ut EXCEPT !.rows[p[1]][p[2]].text = @ \union {w}]
  PROVE  MarkOk(u)
<1> DEFINE rows == ut.rows
           new == [rows EXCEPT ![p[1]] = [rows[p[1]] EXCEPT ![p[2]] = [rows[p[1]][p[2]] EXCEPT !.text = @ \union {w}]]]
<1>1. DOMAIN ut = {"rows", "index", "rowsNum", "colsNum", "cellsRange", "state"}
  BY DEF TableRec
<1>2. u.rows = new /\ u.cellsRange = ut.cellsRange /\ SameIndex(ut, u)
  BY <1>1 DEF SameIndex
<1>3. DOMAIN rows = DOMAIN new
  OBVIOUS
<1>4. ASSUME NEW r \in DOMAIN rows
      PROVE  DOMAIN rows[r] = DOMAIN new[r]
  OBVIOUS
<1>5. ASSUME NEW r \in DOMAIN rows, NEW i \in DOMAIN rows[r]
      PROVE  (\E x : new[r][i] = [rows[r][i] EXCEPT !.text = x]) \/ new[r][i] = rows[r][i]
  <2>1. CASE r = p[1] /\ i = p[2]
    <3>1. new[r][i] = [rows[p[1]][p[2]] EXCEPT !.text = @ \union {w}]
      BY <2>1
    <3> HIDE DEF new
    <3>2. new[r][i] = [rows[r][i] EXCEPT !.text = rows[r][i].text \union {w}]
      BY <2>1, <3>1
    <3> QED BY <3>2
  <2>2. CASE ~(r = p[1] /\ i = p[2])
    BY <2>2
  <2> QED BY <2>1, <2>2
<1> HIDE DEF new
<1>6. SameSpans(rows, new)
  BY <1>3, <1>4, <1>5, SpansKept DEF SameSpans
<1>a. ASSUME NEW r \in DOMAIN rows, NEW i \in DOMAIN rows[r], "selected" \in DOMAIN new[r][i]
      PROVE  "selected" \in DOMAIN rows[r][i] /\ new[r][i].selected = rows[r][i].selected
  <2>1. CASE new[r][i] = rows[r][i]
    BY <1>a, <2>1
  <2>2. ASSUME NEW x, new[r][i] = [rows[r][i] EXCEPT !.text = x]
        PROVE  "selected" \in DOMAIN rows[r][i] /\ new[r][i].selected = rows[r][i].selected
    BY <1>a, <2>2, MarkStays
  <2> QED BY <1>5, <2>1, <2>2
<1>7. SameMarks(rows, new)
  BY <1>3, <1>4, <1>a DEF SameMarks
<1>8. Regular(u) => Regular(ut)
  BY <1>2, <1>6, RegularSame
<1> QED BY <1>2, <1>7, <1>8, SameMarkOk

\* Emptying the selected cells.
LEMMA DelMark ==
  ASSUME TableRec(ut), MarkOk(ut), ut.state = "ready", NEW u,
         u = [ut EXCEPT !.rows = [r \in DOMAIN @ |-> [i \in DOMAIN @[r] |->
                  IF @[r][i].selected THEN [@[r][i] EXCEPT !.text = {}] ELSE @[r][i]]]]
  PROVE  MarkOk(u)
<1> DEFINE rows == ut.rows
           new == [r \in DOMAIN rows |-> [i \in DOMAIN rows[r] |->
                     IF rows[r][i].selected THEN [rows[r][i] EXCEPT !.text = {}] ELSE rows[r][i]]]
<1>1. DOMAIN ut = {"rows", "index", "rowsNum", "colsNum", "cellsRange", "state"}
  BY DEF TableRec
<1>2. u.rows = new /\ u.cellsRange = ut.cellsRange /\ SameIndex(ut, u)
  BY <1>1 DEF SameIndex
<1>3. DOMAIN rows = DOMAIN new /\ \A r \in DOMAIN rows : DOMAIN rows[r] = DOMAIN new[r]
  OBVIOUS
<1>4. ASSUME NEW r \in DOMAIN rows, NEW i \in DOMAIN rows[r]
      PROVE  new[r][i] = [rows[r][i] EXCEPT !.text = {}] \/ new[r][i] = rows[r][i]
  OBVIOUS
<1> HIDE DEF new
<1>5. SameSpans(rows, new)
  BY <1>3, <1>4, SpansKept DEF SameSpans
<1>a. ASSUME NEW r \in DOMAIN rows, NEW i \in DOMAIN rows[r], "selected" \in DOMAIN new[r][i]
      PROVE  "selected" \in DOMAIN rows[r][i] /\ new[r][i].selected = rows[r][i].selected
  <2>1. CASE new[r][i] = rows[r][i]
    BY <1>a, <2>1
  <2>2. ASSUME NEW x, new[r][i] = [rows[r][i] EXCEPT !.text = x]
        PROVE  "selected" \in DOMAIN rows[r][i] /\ new[r][i].selected = rows[r][i].selected
    BY <1>a, <2>2, MarkStays
  <2> QED BY <1>4, <2>1, <2>2
<1>6. SameMarks(rows, new)
  BY <1>3, <1>a DEF SameMarks
<1>7. Regular(u) => Regular(ut)
  BY <1>2, <1>5, RegularSame
<1> QED BY <1>2, <1>6, <1>7, SameMarkOk

\* Sorting rows.
LEMMA SortMark ==
  ASSUME TableRec(ut), MarkOk(ut), sorttable
  PROVE  MarkOk(ut')
<1> DEFINE sorted == {r \in 1..ut.rowsNum : Selected # {} => r \in ut.cellsRange.beginRow..ut.cellsRange.endRow}
<1>1. PICK order \in [sorted -> sorted] :
         /\ \A r \in sorted : \E k \in sorted : order[k] = r
         /\ ut' = [ut EXCEPT !.rows = [r \in DOMAIN @ |-> @[IF r \in sorted THEN order[r] ELSE r]]]
  BY DEF sorttable
<1>2. ut.state = "ready" /\ AllSingle(ut.rows)
  BY DEF sorttable, AllSingle
<1>3. sorted \subseteq 1..ut.rowsNum
  OBVIOUS
<1> HIDE DEF sorted
<1>4. DOMAIN ut = {"rows", "index", "rowsNum", "colsNum", "cellsRange", "state"}
  BY DEF TableRec
<1> DEFINE new == [r \in DOMAIN ut.rows |-> ut.rows[IF r \in sorted THEN order[r] ELSE r]]
<1>5. ut'.rows = new /\ ut'.cellsRange = ut.cellsRange /\ SameIndex(ut, ut')
  BY <1>1, <1>2, <1>4 DEF SameIndex
<1> SUFFICES ASSUME Regular(ut'), Selectable(ut'.rows), ut'.cellsRange = NoRange
             PROVE  Marked(ut'.rows) = {}
  BY DEF MarkOk
<1>6. DOMAIN ut.rows = 1..ut.rowsNum
  BY <1>5 DEF Regular, SameIndex
<1>7. Sorted(ut'.rows, ut.rows, order, sorted)
  BY <1>1, <1>3, <1>5, <1>6 DEF Sorted
<1>8. Regular(ut)
  BY <1>2, <1>5, <1>7, RegularSorted
<1>9. ASSUME NEW r \in DOMAIN ut'.rows
      PROVE  \E x \in DOMAIN ut.rows : ut'.rows[r] = ut.rows[x]
  <2>1. r \in DOMAIN ut.rows /\ ut'.rows[r] = ut.rows[IF r \in sorted THEN order[r] ELSE r]
    BY <1>5
  <2>2. (IF r \in sorted THEN order[r] ELSE r) \in DOMAIN ut.rows
    BY <1>1, <1>3, <1>6, <2>1
  <2> QED BY <2>1, <2>2
<1>10. ASSUME NEW x \in DOMAIN ut.rows
       PROVE  \E r \in DOMAIN ut'.rows : ut'.rows[r] = ut.rows[x]
  <2>1. CASE x \in sorted
    <3>1. PICK k \in sorted : order[k] = x
      BY <1>1, <2>1
    <3>2. k \in DOMAIN ut.rows
      BY <1>3, <1>6
    <3>3. k \in DOMAIN ut'.rows /\ ut'.rows[k] = ut.rows[x]
      BY <1>5, <3>1, <3>2
    <3> QED BY <3>3
  <2>2. CASE x \notin sorted
    <3>1. x \in DOMAIN ut'.rows /\ ut'.rows[x] = ut.rows[x]
      BY <1>5, <2>2
    <3> QED BY <3>1
  <2> QED BY <2>1, <2>2
<1>11. Selectable(ut.rows)
  <2> SUFFICES ASSUME NEW x \in DOMAIN ut.rows, NEW i \in DOMAIN ut.rows[x]
               PROVE  "selected" \in DOMAIN ut.rows[x][i]
    BY DEF Selectable
  <2>1. PICK r \in DOMAIN ut'.rows : ut'.rows[r] = ut.rows[x]
    BY <1>10
  <2>2. i \in DOMAIN ut'.rows[r]
    BY <2>1
  <2>3. "selected" \in DOMAIN ut'.rows[r][i]
    BY <2>2 DEF Selectable
  <2> QED BY <2>1, <2>3
<1>12. Marked(ut.rows) = {}
  BY <1>2, <1>5, <1>8, <1>11 DEF MarkOk
<1>13. ASSUME NEW r \in DOMAIN ut'.rows, NEW i \in DOMAIN ut'.rows[r]
       PROVE  ~ut'.rows[r][i].selected
  <2>1. PICK x \in DOMAIN ut.rows : ut'.rows[r] = ut.rows[x]
    BY <1>9
  <2>2. i \in DOMAIN ut.rows[x]
    BY <2>1
  <2>3. ~ut.rows[x][i].selected
    BY <1>12, <2>2, NoneMarked
  <2> QED BY <2>1, <2>3
<1> QED BY <1>13, NoneMarked

\* Calling one of the four operations again and again.
LEMMA AgainMark ==
  ASSUME TableRec(ut), MarkOk(ut), NEW n, NEW op \in {"insertRow", "deleteRow", "insertCol", "deleteCol"}, NEW at
  PROVE  MarkOk(Again(ut, n, op, at)) /\ MarkOk(Keep(Again(ut, n, op, at)))
<1> DEFINE u == Again(ut, n, op, at)
<1>1. u = ut \/ Settled(u)
  BY AgainSettled
<1> HIDE DEF u
<1>2. MarkOk(u) /\ TableRec(u)
  BY <1>1, SettledMark DEF Settled, Rebuilds
<1>3. MarkOk(Keep(u))
  BY <1>2, KeepMark
<1> QED BY <1>2, <1>3 DEF u

\* Every command keeps the marks and the range together.
LEMMA MarkOkStep ==
  ASSUME TableRec(ut), MarkOk(ut), [TableNext]_ut
  PROVE  MarkOk(ut')
<1>1. ASSUME NEW n \in 1..MaxRows, NEW m \in 1..MaxCols, inserttable(n, m)
      PROVE  MarkOk(ut')
  <2>1. \E rows : ut' = update(rows)
    BY <1>1 DEF inserttable
  <2> QED BY <2>1, UpdateRebuilds, SettledMark DEF Settled
<1>2. CASE SelectCells
  BY <1>2, SelectCellsMark
<1>3. ASSUME NEW p \in TablePlaces, NEW w \in Words, TypeWord(p, w)
      PROVE  MarkOk(ut')
  <2>1. ut.state = "ready" /\ ut' = [ut EXCEPT !.rows[p[1]][p[2]].text = @ \union {w}]
    BY <1>3 DEF TypeWord, CaretIn
  <2> QED BY <2>1, TypeMark
<1>4. CASE DelCells
  BY <1>4, DelMark DEF DelCells
<1>5. CASE deletetable
  <2>1. ut'.state = "none"
    BY <1>5 DEF deletetable, NoTable
  <2> QED BY <2>1 DEF MarkOk
<1>6. CASE mergecells
  BY <1>6, MergeSettled, SettledMark DEF mergecells
<1>7. CASE sorttable
  BY <1>7, SortMark
<1>8. ASSUME NEW p \in TablePlaces, mergeright(p) \/ mergedown(p)
      PROVE  MarkOk(ut')
  <2>1. ut' = mergeRight(ut, p) \/ ut' = mergeDown(ut, p)
    BY <1>8 DEF mergeright, mergedown
  <2> QED BY <2>1, MergeSettled, SettledMark
<1>9. ASSUME NEW p \in TablePlaces, insertrow(p) \/ insertrownext(p) \/ deleterow(p)
      PROVE  MarkOk(ut')
  <2>1. \E n, at : ut' = Again(ut, n, "insertRow", at) \/ ut' = Keep(Again(ut, n, "deleteRow", at))
    BY <1>9 DEF insertrow, insertrownext, deleterow
  <2> QED BY <2>1, AgainMark
<1>10. ASSUME NEW p \in TablePlaces, insertcol(p) \/ insertcolnext(p) \/ deletecol(p)
       PROVE  MarkOk(ut')
  <2>1. \E n, at : ut' = Again(ut, n, "insertCol", at) \/ ut' = Keep(Again(ut, n, "deleteCol", at))
    BY <1>10 DEF insertcol, insertcolnext, deletecol
  <2> QED BY <2>1, AgainMark
<1>11. ASSUME NEW p \in TablePlaces, splittocells(p) \/ splittorows(p) \/ splittocols(p)
       PROVE  MarkOk(ut')
  <2>1. ut' = splitToCells(ut, p) \/ ut' = splitToRows(ut, p) \/ ut' = splitToCols(ut, p)
    BY <1>11 DEF splittocells, splittorows, splittocols
  <2> QED BY <2>1, CellsSettled, SplitsSettled, SettledMark DEF Settled
<1>12. CASE UNCHANGED ut
  BY <1>12
<1> QED BY <1>1, <1>2, <1>3, <1>4, <1>5, <1>6, <1>7, <1>8, <1>9, <1>10, <1>11, <1>12 DEF TableNext, TableCommand

-----------------------------------------------------------------------------
(* Commands that do not end half done.                                     *)

\* A tiled table with a cell.
LEMMA TiledLoose ==
  ASSUME NEW t, t.state = "ready", Tiled(t), NEW x \in 1..t.rowsNum, t.rows[x] # <<>>
  PROVE  Loose(t)
<1> DEFINE R == t.rowsNum
<1>1. t.rows \in Seq(Seq(Cell)) /\ R = Len(t.rows) /\ t.colsNum \in Nat
  BY DEF Tiled
<1>2. R \in Nat \ {0} /\ \A r \in 1..R : Len(t.rows[r]) \in Nat
  BY <1>1, RowsTyped
<1>3. ASSUME NEW r \in 1..R, NEW c \in 1..t.colsNum
      PROVE  t.index[<<r, c>>] \in Entry
  <2> DEFINE j == t.index[<<r, c>>]
  <2>1. CoversAt(t, j, r, c)
    BY TiledAt
  <2> HIDE DEF j
  <2>2. /\ j.row \in 1..R /\ j.col \in 1..c /\ j.cell \in 1..Len(t.rows[j.row])
        /\ j.rowSpan \in Nat \ {0} /\ j.colSpan \in Nat \ {0}
        /\ j = Info(t.rows, j.row, j.cell, j.col)
    BY <2>1 DEF CoversAt
  <2>3. j.row \in Nat \ {0} /\ j.col \in Nat \ {0} /\ j.cell \in Nat \ {0}
    BY <1>2, <2>2
  <2>4. DOMAIN j = {"row", "cell", "col", "rowSpan", "colSpan"} /\
        j = [row |-> j.row, cell |-> j.cell, col |-> j.col, rowSpan |-> j.rowSpan, colSpan |-> j.colSpan]
    BY <2>2 DEF Info
  <2>5. j \in Entry
    BY <2>2, <2>3, <2>4 DEF Entry
  <2> QED BY <2>5 DEF j
<1>4. t.colsNum # 0
  <2>1. Len(t.rows[x]) # 0
    <3>1. t.rows[x] \in Seq(Cell)
      BY <1>1, RowsTyped
    <3> QED BY <3>1
  <2>2. 1 \in 1..Len(t.rows[x])
    BY <1>2, <2>1
  <2>3. PlacedAt(t, InfoOf(t, <<x, 1>>), x, 1)
    BY <1>2, <2>2, TiledPlace
  <2>4. InfoOf(t, <<x, 1>>).col \in 1..t.colsNum
    BY <2>3 DEF PlacedAt
  <2> QED BY <1>1, <2>4
<1> QED BY <1>1, <1>2, <1>3, <1>4 DEF Loose

\* One without bare rows, and with two cells in its first row.
LEMMA TiledFirm ==
  ASSUME NEW t, t.state = "ready", Tiled(t), t.rowsNum > 0, NoBare(t.rows), Len(t.rows[1]) # 1
  PROVE  Loose(t) /\ Firm(t.rows)
<1> DEFINE R == t.rowsNum
<1>1. t.rows \in Seq(Seq(Cell)) /\ R = Len(t.rows) /\ t.colsNum \in Nat
  BY DEF Tiled
<1>2. R \in Nat \ {0} /\ 1 \in 1..R /\ \A r \in 1..R : Len(t.rows[r]) \in Nat
  BY <1>1, RowsTyped
<1>3. t.rows[1] # <<>>
  BY <1>1, <1>2 DEF NoBare
<1>5. Loose(t)
  BY <1>2, <1>3, TiledLoose
<1>6. ASSUME NEW r \in 1..R, NEW i \in 1..Len(t.rows[r])
      PROVE  r + t.rows[r][i].rowSpan - 1 <= R
  <2> DEFINE j == InfoOf(t, <<r, i>>)
  <2>1. PlacedAt(t, j, r, i)
    BY TiledPlace
  <2> HIDE DEF j
  <2>2. j.col \in 1..t.colsNum /\ j = t.index[<<r, j.col>>] /\ j.row = r /\ j.cell = i
    BY <2>1 DEF PlacedAt
  <2>3. CoversAt(t, j, r, j.col)
    BY <2>2, TiledAt
  <2>4. j.rowSpan = t.rows[r][i].rowSpan /\ j.rowSpan \in Nat /\ r + j.rowSpan <= R + 1
    BY <2>2, <2>3 DEF CoversAt, CellOf
  <2> QED BY <1>2, <2>4
<1>7. HeightOf(t.rows, R)
  BY <1>1, <1>2, <1>6 DEF HeightOf
<1>8. Len(t.rows[1]) >= 2
  <2> DEFINE m == Len(t.rows[1])
  <2>1. m # 0
    <3>1. t.rows[1] \in Seq(Cell)
      BY <1>1, <1>2, RowsTyped
    <3> QED BY <1>3, <3>1
  <2>2. m \in Nat /\ m # 1
    BY <1>2
  <2> HIDE DEF m
  <2>3. m >= 2
    BY <2>1, <2>2
  <2> QED BY <2>3 DEF m
<1> QED BY <1>1, <1>5, <1>7, <1>8 DEF Firm, NoBare

\* The selection of a tiled table is a range of it.
LEMMA ChosenRange ==
  ASSUME TableOk(ut), MarkOk(ut), ut.state = "ready", Tiled(ut), Selected # {}
  PROVE  RangeIn(ut.cellsRange, ut.rowsNum, ut.colsNum) /\ ut.cellsRange # NoRange
<1>1. Regular(ut)
  BY TiledRegular
<1>2. Selectable(ut.rows)
  <2>1. ut.rows \in Seq(Seq(Cell))
    BY DEF Tiled
  <2>2. ASSUME NEW r \in DOMAIN ut.rows, NEW i \in DOMAIN ut.rows[r]
        PROVE  "selected" \in DOMAIN ut.rows[r][i]
    <3>1. ut.rows[r][i] \in Cell
      BY <2>1, RowsTyped
    <3> QED BY <3>1 DEF Cell
  <2> QED BY <2>2 DEF Selectable
<1>3. ut.cellsRange # NoRange
  BY <1>1, <1>2 DEF MarkOk, Selected
<1> QED BY <1>1, <1>3 DEF TableOk, RangeOk

\* The caret is in a cell.
LEMMA CaretCell ==
  ASSUME Tiled(ut), NEW p, CaretIn(p)
  PROVE  /\ ut.rowsNum > 0 /\ ut.rowsNum \in Nat /\ (Selected = {} => p \in Places(ut.rows))
         /\ Selected = {} => InTable(InfoOf(ut, p), ut.rowsNum, ut.colsNum)
<1>1. Places(ut.rows) # {} /\ (Selected = {} => p \in Places(ut.rows))
  BY DEF CaretIn, Selected, Marked
<1>2. ut.rowsNum \in Nat /\ DOMAIN ut.rows = 1..ut.rowsNum
  <2>1. ut.rows \in Seq(Seq(Cell)) /\ ut.rowsNum = Len(ut.rows)
    BY DEF Tiled
  <2> QED BY <2>1, RowsTyped
<1>3. ut.rowsNum > 0
  <2>1. DOMAIN ut.rows # {}
    BY <1>1 DEF Places
  <2> QED BY <1>2, <2>1
<1>4. ASSUME Selected = {}
      PROVE  InTable(InfoOf(ut, p), ut.rowsNum, ut.colsNum)
  <2>1. Indexed(ut)
    BY TiledIndexed
  <2> QED BY <1>1, <1>4, <2>1, EntryOf DEF InfoOf
<1> QED BY <1>1, <1>2, <1>3, <1>4

(* A table with so many rows, each of which has a cell.                    *)
FullRows(t, R) ==
    t.state = "ready" /\ Tiled(t) /\ NoBare(t.rows) /\ t.rowsNum = R

\* Rows put in one after the other.
LEMMA InsRowsReady ==
  ASSUME NEW t, NEW R \in Nat \ {0}, FullRows(t, R), NEW n \in Nat, NEW at \in 1..(R + 1)
  PROVE  Again(t, n, "insertRow", at).state = "ready"
<1>1. PICK f : CallSteps(f, t, n, "insertRow", at)
  BY AgainIs
<1>2. Again(t, n, "insertRow", at) = f[n] /\ f[0] = t
  BY <1>1 DEF CallSteps
<1> DEFINE ok == {k \in Nat : FullRows(f[k], R + k)}
<1>3. 0 \in ok
  BY <1>2
<1>4. ASSUME NEW k \in Nat, k \in ok
      PROVE  k + 1 \in ok
  <2> DEFINE u == f[k]
             v == f[k + 1]
  <2>1. FullRows(u, R + k)
    BY <1>4
  <2>2. v = IF u.state = "thrown" \/ ~Tiled(u) THEN u ELSE Call("insertRow", u, at)
    <3>1. k + 1 \in Nat /\ k + 1 # 0 /\ (k + 1) - 1 = k
      OBVIOUS
    <3> QED BY <1>1, <3>1 DEF CallSteps
  <2> HIDE DEF u, v
  <2>3. v = insertRow(u, at)
    BY <2>1, <2>2 DEF Call, FullRows
  <2>4. u.rowsNum > 0 /\ at \in 1..(u.rowsNum + 1) /\ u.rowsNum = R + k
    BY <2>1 DEF FullRows
  <2>5. v.state = "ready" /\ Tiled(v) /\ NoBare(v.rows) /\ v.rowsNum = u.rowsNum + 1
    BY <2>1, <2>3, <2>4, InsRowNoBare DEF FullRows
  <2>6. FullRows(v, R + (k + 1))
    BY <2>4, <2>5 DEF FullRows
  <2> QED BY <2>6 DEF v
<1> HIDE DEF ok
<1>5. n \in ok
  BY <1>3, <1>4, NatInSet
<1> QED BY <1>2, <1>5 DEF ok, FullRows

(* After k of the rows from a place on are taken out.                      *)
RowsOut(u, R, k) == u.state = "ready" /\ (R - k >= 1 => FullRows(u, R - k))

\* Rows taken out one after the other.
LEMMA DelRowsReady ==
  ASSUME NEW t, NEW R \in Nat \ {0}, FullRows(t, R), NEW at \in 1..R, NEW n \in Nat, at + n - 1 <= R
  PROVE  Again(t, n, "deleteRow", at).state = "ready"
<1>1. PICK f : CallSteps(f, t, n, "deleteRow", at)
  BY AgainIs
<1>2. Again(t, n, "deleteRow", at) = f[n] /\ f[0] = t
  BY <1>1 DEF CallSteps
<1> DEFINE ok == {k \in Nat : k <= n => RowsOut(f[k], R, k)}
<1>3. 0 \in ok
  <2>1. RowsOut(t, R, 0)
    BY DEF RowsOut, FullRows
  <2> QED BY <1>2, <2>1
<1>4. ASSUME NEW k \in Nat, k \in ok
      PROVE  k + 1 \in ok
  <2> SUFFICES ASSUME k + 1 <= n
               PROVE  RowsOut(f[k + 1], R, k + 1)
    OBVIOUS
  <2> DEFINE u == f[k]
             v == f[k + 1]
  <2>1. RowsOut(u, R, k)
    BY <1>4
  <2>2. v = IF u.state = "thrown" \/ ~Tiled(u) THEN u ELSE Call("deleteRow", u, at)
    <3>1. k + 1 \in Nat /\ k + 1 # 0 /\ (k + 1) - 1 = k
      OBVIOUS
    <3> QED BY <1>1, <3>1 DEF CallSteps
  <2> HIDE DEF u, v
  <2>4. at <= R - k /\ R - k >= 1 /\ at \in 1..(R - k)
    OBVIOUS
  <2>5. FullRows(u, R - k)
    BY <2>1, <2>4 DEF RowsOut
  <2>3. v = deleteRow(u, at)
    BY <2>1, <2>2, <2>5 DEF Call, RowsOut, FullRows
  <2>6. CASE R - k = 1
    <3>1. at = 1 /\ u.rowsNum = 1 /\ Tiled(u)
      BY <2>4, <2>5, <2>6 DEF FullRows
    <3>2. v.state = "ready"
      BY <2>3, <3>1, DelOnlyRow
    <3>3. ~(R - (k + 1) >= 1)
      BY <2>6
    <3> QED BY <3>2, <3>3 DEF RowsOut, v
  <2>7. CASE R - k # 1
    <3>1. u.rowsNum = R - k /\ u.rowsNum > 1 /\ at \in 1..u.rowsNum
      BY <2>4, <2>5, <2>7 DEF FullRows
    <3>2. v.state = "ready" /\ Tiled(v) /\ NoBare(v.rows) /\ v.rowsNum = u.rowsNum - 1
      BY <2>3, <2>5, <3>1, DelRowNoBare DEF FullRows
    <3>3. v.rowsNum = R - (k + 1)
      BY <3>1, <3>2
    <3> QED BY <3>2, <3>3 DEF RowsOut, FullRows, v
  <2> QED BY <2>6, <2>7
<1> HIDE DEF ok
<1>5. n \in ok
  BY <1>3, <1>4, NatInSet
<1> QED BY <1>2, <1>5 DEF ok, RowsOut

\* Columns taken out one after the other.
LEMMA DelColsReady ==
  ASSUME NEW t, t.state = "ready", NEW n, NEW at
  PROVE  Again(t, n, "deleteCol", at).state = "ready"
<1>1. PICK f : CallSteps(f, t, n, "deleteCol", at)
  BY AgainIs
<1> SUFFICES ASSUME n \in Nat
             PROVE  (f[n]).state = "ready"
  BY <1>1 DEF CallSteps
<1> DEFINE ok == {k \in Nat : (f[k]).state = "ready"}
<1>2. 0 \in ok
  BY <1>1 DEF CallSteps
<1>3. ASSUME NEW k \in Nat, k \in ok
      PROVE  k + 1 \in ok
  <2> DEFINE u == f[k]
             v == f[k + 1]
  <2>1. u.state = "ready"
    BY <1>3
  <2>2. v = IF u.state = "thrown" \/ ~Tiled(u) THEN u ELSE Call("deleteCol", u, at)
    <3>1. k + 1 \in Nat /\ k + 1 # 0 /\ (k + 1) - 1 = k
      OBVIOUS
    <3> QED BY <1>1, <3>1 DEF CallSteps
  <2> HIDE DEF u, v
  <2>3. v = u \/ v = deleteCol(u, at)
    BY <2>1, <2>2 DEF Call
  <2>4. v = u \/ \E rows : v = update(rows)
    BY <2>3 DEF deleteCol
  <2>5. v.state = "ready"
    BY <2>1, <2>4, UpdateRebuilds DEF Rebuilds
  <2> QED BY <2>5 DEF v
<1> HIDE DEF ok
<1>4. n \in ok
  BY <1>2, <1>3, NatInSet
<1> QED BY <1>4 DEF ok

\* A table that is removed did not end half done.
LEMMA KeepReady ==
  ASSUME NEW u, u.state = "ready"
  PROVE  Keep(u).state # "thrown"
<1>1. CASE Keep(u) = u
  BY <1>1
<1>2. CASE Keep(u) = [u EXCEPT !.state = "none"]
  <2>1. [u EXCEPT !.state = "none"].state # "thrown"
    OBVIOUS
  <2> QED BY <1>2, <2>1
<1> QED BY <1>1, <1>2 DEF Keep

\* The height of what is selected, and the rows it is in.
LEMMA ChosenRows ==
  ASSUME TableOk(ut), MarkOk(ut), Tiled(ut), NEW p, CaretIn(p)
  PROVE  /\ ut.rowsNum \in Nat \ {0} /\ Height \in Nat
         /\ Selected = {} => LET info == InfoOf(ut, p)
                             IN  /\ Height = 1 /\ info.row \in 1..ut.rowsNum
                                 /\ info.row + info.rowSpan \in 1..(ut.rowsNum + 1)
         /\ Selected # {} => /\ ut.cellsRange.beginRow \in 1..ut.rowsNum
                             /\ ut.cellsRange.beginRow + Height - 1 <= ut.rowsNum
                             /\ ut.cellsRange.endRow + 1 \in 1..(ut.rowsNum + 1)
<1> DEFINE R == ut.rowsNum
           q == ut.cellsRange
<1>1. R > 0 /\ R \in Nat
  BY CaretCell
<1>2. ASSUME Selected = {}
      PROVE  LET info == InfoOf(ut, p)
             IN  Height = 1 /\ info.row \in 1..R /\ info.row + info.rowSpan \in 1..(R + 1)
  <2> DEFINE info == InfoOf(ut, p)
  <2>1. InTable(info, R, ut.colsNum)
    BY <1>2, CaretCell
  <2> HIDE DEF info
  <2>2. info.row \in 1..R /\ info.rowSpan \in Nat /\ info.row + info.rowSpan - 1 \in 1..R
    BY <2>1 DEF InTable
  <2>3. info.row + info.rowSpan \in 1..(R + 1)
    BY <1>1, <2>2
  <2>4. Height = 1
    BY <1>2 DEF Height
  <2> QED BY <2>2, <2>3, <2>4 DEF info
<1>3. ASSUME Selected # {}
      PROVE  /\ q.beginRow \in 1..R /\ q.beginRow + Height - 1 <= R /\ q.endRow + 1 \in 1..(R + 1)
             /\ Height \in Nat
  <2>1. RangeIn(q, R, ut.colsNum)
    BY <1>3, ChosenRange DEF CaretIn
  <2> HIDE DEF q
  <2>2. q.beginRow \in 1..R /\ q.endRow \in 1..R /\ q.beginRow <= q.endRow
    BY <2>1 DEF RangeIn
  <2>3. Height = q.endRow - q.beginRow + 1
    BY <1>3 DEF Height, q
  <2> QED BY <1>1, <2>2, <2>3
<1>4. Height \in Nat
  <2>1. Selected = {} => Height = 1
    BY DEF Height
  <2> QED BY <1>3, <2>1
<1> QED BY <1>1, <1>2, <1>3, <1>4

\* Rows put in or taken out.
LEMMA RowCommands ==
  ASSUME TableOk(ut), MarkOk(ut), ut.state = "ready", Tiled(ut), NoBare(ut.rows), NEW p,
         insertrow(p) \/ insertrownext(p) \/ deleterow(p)
  PROVE  ut'.state # "thrown"
<1> DEFINE R == ut.rowsNum
<1>1. CaretIn(p)
  BY DEF insertrow, insertrownext, deleterow
<1>2. R \in Nat \ {0} /\ Height \in Nat
  BY <1>1, ChosenRows
<1>3. FullRows(ut, R)
  BY DEF FullRows
<1>4. CASE insertrow(p)
  <2> DEFINE at == IF Selected = {} THEN InfoOf(ut, p).row ELSE ut.cellsRange.beginRow
  <2>1. ut' = Again(ut, Height, "insertRow", at)
    BY <1>4 DEF insertrow
  <2>2. at \in 1..R
    BY <1>1, ChosenRows
  <2> HIDE DEF at
  <2>3. at \in 1..(R + 1)
    BY <1>2, <2>2
  <2>4. ut'.state = "ready"
    BY <1>2, <1>3, <2>1, <2>3, InsRowsReady
  <2> QED BY <2>4
<1>5. CASE insertrownext(p)
  <2> DEFINE at == IF Selected = {} THEN InfoOf(ut, p).row + InfoOf(ut, p).rowSpan ELSE ut.cellsRange.endRow + 1
  <2>1. ut' = Again(ut, Height, "insertRow", at)
    BY <1>5 DEF insertrownext
  <2>2. at \in 1..(R + 1)
    BY <1>1, ChosenRows
  <2> HIDE DEF at
  <2>3. ut'.state = "ready"
    BY <1>2, <1>3, <2>1, <2>2, InsRowsReady
  <2> QED BY <2>3
<1>6. CASE deleterow(p)
  <2> DEFINE at == IF Selected = {} THEN InfoOf(ut, p).row ELSE ut.cellsRange.beginRow
  <2>1. ut' = Keep(Again(ut, Height, "deleteRow", at))
    BY <1>6 DEF deleterow
  <2>2. at \in 1..R /\ at + Height - 1 <= R
    <3>1. CASE Selected = {}
      <4>1. at \in 1..R /\ Height = 1
        BY <1>1, <3>1, ChosenRows
      <4> HIDE DEF at
      <4> QED BY <1>2, <4>1
    <3>2. CASE Selected # {}
      BY <1>1, <3>2, ChosenRows
    <3> QED BY <3>1, <3>2
  <2> HIDE DEF at
  <2>3. Again(ut, Height, "deleteRow", at).state = "ready"
    BY <1>2, <1>3, <2>2, DelRowsReady
  <2> QED BY <2>1, <2>3, KeepReady
<1> QED BY <1>4, <1>5, <1>6

\* Columns put in or taken out.
LEMMA ColCommands ==
  ASSUME TableOk(ut), MarkOk(ut), ut.state = "ready", Tiled(ut), NEW p,
         insertcol(p) \/ insertcolnext(p) => NoBare(ut.rows) /\ Len(ut.rows[1]) # 1,
         insertcol(p) \/ insertcolnext(p) \/ deletecol(p)
  PROVE  ut'.state # "thrown"
<1>1. CaretIn(p)
  BY DEF insertcol, insertcolnext, deletecol
<1>2. FirstColumn(p) \in Nat \ {0} /\ ColumnBehind(p) \in Nat \ {0}
  <2>1. CASE Selected = {}
    <3> DEFINE info == InfoOf(ut, p)
    <3>1. InTable(info, ut.rowsNum, ut.colsNum)
      BY <1>1, <2>1, CaretCell
    <3>2. FirstColumn(p) = info.col /\ ColumnBehind(p) = info.col + info.colSpan
      BY <2>1 DEF FirstColumn, ColumnBehind
    <3> HIDE DEF info
    <3>3. info.col \in Nat \ {0} /\ info.colSpan \in Nat \ {0}
      BY <3>1 DEF InTable
    <3> QED BY <3>2, <3>3
  <2>2. CASE Selected # {}
    <3> DEFINE q == ut.cellsRange
    <3>1. RangeIn(q, ut.rowsNum, ut.colsNum)
      BY <2>2, ChosenRange
    <3>2. FirstColumn(p) = q.beginCol /\ ColumnBehind(p) = q.endCol + 1
      BY <2>2 DEF FirstColumn, ColumnBehind
    <3> HIDE DEF q
    <3>3. q.beginCol \in Nat \ {0} /\ q.endCol \in Nat \ {0}
      BY <3>1 DEF RangeIn
    <3> QED BY <3>2, <3>3
  <2> QED BY <2>1, <2>2
<1>3. ASSUME NoBare(ut.rows), Len(ut.rows[1]) # 1, NEW at \in Nat \ {0}, ut' = Again(ut, Width, "insertCol", at)
      PROVE  ut'.state # "thrown"
  <2>1. CASE Width \in Nat
    <3>1. Loose(ut) /\ Firm(ut.rows) /\ TableRec(ut)
      BY <1>1, <1>3, CaretCell, TiledFirm DEF TableOk
    <3>2. OnTheWay(ut', ut)
      BY <1>3, <2>1, <3>1, InsColsCover
    <3> QED BY <3>1, <3>2 DEF OnTheWay, Loose
  <2>2. CASE Width \notin Nat
    <3>1. ut' = ut
      BY <1>3, <2>2 DEF Again
    <3> QED BY <3>1
  <2> QED BY <2>1, <2>2
<1>4. CASE insertcol(p)
  BY <1>2, <1>3, <1>4 DEF insertcol
<1>5. CASE insertcolnext(p)
  BY <1>2, <1>3, <1>5 DEF insertcolnext
<1>6. CASE deletecol(p)
  <2>1. \E n, at : ut' = Keep(Again(ut, n, "deleteCol", at))
    BY <1>6 DEF deletecol
  <2> QED BY <2>1, DelColsReady, KeepReady
<1> QED BY <1>4, <1>5, <1>6

\* A selection made with the mouse does not end half done.
LEMMA SelectNotHalf ==
  ASSUME SelectCells
  PROVE  ut'.state # "thrown"
<1> DEFINE t == tableClickHander(ut)
<1>1. Rebuilds(t)
  BY UpdateRebuilds DEF tableClickHander
<1>2. \E p, q \in Places(t.rows) : ut' = t \/ ut' = setSelected(t, getCellsRange(t, p, q))
  BY DEF SelectCells
<1> HIDE DEF t
<1>3. t.state = "ready" /\ DOMAIN t = {"rows", "index", "rowsNum", "colsNum", "cellsRange", "state"}
  BY <1>1 DEF Rebuilds, TableRec
<1>4. ASSUME NEW g, NEW u, u = setSelected(t, g)
      PROVE  u.state # "thrown"
  <2>1. CASE Cut(t, g)
    <3>1. u = [t EXCEPT !.rows = Unmarked(@), !.cellsRange = g, !.state = "null"]
      BY <1>4, <2>1 DEF setSelected
    <3>2. u.state = "null"
      BY <1>3, <3>1
    <3> QED BY <3>2
  <2>2. CASE ~Cut(t, g)
    <3>1. u = [t EXCEPT !.rows = Mark(Unmarked(@), PlacesIn(t, g)), !.cellsRange = g]
      BY <1>4, <2>2 DEF setSelected
    <3>2. u.state = t.state
      BY <1>3, <3>1
    <3> QED BY <1>3, <3>2
  <2> QED BY <2>1, <2>2
<1>5. PICK p \in Places(t.rows), q \in Places(t.rows) : ut' = t \/ ut' = setSelected(t, getCellsRange(t, p, q))
  BY <1>2
<1> QED BY <1>3, <1>4, <1>5

(* Why a command may end half done.                                        *)
HalfDoneReason(t) ==
    \/ \E r \in DOMAIN t.rows : t.rows[r] = <<>>
    \/ Len(t.rows[1]) = 1
    \/ t.cellsRange # NoRange /\ Cut(t, t.cellsRange)

\* A command ends half done for such a reason only.
LEMMA HalfDoneStep ==
  ASSUME TableOk(ut), MarkOk(ut), [TableNext]_ut, ut.state = "ready", Tiled(ut), ut'.state = "thrown"
  PROVE  HalfDoneReason(ut)
<1>0. TableRec(ut) /\ DOMAIN ut.rows = 1..Len(ut.rows)
  <2>1. ut.rows \in Seq(Seq(Cell))
    BY DEF Tiled
  <2> QED BY <2>1, RowsTyped DEF TableOk
<1> SUFFICES ASSUME ~HalfDoneReason(ut)
             PROVE  FALSE
  OBVIOUS
<1>a. NoBare(ut.rows) /\ Len(ut.rows[1]) # 1
  BY <1>0 DEF HalfDoneReason, NoBare
<1>1. ASSUME NEW n \in 1..MaxRows, NEW m \in 1..MaxCols, inserttable(n, m)
      PROVE  FALSE
  BY <1>1 DEF inserttable
<1>2. CASE SelectCells
  BY <1>2, SelectNotHalf
<1>3. ASSUME NEW p \in TablePlaces, NEW w \in Words, TypeWord(p, w)
      PROVE  FALSE
  <2>1. ut' = [ut EXCEPT !.rows[p[1]][p[2]].text = @ \union {w}]
    BY <1>3 DEF TypeWord
  <2>2. ut'.state = ut.state
    BY <1>0, <2>1 DEF TableRec
  <2> QED BY <2>2
<1>4. CASE DelCells
  <2>1. \E rows : ut' = [ut EXCEPT !.rows = rows]
    BY <1>4 DEF DelCells
  <2>2. ut'.state = ut.state
    BY <1>0, <2>1 DEF TableRec
  <2> QED BY <2>2
<1>5. CASE deletetable
  BY <1>5 DEF deletetable, NoTable
<1>6. CASE mergecells
  <2>1. Selected # {} /\ ut' = mergeRange(ut)
    BY <1>6 DEF mergecells
  <2>2. ut.cellsRange # NoRange
    BY <2>1, ChosenRange
  <2>3. ~Cut(ut, ut.cellsRange)
    BY <2>2 DEF HalfDoneReason
  <2>4. \E rows : mergeRange(ut) = update(rows)
    BY <2>3 DEF mergeRange
  <2>5. ut'.state = "ready"
    BY <2>1, <2>4, UpdateRebuilds DEF Rebuilds
  <2> QED BY <2>5
<1>7. CASE sorttable
  <2>1. \E rows : ut' = [ut EXCEPT !.rows = rows]
    BY <1>7 DEF sorttable
  <2>2. ut'.state = ut.state
    BY <1>0, <2>1 DEF TableRec
  <2> QED BY <2>2
<1>8. ASSUME NEW p \in TablePlaces, mergeright(p) \/ mergedown(p)
      PROVE  FALSE
  <2>1. ut' = mergeRight(ut, p) \/ ut' = mergeDown(ut, p)
    BY <1>8 DEF mergeright, mergedown
  <2>2. \E rows : ut' = update(rows)
    BY <2>1 DEF mergeRight, mergeDown
  <2>3. ut'.state = "ready"
    BY <2>2, UpdateRebuilds DEF Rebuilds
  <2> QED BY <2>3
<1>9. ASSUME NEW p \in TablePlaces, insertrow(p) \/ insertrownext(p) \/ deleterow(p)
      PROVE  FALSE
  BY <1>9, <1>a, RowCommands
<1>10. ASSUME NEW p \in TablePlaces, insertcol(p) \/ insertcolnext(p) \/ deletecol(p)
       PROVE  FALSE
  BY <1>10, <1>a, ColCommands
<1>11. ASSUME NEW p \in TablePlaces, splittocells(p) \/ splittorows(p) \/ splittocols(p)
       PROVE  FALSE
  <2>1. ut' = splitToCells(ut, p) \/ ut' = splitToRows(ut, p) \/ ut' = splitToCols(ut, p)
    BY <1>11 DEF splittocells, splittorows, splittocols
  <2>2. ut' = ut \/ Rebuilds(ut')
    BY <2>1, CellsSettled, SplitsSettled
  <2> QED BY <2>2 DEF Rebuilds
<1>12. CASE UNCHANGED ut
  BY <1>12
<1> QED BY <1>1, <1>2, <1>3, <1>4, <1>5, <1>6, <1>7, <1>8, <1>9, <1>10, <1>11, <1>12 DEF TableNext, TableCommand

\* A table has its fields, and nothing is marked while no range is selected.
THEOREM TableStaysMarked == TableSpec => [](TableOk(ut) /\ MarkOk(ut))
<1>1. TableInit => MarkOk(ut)
  BY DEF TableInit, NoTable, MarkOk
<1>2. TableOk(ut) /\ MarkOk(ut) /\ [TableNext]_ut => MarkOk(ut)'
  <2> SUFFICES ASSUME TableOk(ut), MarkOk(ut), [TableNext]_ut
               PROVE  MarkOk(ut')
    BY DEF MarkOk
  <2> QED BY MarkOkStep DEF TableOk
<1> QED BY <1>1, <1>2, TableStaysOk, PTL DEF TableSpec

\* A command ends half done only in a table with a row that has no cell of its
\* own, or whose first row is one cell, or when the rebuilt selection cuts a cell.
THEOREM TableHalfDone == TableSpec => HalfDoneOnlyOnBareRows
<1>1. TableOk(ut) /\ MarkOk(ut) /\ [TableNext]_ut =>
        [ut.state = "ready" /\ Tiled(ut) /\ ut'.state = "thrown" =>
          \/ \E r \in DOMAIN ut.rows : ut.rows[r] = <<>>
          \/ Len(ut.rows[1]) = 1
          \/ ut.cellsRange # NoRange /\ Cut(ut, ut.cellsRange)]_ut
  BY HalfDoneStep DEF HalfDoneReason
<1> QED BY <1>1, TableStaysMarked, PTL DEF TableSpec, HalfDoneOnlyOnBareRows

-----------------------------------------------------------------------------
(* No command loses what was typed.                                        *)

HasWord(rows, x) == \E r \in 1..Len(rows) : \E i \in 1..Len(rows[r]) : x \in rows[r][i].text

(* Rows w have all the words of the rows.                                  *)
Retains(w, rows) ==
    /\ w \in Seq(Seq(Cell)) /\ rows \in Seq(Seq(Cell))
    /\ \A x : HasWord(rows, x) => HasWord(w, x)

\* The words of a table are those of its cells.
LEMMA WordsAre ==
  ASSUME NEW t, t.rows \in Seq(Seq(Cell)), NEW x
  PROVE  x \in WordsIn(t) <=> HasWord(t.rows, x)
<1> DEFINE rows == t.rows
<1>1. \A p : p \in Places(rows) <=> \E r \in 1..Len(rows) : \E i \in 1..Len(rows[r]) : p = <<r, i>>
  BY PlacesAre
<1>2. ASSUME x \in WordsIn(t)
      PROVE  HasWord(rows, x)
  <2>1. PICK p \in Places(rows) : x \in rows[p[1]][p[2]].text
    BY <1>2 DEF WordsIn
  <2>0. PICK r \in 1..Len(rows) : \E i \in 1..Len(rows[r]) : p = <<r, i>>
    BY <1>1, <2>1
  <2>2. PICK i \in 1..Len(rows[r]) : p = <<r, i>>
    BY <2>0
  <2>3. x \in rows[r][i].text
    BY <2>1, <2>2
  <2> QED BY <2>3 DEF HasWord
<1>3. ASSUME HasWord(rows, x)
      PROVE  x \in WordsIn(t)
  <2>1. PICK r \in 1..Len(rows) : \E i \in 1..Len(rows[r]) : x \in rows[r][i].text
    BY <1>3 DEF HasWord
  <2>2. PICK i \in 1..Len(rows[r]) : x \in rows[r][i].text
    BY <2>1
  <2>3. <<r, i>> \in Places(rows)
    BY <1>1
  <2>4. \E p \in Places(rows) : x \in rows[p[1]][p[2]].text
    BY <2>2, <2>3
  <2> QED BY <2>4 DEF WordsIn
<1> QED BY <1>2, <1>3

\* A table with the words of another one.
LEMMA WordsHeld ==
  ASSUME NEW t, NEW u, Retains(u.rows, t.rows)
  PROVE  WordsIn(t) \subseteq WordsIn(u)
<1> SUFFICES ASSUME NEW x \in WordsIn(t)
             PROVE  x \in WordsIn(u)
  OBVIOUS
<1>1. HasWord(t.rows, x)
  BY WordsAre DEF Retains
<1>2. HasWord(u.rows, x)
  BY <1>1 DEF Retains
<1> QED BY <1>2, WordsAre DEF Retains

\* Keeping the words is transitive,
LEMMA KeepsTrans ==
  ASSUME NEW a, NEW b, NEW c, Retains(c, b), Retains(b, a)
  PROVE  Retains(c, a)
BY DEF Retains

\* and reflexive.
LEMMA KeepsSelf ==
  ASSUME NEW rows \in Seq(Seq(Cell))
  PROVE  Retains(rows, rows)
BY DEF Retains

\* A cell with the same words for each cell.
LEMMA KeepsCells ==
  ASSUME NEW w \in Seq(Seq(Cell)), NEW rows \in Seq(Seq(Cell)),
         \A r \in 1..Len(rows) : \A i \in 1..Len(rows[r]) :
            \E y \in 1..Len(w) : \E j \in 1..Len(w[y]) : rows[r][i].text \subseteq w[y][j].text
  PROVE  Retains(w, rows)
<1> SUFFICES ASSUME NEW x, HasWord(rows, x)
             PROVE  HasWord(w, x)
  BY DEF Retains
<1>1. PICK r \in 1..Len(rows) : \E i \in 1..Len(rows[r]) : x \in rows[r][i].text
  BY DEF HasWord
<1>2. PICK i \in 1..Len(rows[r]) : x \in rows[r][i].text
  BY <1>1
<1>3. PICK y \in 1..Len(w) : \E j \in 1..Len(w[y]) : rows[r][i].text \subseteq w[y][j].text
  OBVIOUS
<1>4. PICK j \in 1..Len(w[y]) : rows[r][i].text \subseteq w[y][j].text
  BY <1>3
<1>5. x \in w[y][j].text
  BY <1>2, <1>4
<1> QED BY <1>5 DEF HasWord

\* Rows that cover others have their words.
LEMMA CoverKeeps ==
  ASSUME NEW w, NEW rows, RowsCover(w, rows)
  PROVE  Retains(w, rows)
<1>1. Len(w) \in Nat /\ Len(rows) \in Nat /\ Len(rows) <= Len(w) /\ w \in Seq(Seq(Cell)) /\ rows \in Seq(Seq(Cell))
  BY RowsTyped DEF RowsCover
<1>2. ASSUME NEW r \in 1..Len(rows), NEW i \in 1..Len(rows[r])
      PROVE  \E y \in 1..Len(w) : \E j \in 1..Len(w[y]) : rows[r][i].text \subseteq w[y][j].text
  <2>1. Covers(w[r], rows[r])
    BY DEF RowsCover
  <2>2. PICK j \in 1..Len(w[r]) : w[r][j].text = rows[r][i].text
    BY <2>1 DEF Covers
  <2>3. r \in 1..Len(w)
    BY <1>1
  <2> QED BY <2>2, <2>3
<1> QED BY <1>1, <1>2, KeepsCells

\* What update builds keeps the words.
LEMMA UpdateKeeps ==
  ASSUME NEW rows \in Seq(Seq(Cell)), NEW u, u = update(rows)
  PROVE  Retains(u.rows, rows) /\ u.rowsNum = Len(u.rows) /\ Len(rows) <= Len(u.rows) /\ u.state = "ready"
<1>1. BuiltFrom(u, rows)
  BY UpdateBuilds
<1>2. RowsCover(u.rows, rows)
  BY <1>1, BuiltCovers
<1> QED BY <1>1, <1>2, CoverKeeps DEF BuiltFrom

\* Cells in the same places with no less words.
LEMMA KeepsPlaces ==
  ASSUME NEW w \in Seq(Seq(Cell)), NEW rows \in Seq(Seq(Cell)), Len(w) = Len(rows),
         \A r \in 1..Len(rows) : /\ Len(w[r]) = Len(rows[r])
                                 /\ \A i \in 1..Len(rows[r]) : rows[r][i].text \subseteq w[r][i].text
  PROVE  Retains(w, rows)
<1>1. ASSUME NEW r \in 1..Len(rows), NEW i \in 1..Len(rows[r])
      PROVE  \E y \in 1..Len(w) : \E j \in 1..Len(w[y]) : rows[r][i].text \subseteq w[y][j].text
  <2>1. r \in 1..Len(w) /\ i \in 1..Len(w[r]) /\ rows[r][i].text \subseteq w[r][i].text
    OBVIOUS
  <2> QED BY <2>1
<1> QED BY <1>1, KeepsCells

\* Marking cells, or not, leaves their words.
LEMMA UnmarkedKeeps ==
  ASSUME NEW rows \in Seq(Seq(Cell))
  PROVE  Retains(Unmarked(rows), rows)
<1> DEFINE w == Unmarked(rows)
<1>1. /\ w \in Seq(Seq(Cell)) /\ Len(w) = Len(rows)
      /\ \A r \in 1..Len(rows) : /\ Len(w[r]) = Len(rows[r])
                                  /\ \A i \in 1..Len(rows[r]) : w[r][i] = [rows[r][i] EXCEPT !.selected = FALSE]
  BY UnmarkedIs
<1> HIDE DEF w
<1>2. ASSUME NEW r \in 1..Len(rows)
      PROVE  /\ Len(w[r]) = Len(rows[r])
             /\ \A i \in 1..Len(rows[r]) : rows[r][i].text \subseteq w[r][i].text
  <2>1. Len(w[r]) = Len(rows[r])
    BY <1>1
  <2>2. ASSUME NEW i \in 1..Len(rows[r])
        PROVE  rows[r][i].text \subseteq w[r][i].text
    <3>1. w[r][i] = [rows[r][i] EXCEPT !.selected = FALSE]
      BY <1>1
    <3>2. rows[r][i] \in Cell
      BY RowsTyped
    <3>3. w[r][i].text = rows[r][i].text
      BY <3>1, <3>2 DEF Cell
    <3> QED BY <3>3
  <2> QED BY <2>1, <2>2
<1> QED BY <1>1, <1>2, KeepsPlaces DEF w

(* Rows w are rows m without the cells that are gone.                      *)
Lacks(w, m, gone) ==
    /\ w \in Seq(Seq(Cell)) /\ Len(w) = Len(m)
    /\ \A r \in 1..Len(m) : \A i \in 1..Len(m[r]) :
          <<r, i>> \notin gone => \E k \in 1..Len(w[r]) : w[r][k] = m[r][i]

(* Row v is row u with only the cells with a number in S.                  *)
OnlyOf(v, u, S) == v = LET kept == Ascending(S) IN [k \in DOMAIN kept |-> u[kept[k]]]

\* What Without leaves of a row.
LEMMA WithoutRow ==
  ASSUME NEW row \in Seq(Cell), NEW S \in SUBSET (1..Len(row)), NEW v, OnlyOf(v, row, S)
  PROVE  v \in Seq(Cell) /\ \A i \in S : \E k \in 1..Len(v) : v[k] = row[i]
<1> DEFINE kept == Ascending(S)
           n == Cardinality(S)
<1>1. Len(row) \in Nat /\ \A i \in 1..Len(row) : row[i] \in Cell
  OBVIOUS
<1>2. n \in Nat /\ kept \in [1..n -> S] /\ \A x \in S : \E k \in 1..n : kept[k] = x
  BY <1>1, AscendingIs
<1>3. v = [k \in DOMAIN kept |-> row[kept[k]]]
  BY DEF OnlyOf
<1> HIDE DEF kept, n
<1>4. v \in [1..n -> Cell] /\ \A k \in 1..n : v[k] = row[kept[k]]
  BY <1>1, <1>2, <1>3
<1>5. v \in Seq(Cell) /\ Len(v) = n
  BY <1>2, <1>4, FcnIsSeq
<1> QED BY <1>2, <1>4, <1>5

\* What it leaves of the rows.
LEMMA WithoutIs ==
  ASSUME NEW m \in Seq(Seq(Cell)), NEW gone
  PROVE  Lacks(Without(m, gone), m, gone)
<1> DEFINE w == Without(m, gone)
           T(r) == {i \in DOMAIN m[r] : <<r, i>> \notin gone}
<1>1. /\ Len(m) \in Nat /\ DOMAIN m = 1..Len(m)
      /\ \A r \in 1..Len(m) : m[r] \in Seq(Cell) /\ DOMAIN m[r] = 1..Len(m[r])
  BY RowsTyped
<1>2. w = [r \in 1..Len(m) |-> LET kept == Ascending(T(r)) IN [k \in DOMAIN kept |-> m[r][kept[k]]]]
  BY <1>1 DEF Without
<1> HIDE DEF w
<1>3. ASSUME NEW r \in 1..Len(m)
      PROVE  w[r] \in Seq(Cell) /\ \A i \in 1..Len(m[r]) :
                <<r, i>> \notin gone => \E k \in 1..Len(w[r]) : w[r][k] = m[r][i]
  <2> DEFINE u == m[r]
             S == T(r)
             v == w[r]
  <2>0. \A i \in 1..Len(m[r]) : <<r, i>> \notin gone => i \in S
    BY <1>1
  <2>1. S \in SUBSET (1..Len(u))
    BY <1>1
  <2>2. OnlyOf(v, u, S)
    BY <1>2 DEF OnlyOf
  <2>3. u \in Seq(Cell)
    BY <1>1
  <2> HIDE DEF T, S, v, u
  <2>4. v \in Seq(Cell) /\ \A i \in S : \E k \in 1..Len(v) : v[k] = u[i]
    BY <2>1, <2>2, <2>3, WithoutRow
  <2>5. ASSUME NEW i \in 1..Len(m[r]), <<r, i>> \notin gone
        PROVE  \E k \in 1..Len(v) : v[k] = m[r][i]
    <3>1. i \in S
      BY <2>0, <2>5
    <3>2. \E k \in 1..Len(v) : v[k] = u[i]
      BY <2>4, <3>1
    <3> QED BY <3>2 DEF u
  <2>6. v = w[r]
    BY DEF v
  <2>7. w[r] \in Seq(Cell)
    BY <2>4 DEF v
  <2>8. \A i \in 1..Len(m[r]) : <<r, i>> \notin gone => \E k \in 1..Len(w[r]) : w[r][k] = m[r][i]
    BY <2>5 DEF v
  <2> QED BY <2>7, <2>8
<1>4. w \in [1..Len(m) -> Seq(Cell)]
  BY <1>2, <1>3
<1>5. w \in Seq(Seq(Cell)) /\ Len(w) = Len(m)
  BY <1>1, <1>4, FcnIsSeq
<1> QED BY <1>3, <1>5 DEF Lacks, w

\* Rows with one cell replaced by one with no less words.
LEMMA CellSetWords ==
  ASSUME NEW rows \in Seq(Seq(Cell)), NEW b \in 1..Len(rows), NEW i \in 1..Len(rows[b]), NEW x \in Cell,
         rows[b][i].text \subseteq x.text, NEW m, m = WithCell(rows, b, i, x)
  PROVE  Retains(m, rows)
<1>1. HasCell(m, rows, b, i, x) /\ Len(rows) \in Nat
  BY CellSet, RowsTyped
<1>2. m \in [1..Len(rows) -> Seq(Cell)]
  BY <1>1 DEF HasCell
<1>3. m \in Seq(Seq(Cell)) /\ Len(m) = Len(rows)
  BY <1>1, <1>2, FcnIsSeq
<1>4. ASSUME NEW r \in 1..Len(rows)
      PROVE  Len(m[r]) = Len(rows[r]) /\ \A j \in 1..Len(rows[r]) : rows[r][j].text \subseteq m[r][j].text
  BY <1>1 DEF HasCell
<1> QED BY <1>3, <1>4, KeepsPlaces

(* Cell <<b, i>> of rows m has the words of the cells that are gone from    *)
(* rows w, itself not among them.                                          *)
MovedTo(w, m, gone, b, i) ==
    /\ Lacks(w, m, gone) /\ m \in Seq(Seq(Cell))
    /\ gone # {} => b \in 1..Len(m) /\ i \in 1..Len(m[b]) /\ <<b, i>> \notin gone
    /\ \A r \in 1..Len(m) : \A j \in 1..Len(m[r]) :
          <<r, j>> \in gone => m[r][j].text \subseteq m[b][i].text

\* Then no word is gone.
LEMMA MovedKeeps ==
  ASSUME NEW w, NEW m, NEW gone, NEW b, NEW i, MovedTo(w, m, gone, b, i)
  PROVE  Retains(w, m)
<1>1. w \in Seq(Seq(Cell)) /\ m \in Seq(Seq(Cell)) /\ Len(w) = Len(m)
  BY DEF MovedTo, Lacks
<1>2. ASSUME NEW r \in 1..Len(m), NEW j \in 1..Len(m[r]), <<r, j>> \notin gone
      PROVE  r \in 1..Len(w) /\ \E k \in 1..Len(w[r]) : w[r][k] = m[r][j]
  BY <1>1, <1>2 DEF MovedTo, Lacks
<1>3. ASSUME NEW r \in 1..Len(m), NEW j \in 1..Len(m[r])
      PROVE  \E y \in 1..Len(w) : \E k \in 1..Len(w[y]) : m[r][j].text \subseteq w[y][k].text
  <2>1. CASE <<r, j>> \notin gone
    <3>1. PICK k \in 1..Len(w[r]) : w[r][k] = m[r][j]
      BY <1>2, <2>1
    <3> QED BY <1>1, <3>1
  <2>2. CASE <<r, j>> \in gone
    <3>1. b \in 1..Len(m) /\ i \in 1..Len(m[b]) /\ <<b, i>> \notin gone /\ m[r][j].text \subseteq m[b][i].text
      BY <2>2 DEF MovedTo
    <3>2. PICK k \in 1..Len(w[b]) : w[b][k] = m[b][i]
      BY <1>2, <3>1
    <3> QED BY <1>1, <3>1, <3>2
  <2> QED BY <2>1, <2>2
<1> QED BY <1>1, <1>3, KeepsCells

\* A cell whose content goes to another one may be deleted.
LEMMA AbsorbKeeps ==
  ASSUME NEW rows \in Seq(Seq(Cell)), NEW b \in 1..Len(rows), NEW i \in 1..Len(rows[b]),
         NEW y \in 1..Len(rows), NEW j \in 1..Len(rows[y]), <<b, i>> # <<y, j>>
  PROVE  Retains(Absorb(rows, <<b, i>>, <<y, j>>), rows)
<1> DEFINE x == [rows[b][i] EXCEPT !.text = @ \union rows[y][j].text]
           m == WithCell(rows, b, i, x)
           w == Without(m, {<<y, j>>})
<1>1. rows[b][i] \in Cell /\ rows[y][j] \in Cell
  BY RowsTyped
<1>2. rows[b][i].text \in SUBSET Words /\ rows[y][j].text \in SUBSET Words
  BY <1>1, CellTyped
<1>3. x = [rows[b][i] EXCEPT !.text = rows[b][i].text \union rows[y][j].text]
  OBVIOUS
<1>4. x \in Cell /\ x.text = rows[b][i].text \union rows[y][j].text
  <2> DEFINE n == rows[b][i].text \union rows[y][j].text
  <2>1. n \in SUBSET Words /\ x = [rows[b][i] EXCEPT !.text = n]
    BY <1>2, <1>3
  <2> HIDE DEF n, x
  <2>2. x \in Cell /\ x.text = n
    BY <1>1, <2>1, WithText
  <2> QED BY <2>2 DEF n
<1>5. Absorb(rows, <<b, i>>, <<y, j>>) = w
  BY DEF Absorb, WithCell
<1> HIDE DEF x
<1>6. Retains(m, rows) /\ HasCell(m, rows, b, i, x)
  BY <1>4, CellSetWords, CellSet
<1> HIDE DEF m
<1>7. m \in Seq(Seq(Cell)) /\ Len(m) = Len(rows)
  <2>1. Len(rows) \in Nat /\ m = [r \in 1..Len(rows) |-> m[r]]
    BY <1>6, RowsTyped DEF HasCell
  <2> QED BY <1>6, <2>1 DEF Retains
<1>8. Lacks(w, m, {<<y, j>>})
  BY <1>7, WithoutIs
<1> HIDE DEF w
<1>9. b \in 1..Len(m) /\ i \in 1..Len(m[b]) /\ <<b, i>> \notin {<<y, j>>} /\ m[b][i] = x
  BY <1>6, <1>7 DEF HasCell
<1>10. m[y][j].text \subseteq x.text
  <2>1. m[y][j] = rows[y][j]
    BY <1>6 DEF HasCell
  <2> QED BY <1>4, <2>1
<1>11. MovedTo(w, m, {<<y, j>>}, b, i)
  <2>1. \A r \in 1..Len(m) : \A k \in 1..Len(m[r]) : <<r, k>> \in {<<y, j>>} => m[r][k].text \subseteq m[b][i].text
    BY <1>9, <1>10
  <2> QED BY <1>7, <1>8, <1>9, <2>1 DEF MovedTo
<1>12. Retains(w, m)
  BY <1>11, MovedKeeps
<1> QED BY <1>5, <1>6, <1>12, KeepsTrans

\* A cell that grows and takes in another one.
LEMMA GrowAbsorbs ==
  ASSUME NEW rows \in Seq(Seq(Cell)), NEW b \in 1..Len(rows), NEW i \in 1..Len(rows[b]),
         NEW y \in 1..Len(rows), NEW j \in 1..Len(rows[y]), <<b, i>> # <<y, j>>,
         NEW x \in Cell, x.text = rows[b][i].text, NEW m, m = WithCell(rows, b, i, x)
  PROVE  Retains(update(Absorb(m, <<b, i>>, <<y, j>>)).rows, rows)
<1>1. Retains(m, rows) /\ HasCell(m, rows, b, i, x)
  BY CellSetWords, CellSet
<1>2. m \in Seq(Seq(Cell)) /\ Len(m) = Len(rows)
  <2>1. Len(rows) \in Nat /\ m = [r \in 1..Len(rows) |-> m[r]]
    BY <1>1, RowsTyped DEF HasCell
  <2> QED BY <1>1, <2>1 DEF Retains
<1>3. b \in 1..Len(m) /\ i \in 1..Len(m[b]) /\ y \in 1..Len(m) /\ j \in 1..Len(m[y])
  BY <1>1, <1>2 DEF HasCell
<1> DEFINE w == Absorb(m, <<b, i>>, <<y, j>>)
<1>4. Retains(w, m)
  BY <1>2, <1>3, AbsorbKeeps
<1> HIDE DEF w
<1>5. Retains(update(w).rows, w)
  BY <1>4, UpdateKeeps DEF Retains
<1> QED BY <1>1, <1>4, <1>5, KeepsTrans DEF w

(* A cell of a tiled table, what the index says of it, and another one.    *)
Neighbours(t, info, other, r, i) ==
    /\ t.rows \in Seq(Seq(Cell)) /\ r \in 1..Len(t.rows) /\ i \in 1..Len(t.rows[r]) /\ t.rows[r][i] \in Cell
    /\ info.rowSpan \in Nat \ {0} /\ info.colSpan \in Nat \ {0}
    /\ other.row \in 1..Len(t.rows) /\ other.cell \in 1..Len(t.rows[other.row]) /\ <<r, i>> # <<other.row, other.cell>>
    /\ other.rowSpan \in Nat \ {0} /\ other.colSpan \in Nat \ {0}

\* A cell and the one at its right.
LEMMA RightNeighbour ==
  ASSUME NEW t, Tiled(t), NEW r \in 1..t.rowsNum, NEW i \in 1..Len(t.rows[r]),
         NEW info, info = InfoOf(t, <<r, i>>), info.col + info.colSpan <= t.colsNum
  PROVE  Neighbours(t, info, RightOf(t, info), r, i)
<1>1. PlacedAt(t, info, r, i)
  BY TiledPlace
<1>2. info.row = r /\ info.col \in 1..t.colsNum /\ info = t.index[<<r, info.col>>]
  BY <1>1 DEF PlacedAt
<1>3. CoversAt(t, info, r, info.col)
  BY <1>2, TiledAt
<1>4. info.rowSpan \in Nat \ {0} /\ info.colSpan \in Nat \ {0}
  BY <1>3 DEF CoversAt
<1> DEFINE c == info.col + info.colSpan
           other == t.index[<<r, c>>]
<1>5. c \in 1..t.colsNum /\ RightOf(t, info) = other
  BY <1>2, <1>4 DEF RightOf
<1>6. CoversAt(t, other, r, c)
  BY <1>5, TiledAt
<1>7. t.rows \in Seq(Seq(Cell)) /\ t.rowsNum = Len(t.rows)
  BY DEF Tiled
<1>8. other # info
  <2>1. CASE other = info
    <3>1. c < info.col + info.colSpan
      BY <1>6, <2>1 DEF CoversAt
    <3> QED BY <1>2, <1>4, <3>1
  <2> QED BY <2>1
<1>9. <<r, i>> # <<other.row, other.cell>>
  <2> SUFFICES ASSUME other.row = r, other.cell = i
               PROVE  FALSE
    OBVIOUS
  <2>1. other = info
    BY <1>5, TiledPlace
  <2> QED BY <1>8, <2>1
<1>10. /\ other.row \in 1..t.rowsNum /\ other.cell \in 1..Len(t.rows[other.row])
       /\ other.rowSpan \in Nat \ {0} /\ other.colSpan \in Nat \ {0}
  BY <1>6 DEF CoversAt
<1>11. t.rows[r][i] \in Cell
  BY <1>7, RowsTyped
<1> HIDE DEF other, c
<1> QED BY <1>4, <1>5, <1>7, <1>9, <1>10, <1>11 DEF Neighbours

\* A cell and the one below it.
LEMMA LowerNeighbour ==
  ASSUME NEW t, Tiled(t), NEW r \in 1..t.rowsNum, NEW i \in 1..Len(t.rows[r]),
         NEW info, info = InfoOf(t, <<r, i>>), info.row + info.rowSpan <= t.rowsNum
  PROVE  Neighbours(t, info, Below(t, info), r, i)
<1>1. PlacedAt(t, info, r, i)
  BY TiledPlace
<1>2. info.row = r /\ info.col \in 1..t.colsNum /\ info = t.index[<<r, info.col>>]
  BY <1>1 DEF PlacedAt
<1>3. CoversAt(t, info, r, info.col)
  BY <1>2, TiledAt
<1>4. info.rowSpan \in Nat \ {0} /\ info.colSpan \in Nat \ {0}
  BY <1>3 DEF CoversAt
<1> DEFINE s == info.row + info.rowSpan
           other == t.index[<<s, info.col>>]
<1>5. s \in 1..t.rowsNum /\ Below(t, info) = other
  BY <1>2, <1>4 DEF Below
<1>6. CoversAt(t, other, s, info.col)
  BY <1>2, <1>5, TiledAt
<1>7. t.rows \in Seq(Seq(Cell)) /\ t.rowsNum = Len(t.rows)
  BY DEF Tiled
<1>8. other # info
  <2>1. CASE other = info
    <3>1. s < info.row + info.rowSpan
      BY <1>6, <2>1 DEF CoversAt
    <3> QED BY <1>2, <1>4, <3>1
  <2> QED BY <2>1
<1>9. <<r, i>> # <<other.row, other.cell>>
  <2> SUFFICES ASSUME other.row = r, other.cell = i
               PROVE  FALSE
    OBVIOUS
  <2>1. \A x \in 1..t.rowsNum, y \in 1..t.colsNum :
           t.index[<<x, y>>].row = r /\ t.index[<<x, y>>].cell = i => t.index[<<x, y>>] = info
    BY TiledPlace
  <2>2. other = info
    <3> HIDE DEF s
    <3> QED BY <1>2, <1>5, <2>1
  <2> QED BY <1>8, <2>2
<1>10. /\ other.row \in 1..t.rowsNum /\ other.cell \in 1..Len(t.rows[other.row])
       /\ other.rowSpan \in Nat \ {0} /\ other.colSpan \in Nat \ {0}
  BY <1>6 DEF CoversAt
<1>11. t.rows[r][i] \in Cell
  BY <1>7, RowsTyped
<1> HIDE DEF other, s
<1> QED BY <1>4, <1>5, <1>7, <1>9, <1>10, <1>11 DEF Neighbours

\* Merging a cell with the one at its right, or below, loses no word.
LEMMA MergeTwoKeeps ==
  ASSUME NEW t, Tiled(t), NEW r \in 1..t.rowsNum, NEW i \in 1..Len(t.rows[r]), NEW info, info = InfoOf(t, <<r, i>>)
  PROVE  /\ info.col + info.colSpan <= t.colsNum => Retains(mergeRight(t, <<r, i>>).rows, t.rows)
         /\ info.row + info.rowSpan <= t.rowsNum => Retains(mergeDown(t, <<r, i>>).rows, t.rows)
<1>1. ASSUME info.col + info.colSpan <= t.colsNum
      PROVE  Retains(mergeRight(t, <<r, i>>).rows, t.rows)
  <2> DEFINE other == RightOf(t, info)
             n == info.colSpan + other.colSpan
             x == [t.rows[r][i] EXCEPT !.colSpan = n]
             m == WithCell(t.rows, r, i, x)
  <2>1. Neighbours(t, info, other, r, i)
    BY <1>1, RightNeighbour
  <2>2. mergeRight(t, <<r, i>>) = update(Absorb(m, <<r, i>>, <<other.row, other.cell>>))
    BY DEF mergeRight, WithCell
  <2> HIDE DEF other
  <2>3. n \in Nat \ {0} /\ t.rows[r][i] \in Cell
    BY <2>1 DEF Neighbours
  <2> HIDE DEF n
  <2>4. x \in Cell /\ x.text = t.rows[r][i].text
    BY <2>3, WithColSpan
  <2> HIDE DEF x, m
  <2>5. m = WithCell(t.rows, r, i, x)
    BY DEF m
  <2> QED BY <2>1, <2>2, <2>4, <2>5, GrowAbsorbs DEF Neighbours
<1>2. ASSUME info.row + info.rowSpan <= t.rowsNum
      PROVE  Retains(mergeDown(t, <<r, i>>).rows, t.rows)
  <2> DEFINE other == Below(t, info)
             n == info.rowSpan + other.rowSpan
             x == [t.rows[r][i] EXCEPT !.rowSpan = n]
             m == WithCell(t.rows, r, i, x)
  <2>1. Neighbours(t, info, other, r, i)
    BY <1>2, LowerNeighbour
  <2>2. mergeDown(t, <<r, i>>) = update(Absorb(m, <<r, i>>, <<other.row, other.cell>>))
    BY DEF mergeDown, WithCell
  <2> HIDE DEF other
  <2>3. n \in Nat \ {0} /\ t.rows[r][i] \in Cell
    BY <2>1 DEF Neighbours
  <2> HIDE DEF n
  <2>4. x \in Cell /\ x.text = t.rows[r][i].text
    BY <2>3, WithRowSpan
  <2> HIDE DEF x, m
  <2>5. m = WithCell(t.rows, r, i, x)
    BY DEF m
  <2> QED BY <2>1, <2>2, <2>4, <2>5, GrowAbsorbs DEF Neighbours
<1> QED BY <1>1, <1>2

(* Sequence v is u without the d members behind place m.                   *)
CutFrom(v, u, m, d) == v = SubSeq(u, 1, m) \o SubSeq(u, m + 1 + d, Len(u))

\* A sequence without some members behind a place.
LEMMA CutOut ==
  ASSUME NEW S, NEW u \in Seq(S), NEW m \in 1..Len(u), NEW d \in Nat,
         NEW v, CutFrom(v, u, m, d)
  PROVE  v \in Seq(S) /\ \A y \in 1..Len(u) : y <= m \/ y > m + d => \E k \in 1..Len(v) : v[k] = u[y]
<1>1. Len(u) \in Nat /\ \A i \in 1..Len(u) : u[i] \in S
  BY LenProperties
<1> DEFINE a == SubSeq(u, 1, m)
           b == SubSeq(u, m + 1 + d, Len(u))
           n == IF m + 1 + d <= Len(u) THEN Len(u) - (m + d) ELSE 0
<1>2. a \in Seq(S) /\ Len(a) = m /\ \A i \in 1..m : a[i] = u[i]
  <2>1. 1 \in Int /\ m \in Int /\ \A i \in 1..m : u[i] \in S
    BY <1>1
  <2>2. /\ a \in Seq(S)
        /\ Len(a) = IF 1 <= m THEN m - 1 + 1 ELSE 0
        /\ \A i \in 1..(m - 1 + 1) : a[i] = u[1 + i - 1]
    BY <2>1, SubSeqProperties
  <2> HIDE DEF a
  <2> QED BY <2>2, <1>1
<1>3. b \in Seq(S) /\ Len(b) = n /\ \A i \in 1..n : b[i] = u[m + d + i]
  <2>1. m + 1 + d \in Int /\ Len(u) \in Int /\ \A i \in (m + 1 + d)..Len(u) : u[i] \in S
    BY <1>1
  <2>2. /\ b \in Seq(S)
        /\ Len(b) = IF m + 1 + d <= Len(u) THEN Len(u) - (m + 1 + d) + 1 ELSE 0
        /\ \A i \in 1..(Len(u) - (m + 1 + d) + 1) : b[i] = u[(m + 1 + d) + i - 1]
    BY <2>1, SubSeqProperties
  <2> HIDE DEF b
  <2>3. Len(b) = n
    BY <1>1, <2>2
  <2>4. ASSUME NEW i \in 1..n
        PROVE  b[i] = u[m + d + i]
    <3>1. i \in 1..(Len(u) - (m + 1 + d) + 1) /\ (m + 1 + d) + i - 1 = m + d + i
      BY <1>1
    <3> QED BY <2>2, <3>1
  <2> QED BY <2>2, <2>3, <2>4
<1> HIDE DEF a, b
<1>4. /\ v \in Seq(S) /\ Len(v) = Len(a) + Len(b)
      /\ \A j \in 1..(Len(a) + Len(b)) : v[j] = IF j <= Len(a) THEN a[j] ELSE b[j - Len(a)]
  BY <1>2, <1>3, ConcatProperties DEF a, b, CutFrom
<1>5. ASSUME NEW y \in 1..Len(u), y <= m \/ y > m + d
      PROVE  \E k \in 1..Len(v) : v[k] = u[y]
  <2>1. CASE y <= m
    <3>1. n \in Nat /\ y \in 1..(m + n) /\ y \in 1..m
      BY <1>1, <2>1
    <3>2. Len(v) = m + n
      BY <1>2, <1>3, <1>4
    <3> HIDE DEF n
    <3>3. v[y] = a[y]
      BY <1>2, <1>3, <1>4, <2>1, <3>1
    <3> QED BY <1>2, <3>1, <3>2, <3>3
  <2>2. CASE y > m + d
    <3> DEFINE i == y - (m + d)
               k == m + i
    <3>1. n \in Nat /\ i \in 1..n /\ k \in 1..(m + n) /\ ~(k <= m) /\ k - m = i /\ m + d + i = y
      BY <1>1, <2>2
    <3>2. Len(v) = m + n
      BY <1>2, <1>3, <1>4
    <3> HIDE DEF n, k, i
    <3>3. v[k] = b[i]
      BY <1>2, <1>3, <1>4, <3>1
    <3>4. b[i] = u[y]
      BY <1>3, <3>1
    <3> QED BY <3>1, <3>2, <3>3, <3>4
  <2> QED BY <1>5, <2>1, <2>2
<1> QED BY <1>4, <1>5

(* The words of the cells that are gone are in cell <<b, i>>, and of the d *)
(* rows behind row b every cell is gone.                                   *)
MovedUp(w, m, gone, b, i, d) ==
    /\ MovedTo(w, m, gone, b, i) /\ b \in 1..Len(m) /\ d \in Nat
    /\ \A r \in 1..Len(m) : b < r /\ r <= b + d => \A j \in 1..Len(m[r]) : <<r, j>> \in gone

\* Then those rows may go, too.
LEMMA MovedUpKeeps ==
  ASSUME NEW w, NEW m, NEW gone, NEW b, NEW i, NEW d, MovedUp(w, m, gone, b, i, d),
         NEW v, CutFrom(v, w, b, d)
  PROVE  Retains(v, m)
<1>1. w \in Seq(Seq(Cell)) /\ m \in Seq(Seq(Cell)) /\ Len(w) = Len(m) /\ b \in 1..Len(m) /\ d \in Nat
  BY DEF MovedUp, MovedTo, Lacks
<1> DEFINE SC == Seq(Cell)
<1>2. v \in Seq(SC) /\ \A y \in 1..Len(w) : y <= b \/ y > b + d => \E k \in 1..Len(v) : v[k] = w[y]
  <2>1. w \in Seq(SC) /\ b \in 1..Len(w)
    BY <1>1
  <2> HIDE DEF SC
  <2> QED BY <1>1, <2>1, CutOut
<1>3. ASSUME NEW r \in 1..Len(m), NEW j \in 1..Len(m[r]), <<r, j>> \notin gone
      PROVE  \E y \in 1..Len(v) : \E k \in 1..Len(v[y]) : v[y][k] = m[r][j]
  <2>1. PICK k \in 1..Len(w[r]) : w[r][k] = m[r][j]
    BY <1>3 DEF MovedUp, MovedTo, Lacks
  <2>2. r <= b \/ r > b + d
    <3>1. ~(b < r /\ r <= b + d)
      BY <1>3 DEF MovedUp
    <3>2. Len(m) \in Nat
      BY <1>1, RowsTyped
    <3> QED BY <1>1, <3>1, <3>2
  <2>3. PICK y \in 1..Len(v) : v[y] = w[r]
    BY <1>1, <1>2, <2>2
  <2> QED BY <2>1, <2>3
<1>4. ASSUME NEW r \in 1..Len(m), NEW j \in 1..Len(m[r])
      PROVE  \E y \in 1..Len(v) : \E k \in 1..Len(v[y]) : m[r][j].text \subseteq v[y][k].text
  <2>1. CASE <<r, j>> \notin gone
    <3>1. PICK y \in 1..Len(v) : \E k \in 1..Len(v[y]) : v[y][k] = m[r][j]
      BY <1>3, <2>1
    <3>2. PICK k \in 1..Len(v[y]) : v[y][k] = m[r][j]
      BY <3>1
    <3> QED BY <3>2
  <2>2. CASE <<r, j>> \in gone
    <3>1. i \in 1..Len(m[b]) /\ <<b, i>> \notin gone /\ m[r][j].text \subseteq m[b][i].text
      BY <2>2 DEF MovedUp, MovedTo
    <3>2. PICK y \in 1..Len(v) : \E k \in 1..Len(v[y]) : v[y][k] = m[b][i]
      BY <1>1, <1>3, <3>1
    <3>3. PICK k \in 1..Len(v[y]) : v[y][k] = m[b][i]
      BY <3>2
    <3> QED BY <3>1, <3>3
  <2> QED BY <2>1, <2>2
<1>5. v \in Seq(Seq(Cell))
  BY <1>2
<1> HIDE DEF SC
<1> QED BY <1>1, <1>4, <1>5, KeepsCells

(* The cells of the range of a selection, in a tiled table.                *)
\* No cell outside the table is selected.
LEMMA PlacesInRange ==
  ASSUME NEW t, Tiled(t), NEW q, RangeIn(q, t.rowsNum, t.colsNum), NEW p \in PlacesIn(t, q)
  PROVE  \E r \in 1..Len(t.rows) : \E j \in 1..Len(t.rows[r]) : p = <<r, j>>
<1>1. PICK pos \in Positions(q) : p = <<t.index[pos].row, t.index[pos].cell>>
  BY DEF PlacesIn
<1> DEFINE y == pos[1]
           z == pos[2]
<1>2. y \in q.beginRow..q.endRow /\ z \in q.beginCol..q.endCol /\ pos = <<y, z>>
  BY DEF Positions
<1>3. t.rowsNum \in Nat /\ t.colsNum \in Nat /\ t.rowsNum = Len(t.rows)
  <2>1. t.rows \in Seq(Seq(Cell)) /\ t.rowsNum = Len(t.rows) /\ t.colsNum \in Nat
    BY DEF Tiled
  <2> QED BY <2>1, RowsTyped
<1>4. y \in 1..t.rowsNum /\ z \in 1..t.colsNum
  <2>1. q.beginRow \in 1..t.rowsNum /\ q.endRow \in 1..t.rowsNum /\ q.beginCol \in 1..t.colsNum /\ q.endCol \in 1..t.colsNum
    BY DEF RangeIn
  <2> HIDE DEF y, z
  <2> QED BY <1>2, <1>3, <2>1
<1> HIDE DEF y, z
<1>5. CoversAt(t, t.index[<<y, z>>], y, z)
  BY <1>4, TiledAt
<1>6. t.index[pos].row \in 1..t.rowsNum /\ t.index[pos].cell \in 1..Len(t.rows[t.index[pos].row])
  BY <1>2, <1>5 DEF CoversAt
<1> QED BY <1>1, <1>3, <1>6

\* If the range is as wide as the table its rows are in it as a whole.
LEMMA WholeRows ==
  ASSUME NEW t, Tiled(t), NEW q, RangeIn(q, t.rowsNum, t.colsNum), q.beginCol = 1, q.endCol = t.colsNum,
         NEW r \in 1..t.rowsNum, q.beginRow <= r, r <= q.endRow, NEW j \in 1..Len(t.rows[r])
  PROVE  <<r, j>> \in PlacesIn(t, q)
<1> DEFINE info == InfoOf(t, <<r, j>>)
<1>1. PlacedAt(t, info, r, j)
  BY TiledPlace
<1> HIDE DEF info
<1>2. info.row = r /\ info.cell = j /\ info.col \in 1..t.colsNum /\ info = t.index[<<r, info.col>>]
  BY <1>1 DEF PlacedAt
<1>3. r \in q.beginRow..q.endRow
  <2>1. t.rowsNum \in Nat
    <3>1. t.rows \in Seq(Seq(Cell)) /\ t.rowsNum = Len(t.rows)
      BY DEF Tiled
    <3> QED BY <3>1, RowsTyped
  <2> QED BY <2>1 DEF RangeIn
<1>4. <<r, info.col>> \in Positions(q)
  BY <1>2, <1>3 DEF Positions
<1> QED BY <1>2, <1>4 DEF PlacesIn

\* The first cell of a range that cuts none is the one at its corner.
LEMMA FirstInRange ==
  ASSUME NEW t, Tiled(t), NEW q, RangeIn(q, t.rowsNum, t.colsNum), ~Cut(t, q), q.beginCol <= q.endCol
  PROVE  t.index[<<q.beginRow, q.beginCol>>].cell \in 1..Len(t.rows[q.beginRow])
<1> DEFINE b == q.beginRow
           c == q.beginCol
           j == t.index[<<b, c>>]
<1>1. b \in 1..t.rowsNum /\ c \in 1..t.colsNum /\ b \in b..q.endRow /\ c \in c..q.endCol
  BY DEF RangeIn
<1>2. CoversAt(t, j, b, c)
  BY <1>1, TiledAt
<1>3. j.row \in 1..b /\ j.cell \in 1..Len(t.rows[j.row])
  BY <1>2 DEF CoversAt
<1>4. ~(j.row < b)
  <2>1. <<b, c>> \in Positions(q)
    BY <1>1 DEF Positions
  <2>2. ~SticksOut(j, q)
    BY <2>1 DEF Cut
  <2> HIDE DEF j
  <2> QED BY <2>2 DEF SticksOut
<1>5. j.row = b
  <2> HIDE DEF j, b
  <2>1. b \in Int
    BY <1>1
  <2> QED BY <1>3, <1>4, <2>1
<1> QED BY <1>3, <1>5

(* Cell o with further contents and other spans.                           *)
Enlarged(x, o, moved, w, h) == x = [o EXCEPT !.text = @ \union moved, !.colSpan = w, !.rowSpan = h]

(* Cell c without the mark of the selection.                               *)
Bare(o, c) == o = [c EXCEPT !.selected = FALSE]

\* What a merge does to the first cell of the range.
LEMMA FirstCell ==
  ASSUME NEW c \in Cell, NEW o, Bare(o, c),
         NEW moved \in SUBSET Words, NEW w \in Nat \ {0}, NEW h \in Nat \ {0},
         NEW x, Enlarged(x, o, moved, w, h)
  PROVE  x \in Cell /\ x.text = c.text \union moved /\ o.text = c.text
<1> DEFINE s == o.text \union moved
<1>3. o \in Cell /\ o.text = c.text
  BY DEF Cell, Bare
<1>4. s \in SUBSET Words
  BY <1>3, CellTyped
<1>5. x = [o EXCEPT !.text = s, !.colSpan = w, !.rowSpan = h]
  BY DEF Enlarged
<1>6. s = c.text \union moved
  BY <1>3
<1> HIDE DEF s
<1>7. x \in Cell /\ x.text = s
  BY <1>3, <1>4, <1>5 DEF Cell
<1> QED BY <1>3, <1>6, <1>7

\* To put a cell where none is changes nothing.
LEMMA NoCellSet ==
  ASSUME NEW rows \in Seq(Seq(Cell)), NEW b, NEW i, b \in 1..Len(rows) => i \notin 1..Len(rows[b]), NEW x
  PROVE  WithCell(rows, b, i, x) = rows
<1>1. /\ Len(rows) \in Nat /\ DOMAIN rows = 1..Len(rows)
      /\ \A r \in 1..Len(rows) : rows[r] \in Seq(Cell) /\ DOMAIN rows[r] = 1..Len(rows[r])
  BY RowsTyped
<1>2. rows = [r \in 1..Len(rows) |-> rows[r]] /\ \A r \in 1..Len(rows) : rows[r] = [j \in 1..Len(rows[r]) |-> rows[r][j]]
  BY <1>1
<1>3. CASE b \notin 1..Len(rows)
  BY <1>2, <1>3 DEF WithCell
<1>4. CASE b \in 1..Len(rows)
  <2>1. [rows[b] EXCEPT ![i] = x] = rows[b]
    BY <1>2, <1>4
  <2>2. WithCell(rows, b, i, x) = [rows EXCEPT ![b] = [rows[b] EXCEPT ![i] = x]]
    BY DEF WithCell
  <2> QED BY <1>2, <2>1, <2>2
<1> QED BY <1>3, <1>4

\* The spans of a merged cell.
LEMMA SpansAre ==
  ASSUME NEW t, t.rowsNum \in Nat, t.colsNum \in Nat, NEW q, RangeIn(q, t.rowsNum, t.colsNum),
         NEW spans, spans = MergedSpans(t, q), NEW whole, whole <=> (spans.colSpan = t.colsNum /\ spans.rowSpan # 1)
  PROVE  /\ spans.rowSpan \in Nat \ {0} /\ spans.colSpan \in Nat \ {0} /\ spans.rowSpan = q.endRow - q.beginRow + 1
         /\ whole => q.beginCol = 1 /\ q.endCol = t.colsNum
<1> DEFINE h == q.endRow - q.beginRow + 1
           w == q.endCol - q.beginCol + 1
           C == t.colsNum
           a == q.beginCol
           z == q.endCol
<1>1. h \in Nat \ {0} /\ w \in Int /\ C \in Nat /\ a \in 1..C /\ z \in 1..C /\ w = z - a + 1
  BY DEF RangeIn
<1>2. spans = [rowSpan |-> h, colSpan |-> IF h = t.rowsNum THEN 1 ELSE Max({1, w})]
  BY DEF MergedSpans
<1> HIDE DEF h, w
<1>3. Max({1, w}) = IF w >= 1 THEN w ELSE 1
  <2> DEFINE m == IF w >= 1 THEN w ELSE 1
             S == {1, w}
  <2>1. S \in SUBSET Int /\ m \in S /\ \A y \in S : y <= m
    BY <1>1
  <2> HIDE DEF m, S
  <2>2. Max(S) = m
    BY <2>1, MaxIs
  <2> QED BY <2>2 DEF m, S
<1>4. spans.rowSpan = h /\ (spans.colSpan = 1 \/ (spans.colSpan = w /\ w >= 1))
  BY <1>2, <1>3
<1>5. spans.colSpan \in Nat \ {0}
  BY <1>1, <1>4
<1>6. spans.colSpan = C => a = 1 /\ z = C
  BY <1>1, <1>4
<1> QED BY <1>1, <1>4, <1>5, <1>6 DEF h

(* A selection that is merged, and what becomes of its first cell.         *)
Moving(t, q, i, w, h, x) ==
    /\ Tiled(t) /\ RangeIn(q, t.rowsNum, t.colsNum) /\ ~Cut(t, q)
    /\ i = t.index[<<q.beginRow, q.beginCol>>].cell /\ w \in Nat \ {0} /\ h \in Nat \ {0}
    /\ Enlarged(x, Unmarked(t.rows)[q.beginRow][i],
                UNION {t.rows[p[1]][p[2]].text : p \in PlacesIn(t, q) \ {<<q.beginRow, i>>}}, w, h)

(* The cells that give up their contents, the rows with the merged cell,   *)
(* and those rows without the others.                                      *)
MovingRows(t, q, i, x, others, m, w) ==
    /\ others = PlacesIn(t, q) \ {<<q.beginRow, i>>}
    /\ m = WithCell(Unmarked(t.rows), q.beginRow, i, x)
    /\ w = Without(m, others)

\* The contents of the range are in its first cell then.
LEMMA RangeMoves ==
  ASSUME NEW t, NEW q, NEW i, NEW h, NEW n, NEW x, Moving(t, q, i, n, h, x),
         NEW others, NEW m, NEW w, MovingRows(t, q, i, x, others, m, w)
  PROVE  MovedTo(w, m, others, q.beginRow, i) /\ Retains(m, t.rows) /\ Len(m) = Len(t.rows)
         /\ \A r \in 1..Len(m) : Len(m[r]) = Len(t.rows[r])
<1> DEFINE b == q.beginRow
           rows == t.rows
           plain == Unmarked(rows)
           moved == UNION {rows[p[1]][p[2]].text : p \in others}
<1>0. others = PlacesIn(t, q) \ {<<b, i>>} /\ m = WithCell(plain, b, i, x) /\ w = Without(m, others)
  BY DEF MovingRows
<1>1. /\ Tiled(t) /\ RangeIn(q, t.rowsNum, t.colsNum) /\ ~Cut(t, q)
      /\ i = t.index[<<b, q.beginCol>>].cell /\ n \in Nat \ {0} /\ h \in Nat \ {0}
  BY DEF Moving
<1>a. Enlarged(x, plain[b][i], moved, n, h)
  BY <1>0 DEF Moving
<1>2. rows \in Seq(Seq(Cell)) /\ t.rowsNum = Len(rows) /\ t.colsNum \in Nat /\ t.rowsNum \in Nat
  <2>1. rows \in Seq(Seq(Cell)) /\ t.rowsNum = Len(rows) /\ t.colsNum \in Nat
    BY <1>1 DEF Tiled
  <2> QED BY <2>1, RowsTyped
<1>4. b \in 1..Len(rows)
  BY <1>1, <1>2 DEF RangeIn
<1>5. /\ plain \in Seq(Seq(Cell)) /\ Len(plain) = Len(rows)
      /\ \A r \in 1..Len(rows) : /\ Len(plain[r]) = Len(rows[r])
                                  /\ \A j \in 1..Len(rows[r]) : plain[r][j] = [rows[r][j] EXCEPT !.selected = FALSE]
  BY <1>2, UnmarkedIs
<1>6. Retains(plain, rows)
  BY <1>2, UnmarkedKeeps
<1>7. \A p \in others : \E r \in 1..Len(rows) : \E j \in 1..Len(rows[r]) : p = <<r, j>>
  <2> SUFFICES ASSUME NEW p \in others
               PROVE  \E r \in 1..Len(rows) : \E j \in 1..Len(rows[r]) : p = <<r, j>>
    OBVIOUS
  <2>1. p \in PlacesIn(t, q)
    BY <1>0
  <2> QED BY <1>1, <2>1, PlacesInRange
<1>8. moved \in SUBSET Words
  <2> HIDE DEF rows
  <2>1. ASSUME NEW p \in others
        PROVE  rows[p[1]][p[2]].text \in SUBSET Words
    <3>1. PICK r \in 1..Len(rows) : \E j \in 1..Len(rows[r]) : p = <<r, j>>
      BY <1>7
    <3>2. PICK j \in 1..Len(rows[r]) : p = <<r, j>>
      BY <3>1
    <3>3. rows[r][j] \in Cell
      BY <1>2, RowsTyped
    <3> QED BY <3>2, <3>3, CellTyped
  <2> QED BY <2>1
<1>9. others # {} => i \in 1..Len(rows[b])
  <2> SUFFICES ASSUME others # {}
               PROVE  i \in 1..Len(rows[b])
    OBVIOUS
  <2>0. PlacesIn(t, q) # {}
    BY <1>0
  <2>1. PICK pos \in Positions(q) : TRUE
    BY <2>0 DEF PlacesIn
  <2>2. q.beginCol <= q.endCol
    <3>1. pos[2] \in q.beginCol..q.endCol
      BY DEF Positions
    <3>2. q.beginCol \in 1..t.colsNum /\ q.endCol \in 1..t.colsNum
      BY <1>1 DEF RangeIn
    <3>3. q.beginCol \in Int /\ q.endCol \in Int
      BY <3>2
    <3> QED BY <3>1, <3>3
  <2> QED BY <1>1, <2>2, FirstInRange
<1> HIDE DEF plain, moved
<1>10. CASE i \notin 1..Len(rows[b])
  <2>1. m = plain
    <3>1. b \in 1..Len(plain) => i \notin 1..Len(plain[b])
      BY <1>4, <1>5, <1>10
    <3> QED BY <1>0, <1>5, <3>1, NoCellSet
  <2>2. others = {}
    BY <1>9, <1>10
  <2>3. Lacks(w, m, others)
    BY <1>0, <1>5, <2>1, WithoutIs
  <2>4. MovedTo(w, m, others, b, i)
    BY <1>5, <2>1, <2>2, <2>3 DEF MovedTo
  <2> QED BY <1>5, <1>6, <2>1, <2>4
<1>11. CASE i \in 1..Len(rows[b])
  <2>1. x \in Cell /\ x.text = rows[b][i].text \union moved /\ plain[b][i].text = rows[b][i].text
    <3> DEFINE c == rows[b][i]
               o == plain[b][i]
    <3>1. c \in Cell
      BY <1>2, <1>4, <1>11, RowsTyped
    <3>2. Bare(o, c)
      BY <1>4, <1>5, <1>11 DEF Bare
    <3>3. Enlarged(x, o, moved, n, h)
      BY <1>a
    <3> HIDE DEF c, o
    <3>4. x \in Cell /\ x.text = c.text \union moved /\ o.text = c.text
      BY <1>1, <1>8, <3>1, <3>2, <3>3, FirstCell
    <3> QED BY <3>4 DEF c, o
  <2>2. m = WithCell(plain, b, i, x) /\ b \in 1..Len(plain) /\ i \in 1..Len(plain[b])
    BY <1>0, <1>4, <1>5, <1>11
  <2>3. Retains(m, plain) /\ HasCell(m, plain, b, i, x)
    BY <1>5, <2>1, <2>2, CellSetWords, CellSet
  <2>4. m \in Seq(Seq(Cell)) /\ Len(m) = Len(rows) /\ \A r \in 1..Len(m) : Len(m[r]) = Len(rows[r])
    <3>1. Len(plain) \in Nat /\ m = [r \in 1..Len(plain) |-> m[r]]
      BY <1>5, <2>3, RowsTyped DEF HasCell
    <3>2. m \in Seq(Seq(Cell)) /\ Len(m) = Len(rows)
      BY <1>5, <2>3, <3>1 DEF Retains
    <3> QED BY <1>5, <2>3, <3>2 DEF HasCell
  <2>5. Lacks(w, m, others)
    BY <1>0, <2>4, WithoutIs
  <2>6. m[b][i] = x /\ b \in 1..Len(m) /\ i \in 1..Len(m[b])
    BY <1>4, <1>11, <2>3, <2>4, <2>2 DEF HasCell
  <2>7. ASSUME NEW r \in 1..Len(m), NEW j \in 1..Len(m[r]), <<r, j>> \in others
        PROVE  m[r][j].text \subseteq x.text
    <3>1. r \in 1..Len(rows) /\ j \in 1..Len(rows[r]) /\ ~(r = b /\ j = i)
      <4>1. r \in 1..Len(rows) /\ j \in 1..Len(rows[r])
        <5>1. r \in 1..Len(rows)
          BY <2>4
        <5> QED BY <2>4, <5>1
      <4>2. <<r, j>> # <<b, i>>
        BY <1>0, <2>7
      <4> QED BY <4>1, <4>2
    <3>2. m[r][j] = plain[r][j] /\ plain[r][j] = [rows[r][j] EXCEPT !.selected = FALSE]
      BY <1>5, <2>3, <3>1 DEF HasCell
    <3>3. m[r][j].text = rows[r][j].text
      <4>1. rows[r][j] \in Cell
        BY <1>2, <3>1, RowsTyped
      <4> QED BY <3>2, <4>1, WithMark
    <3>4. rows[r][j].text \subseteq moved
      <4> DEFINE p == <<r, j>>
      <4>1. p \in others /\ rows[p[1]][p[2]].text = rows[r][j].text
        BY <2>7
      <4> HIDE DEF p
      <4> QED BY <4>1 DEF moved
    <3> QED BY <2>1, <3>3, <3>4
  <2>8. MovedTo(w, m, others, b, i)
    <3>1. <<b, i>> \notin others
      BY <1>0
    <3>2. \A r \in 1..Len(m) : \A j \in 1..Len(m[r]) : <<r, j>> \in others => m[r][j].text \subseteq m[b][i].text
      BY <2>6, <2>7
    <3> HIDE DEF b
    <3> QED BY <2>4, <2>5, <2>6, <3>1, <3>2 DEF MovedTo
  <2>9. Retains(m, rows)
    BY <1>6, <2>3, KeepsTrans
  <2> QED BY <2>4, <2>8, <2>9
<1> QED BY <1>10, <1>11

\* Merging a selection loses no word, also one as wide or as high as the table.
LEMMA MergeKeeps ==
  ASSUME NEW t, Tiled(t), TableRec(t), NEW q, q = t.cellsRange, RangeIn(q, t.rowsNum, t.colsNum)
  PROVE  Retains(mergeRange(t).rows, t.rows)
<1> DEFINE b == q.beginRow
           i == t.index[<<b, q.beginCol>>].cell
           spans == MergedSpans(t, q)
           plain == Unmarked(t.rows)
           others == PlacesIn(t, q) \ {<<b, i>>}
           moved == UNION {t.rows[p[1]][p[2]].text : p \in others}
           whole == spans.colSpan = t.colsNum /\ spans.rowSpan # 1
           n == spans.colSpan
           h == IF whole THEN 1 ELSE spans.rowSpan
           x == [plain[b][i] EXCEPT !.text = @ \union moved, !.colSpan = n, !.rowSpan = h]
           m == WithCell(plain, b, i, x)
           w == Without(m, others)
           deleted == IF whole THEN (b + 1)..spans.rowSpan ELSE {}
           d == Cardinality(deleted)
           v == SubSeq(w, 1, b) \o SubSeq(w, b + 1 + d, Len(w))
<1>1. t.rows \in Seq(Seq(Cell)) /\ t.rowsNum = Len(t.rows) /\ t.colsNum \in Nat /\ t.rowsNum \in Nat
  <2>1. t.rows \in Seq(Seq(Cell)) /\ t.rowsNum = Len(t.rows) /\ t.colsNum \in Nat
    BY DEF Tiled
  <2> QED BY <2>1, RowsTyped
<1>2. mergeRange(t) = IF Cut(t, q) THEN Throw(t, plain) ELSE update(v)
  BY DEF mergeRange, WithCell
<1>3. CASE Cut(t, q)
  <2>1. mergeRange(t).rows = plain
    BY <1>2, <1>3 DEF Throw, TableRec
  <2> QED BY <1>1, <2>1, UnmarkedKeeps
<1>4. CASE ~Cut(t, q)
  <2>2. /\ spans.rowSpan \in Nat \ {0} /\ spans.colSpan \in Nat \ {0} /\ spans.rowSpan = q.endRow - b + 1
        /\ whole => q.beginCol = 1 /\ q.endCol = t.colsNum
    <3> DEFINE s == spans
               o == whole
    <3>1. s = MergedSpans(t, q) /\ (o <=> (s.colSpan = t.colsNum /\ s.rowSpan # 1))
      OBVIOUS
    <3> HIDE DEF s, o
    <3>2. /\ s.rowSpan \in Nat \ {0} /\ s.colSpan \in Nat \ {0} /\ s.rowSpan = q.endRow - q.beginRow + 1
          /\ o => q.beginCol = 1 /\ q.endCol = t.colsNum
      BY <1>1, <3>1, SpansAre
    <3> QED BY <3>2 DEF s, o
  <2>1. Moving(t, q, i, n, h, x)
    <3>1. n \in Nat \ {0} /\ h \in Nat \ {0}
      <4> HIDE DEF whole, spans
      <4> QED BY <2>2
    <3> HIDE DEF n, h
    <3> QED BY <1>4, <3>1 DEF Moving, Enlarged
  <2>3. b \in 1..t.rowsNum /\ q.endRow \in 1..t.rowsNum
    BY DEF RangeIn
  <2>4. d \in Nat /\ (d > 0 => whole /\ b + d <= q.endRow)
    <3>1. CASE whole
      <4>1. d = IF b + 1 > spans.rowSpan THEN 0 ELSE spans.rowSpan - (b + 1) + 1
        <5>1. b + 1 \in Int /\ spans.rowSpan \in Int /\ deleted = (b + 1)..spans.rowSpan
          BY <1>1, <2>2, <2>3, <3>1
        <5> HIDE DEF spans, deleted, b
        <5> QED BY <5>1, FS_Interval
      <4> HIDE DEF d, spans, whole
      <4> DEFINE a == q.beginRow
                 z == q.endRow
                 k == spans.rowSpan
                 R == t.rowsNum
      <4>2. a \in 1..R /\ z \in 1..R /\ R \in Nat /\ k = z - a + 1 /\ k \in Nat
        BY <1>1, <2>2, <2>3
      <4>3. d = IF a + 1 > k THEN 0 ELSE k - (a + 1) + 1
        BY <4>1
      <4> HIDE DEF a, z, k, R
      <4>4. d \in Nat /\ (d > 0 => a + d <= z)
        BY <4>2, <4>3
      <4> QED BY <3>1, <4>4 DEF a, z
    <3>2. CASE ~whole
      <4>1. deleted = {} /\ Cardinality({}) = 0
        BY <3>2, FS_EmptySet
      <4> HIDE DEF deleted
      <4> QED BY <4>1
    <3> QED BY <3>1, <3>2
  <2> HIDE DEF spans, moved, whole, n, h, x, d, i, plain
  <2>5. /\ MovedTo(w, m, others, b, i) /\ Retains(m, t.rows) /\ Len(m) = Len(t.rows)
        /\ \A r \in 1..Len(m) : Len(m[r]) = Len(t.rows[r])
    <3> DEFINE o == others
               mm == m
               ww == w
    <3>1. MovingRows(t, q, i, x, o, mm, ww)
      BY DEF plain, MovingRows
    <3> HIDE DEF o, mm, ww
    <3>2. /\ MovedTo(ww, mm, o, q.beginRow, i) /\ Retains(mm, t.rows) /\ Len(mm) = Len(t.rows)
          /\ \A r \in 1..Len(mm) : Len(mm[r]) = Len(t.rows[r])
      BY <2>1, <3>1, RangeMoves
    <3> QED BY <3>2 DEF o, mm, ww
  <2> HIDE DEF m, w
  <2>6. ASSUME NEW r \in 1..Len(m), b < r, r <= b + d, NEW j \in 1..Len(m[r])
        PROVE  <<r, j>> \in others
    <3>1. d > 0
      BY <1>1, <2>3, <2>4, <2>5, <2>6
    <3>2. q.beginCol = 1 /\ q.endCol = t.colsNum /\ b + d <= q.endRow
      BY <2>2, <2>4, <3>1
    <3>3. r \in 1..t.rowsNum /\ b <= r /\ r <= q.endRow /\ j \in 1..Len(t.rows[r]) /\ r # b
      BY <1>1, <2>3, <2>4, <2>5, <2>6, <3>2
    <3>4. <<r, j>> \in PlacesIn(t, q)
      BY <3>2, <3>3, WholeRows
    <3> QED BY <3>3, <3>4
  <2>7. MovedUp(w, m, others, b, i, d)
    <3>1. b \in 1..Len(m)
      BY <1>1, <2>3, <2>5
    <3> HIDE DEF others, b
    <3> QED BY <2>4, <2>5, <2>6, <3>1 DEF MovedUp
  <2>8. Retains(v, m)
    <3>1. CutFrom(v, w, b, d)
      BY DEF CutFrom
    <3> HIDE DEF others, b, v
    <3> QED BY <2>7, <3>1, MovedUpKeeps
  <2> HIDE DEF v
  <2>9. Retains(update(v).rows, v)
    BY <2>8, UpdateKeeps DEF Retains
  <2>10. mergeRange(t).rows = update(v).rows
    BY <1>2, <1>4
  <2> QED BY <2>5, <2>8, <2>9, <2>10, KeepsTrans
<1> QED BY <1>3, <1>4

\* A tiled table has the words of another one if they are where its positions
\* say they are.
LEMMA SeenKeeps ==
  ASSUME NEW t, Tiled(t), NEW u, Tiled(u),
         \A r \in 1..t.rowsNum, c \in 1..t.colsNum : \E x \in 1..u.rowsNum, y \in 1..u.colsNum :
            TextAt(t, <<r, c>>) \subseteq TextAt(u, <<x, y>>)
  PROVE  Retains(u.rows, t.rows)
<1>1. /\ t.rows \in Seq(Seq(Cell)) /\ t.rowsNum = Len(t.rows)
      /\ u.rows \in Seq(Seq(Cell)) /\ u.rowsNum = Len(u.rows)
  BY DEF Tiled
<1>2. ASSUME NEW r \in 1..Len(t.rows), NEW i \in 1..Len(t.rows[r])
      PROVE  \E x \in 1..Len(u.rows) : \E j \in 1..Len(u.rows[x]) : t.rows[r][i].text \subseteq u.rows[x][j].text
  <2> DEFINE info == InfoOf(t, <<r, i>>)
  <2>1. PlacedAt(t, info, r, i)
    BY <1>1, TiledPlace
  <2> HIDE DEF info
  <2>2. info.col \in 1..t.colsNum /\ info.row = r /\ info.cell = i /\ info = t.index[<<r, info.col>>]
    BY <2>1 DEF PlacedAt
  <2>3. TextAt(t, <<r, info.col>>) = t.rows[r][i].text
    BY <2>2 DEF TextAt, CellOf
  <2>4. PICK x \in 1..u.rowsNum : \E y \in 1..u.colsNum : TextAt(t, <<r, info.col>>) \subseteq TextAt(u, <<x, y>>)
    BY <1>1, <2>2
  <2>5. PICK y \in 1..u.colsNum : TextAt(t, <<r, info.col>>) \subseteq TextAt(u, <<x, y>>)
    BY <2>4
  <2> DEFINE j == u.index[<<x, y>>]
  <2>6. CoversAt(u, j, x, y)
    BY TiledAt
  <2>7. TextAt(u, <<x, y>>) = u.rows[j.row][j.cell].text
    BY DEF TextAt, CellOf
  <2> HIDE DEF j
  <2>8. j.row \in 1..Len(u.rows) /\ j.cell \in 1..Len(u.rows[j.row])
    BY <1>1, <2>6 DEF CoversAt
  <2> QED BY <2>3, <2>5, <2>7, <2>8
<1> QED BY <1>1, <1>2, KeepsCells

(* Every text of a position of G is that of a position of D.               *)
SameTexts(D, G, R, C) ==
    \A r \in 1..R, c \in 1..C : \E x \in 1..R, y \in 1..C : D[x][y].cell.text = G[r][c].cell.text

\* A table rebuilt from a layout has the words of another table if the layout
\* has its cells' words.
LEMMA LaidKeeps ==
  ASSUME NEW t, NEW R, NEW C, NEW G, NEW K, Standing(t, R, C, G, K),
         NEW rows, NEW D, Lays(rows, C, {}, D), Len(rows) = R, SameTexts(D, G, R, C)
  PROVE  Retains(update(rows).rows, t.rows)
<1> DEFINE u == update(rows)
<1>1. LooksLike(u, rows, C, D)
  BY UpdateLays
<1> HIDE DEF u
<1>2. Tiled(t) /\ t.rowsNum = R /\ t.colsNum = C /\ Tiled(u) /\ u.rowsNum = R /\ u.colsNum = C
  BY <1>1 DEF Standing, TableOf, LooksLike
<1>3. ASSUME NEW r \in 1..t.rowsNum, NEW c \in 1..t.colsNum
      PROVE  \E x \in 1..u.rowsNum, y \in 1..u.colsNum : TextAt(t, <<r, c>>) \subseteq TextAt(u, <<x, y>>)
  <2>1. r \in 1..R /\ c \in 1..C
    BY <1>2
  <2>2. TextAt(t, <<r, c>>) = G[r][c].cell.text
    <3>1. Agrees(t, G, K, r, c)
      BY <2>1 DEF Standing
    <3> QED BY <3>1, TextIn
  <2>3. PICK x \in 1..R, y \in 1..C : D[x][y].cell.text = G[r][c].cell.text
    BY <2>1 DEF SameTexts
  <2>4. TextAt(u, <<x, y>>) = D[x][y].cell.text
    <3>1. x \in 1..Len(rows) /\ y \in 1..C
      OBVIOUS
    <3>2. LooksLike(u, rows, C, D)
      BY <1>1
    <3> QED BY <3>1, <3>2, TextLike
  <2> QED BY <1>2, <2>2, <2>3, <2>4
<1>4. Retains(u.rows, t.rows)
  BY <1>2, <1>3, SeenKeeps
<1> QED BY <1>4 DEF u

\* Splitting a cell into rows or into columns loses no word.
LEMMA SplitTwoKeeps ==
  ASSUME NEW t, NEW R, NEW C, NEW G, NEW K, NEW r0, NEW i0, NEW c0, Splitting(t, R, C, G, K, r0, i0, c0)
  PROVE  Retains(splitToRows(t, <<r0, i0>>).rows, t.rows) /\ Retains(splitToCols(t, <<r0, i0>>).rows, t.rows)
<1> DEFINE g == G[r0][c0]
<1>1. Begins(G, R, C, r0, c0) /\ Standing(t, R, C, G, K)
  BY SplitOf DEF Splitting
<1>2. /\ g.cell \in Cell /\ g.cell.rowSpan \in Int /\ g.cell.colSpan \in Int /\ 1 <= g.cell.rowSpan /\ 1 <= g.cell.colSpan
      /\ g.row = r0 /\ g.col = c0 /\ r0 \in Int /\ c0 \in Int
      /\ r0 \in 1..R /\ c0 \in 1..C
      /\ \A x, y : Within(g, x, y) => G[x][y] = g
  <2>1. r0 \in 1..R /\ c0 \in 1..C
    BY <1>1 DEF Begins
  <2>2. g = G[r0][c0]
    OBVIOUS
  <2> HIDE DEF g
  <2> QED BY <1>1, <2>1, <2>2, BeginsAt
<1> HIDE DEF g
<1>3. Within(g, r0, c0)
  BY <1>2 DEF Within
<1>4. ASSUME NEW D, NEW x, x.text = g.cell.text, D[r0][c0].cell = x,
             \A r \in 1..R, c \in 1..C : ~Within(g, r, c) => D[r][c] = G[r][c]
      PROVE  SameTexts(D, G, R, C)
  <2> SUFFICES ASSUME NEW r \in 1..R, NEW c \in 1..C
               PROVE  \E y \in 1..R, z \in 1..C : D[y][z].cell.text = G[r][c].cell.text
    BY DEF SameTexts
  <2>1. CASE Within(g, r, c)
    <3>1. G[r][c] = g
      BY <1>2, <2>1
    <3>2. D[r0][c0].cell.text = G[r][c].cell.text
      BY <1>4, <3>1
    <3> QED BY <1>2, <3>2
  <2>2. CASE ~Within(g, r, c)
    BY <1>4, <2>2
  <2> QED BY <2>1, <2>2
<1>5. Retains(splitToRows(t, <<r0, i0>>).rows, t.rows)
  <2> DEFINE D == RowSplitGrid(G, R, C, r0, c0)
             x == [g.cell EXCEPT !.rowSpan = 1]
  <2>1. PICK rows : splitToRows(t, <<r0, i0>>) = update(rows) /\ Lays(rows, C, {}, D) /\ Len(rows) = R
    BY RowSplitLays
  <2>2. x.text = g.cell.text
    BY <1>2, WithRowSpan
  <2>3. D[r0][c0].cell = x /\ \A r \in 1..R, c \in 1..C : ~Within(g, r, c) => D[r][c] = G[r][c]
    BY <1>2, <1>3 DEF RowSplitGrid, g
  <2> HIDE DEF D, x
  <2>4. SameTexts(D, G, R, C)
    BY <1>4, <2>2, <2>3
  <2> QED BY <1>1, <2>1, <2>4, LaidKeeps
<1>6. Retains(splitToCols(t, <<r0, i0>>).rows, t.rows)
  <2> DEFINE D == ColSplitGrid(G, R, C, r0, c0)
             x == [g.cell EXCEPT !.colSpan = 1]
  <2>1. PICK rows : splitToCols(t, <<r0, i0>>) = update(rows) /\ Lays(rows, C, {}, D) /\ Len(rows) = R
    BY ColSplitLays
  <2>2. x.text = g.cell.text
    BY <1>2, WithColSpan
  <2>3. D[r0][c0].cell = x /\ \A r \in 1..R, c \in 1..C : ~Within(g, r, c) => D[r][c] = G[r][c]
    BY <1>2, <1>3 DEF ColSplitGrid, g
  <2> HIDE DEF D, x
  <2>4. SameTexts(D, G, R, C)
    BY <1>4, <2>2, <2>3
  <2> QED BY <1>1, <2>1, <2>4, LaidKeeps
<1> QED BY <1>5, <1>6

(* The first k rows of the block are split, and no word is lost.           *)
PartKept(u, t, R, C, r0, c0, h, w, k) ==
    PartSplit(u, t, R, C, r0, c0, h, w, k) /\ Retains(u.rows, t.rows)

\* One row more.
LEMMA NextRowKeeps ==
  ASSUME NEW u, NEW t, NEW R, NEW C, NEW r0, NEW c0, NEW h, NEW w, BlockIn(R, C, r0, c0, h, w),
         NEW k \in Nat, k < h, PartKept(u, t, R, C, r0, c0, h, w, k),
         NEW v, v = splitToCols(u, <<r0 + k, u.index[<<r0 + k, c0>>].cell>>)
  PROVE  PartKept(v, t, R, C, r0, c0, h, w, k + 1)
<1>1. PartSplit(u, t, R, C, r0, c0, h, w, k) /\ Retains(u.rows, t.rows)
  BY DEF PartKept
<1>2. PartSplit(v, t, R, C, r0, c0, h, w, k + 1)
  BY <1>1, NextRowSplit
<1>3. RowToSplit(u, R, C, r0 + k, c0, w)
  BY <1>1, NextRow
<1> DEFINE G == GridOf(u)
           K == ColumnsOf(u)
           r == r0 + k
           i == u.index[<<r, c0>>].cell
<1>4. Splitting(u, R, C, G, K, r, i, c0)
  BY <1>3 DEF RowToSplit
<1>5. v = splitToCols(u, <<r, i>>)
  OBVIOUS
<1> HIDE DEF G, K, r, i
<1>6. Retains(v.rows, u.rows)
  BY <1>4, <1>5, SplitTwoKeeps
<1>7. Retains(v.rows, t.rows)
  BY <1>1, <1>6, KeepsTrans
<1> QED BY <1>2, <1>7 DEF PartKept

\* Splitting a cell into cells loses no word.
LEMMA SplitCellsKeeps ==
  ASSUME NEW t, NEW R, NEW C, NEW G, NEW K, NEW r0, NEW i0, NEW c0, Splitting(t, R, C, G, K, r0, i0, c0)
  PROVE  Retains(splitToCells(t, <<r0, i0>>).rows, t.rows)
<1> DEFINE info == InfoOf(t, <<r0, i0>>)
           h == G[r0][c0].cell.rowSpan
           w == G[r0][c0].cell.colSpan
<1>1. Begins(G, R, C, r0, c0) /\ Tells(info, t, G, r0, i0, c0)
  BY SplitOf
<1>2. info.row = r0 /\ info.col = c0 /\ info.rowSpan = h /\ info.colSpan = w
  BY <1>1 DEF Tells
<1>3. BlockIn(R, C, r0, c0, h, w)
  BY SplitCellsSeen
<1>4. PartSplit(splitToRows(t, <<r0, i0>>), t, R, C, r0, c0, h, w, 0)
  BY SplitRowsSeen
<1> HIDE DEF h, w
<1>6. h \in Nat
  BY <1>3 DEF BlockIn
<1>7. PICK split : SplitSteps(split, t, <<r0, i0>>)
  BY SplitToCellsIs
<1>8. /\ splitToCells(t, <<r0, i0>>) = split[h]
      /\ split[0] = splitToRows(t, <<r0, i0>>)
      /\ \A k \in Nat : k # 0 => split[k] =
            splitToCols(split[k - 1], <<r0 + k - 1, (split[k - 1]).index[<<r0 + k - 1, c0>>].cell>>)
  <2> HIDE DEF info
  <2>1. info = InfoOf(t, <<r0, i0>>)
    BY DEF info
  <2> QED BY <1>2, <1>6, <1>7, <2>1 DEF SplitSteps
<1> HIDE DEF info
<1> DEFINE ok == {n \in Nat : n <= h => PartKept(split[n], t, R, C, r0, c0, h, w, n)}
<1>11. 0 \in ok
  <2>1. Retains(split[0].rows, t.rows)
    BY <1>8, SplitTwoKeeps
  <2>2. PartKept(split[0], t, R, C, r0, c0, h, w, 0)
    BY <1>4, <1>8, <2>1 DEF PartKept
  <2> QED BY <2>2
<1>12. ASSUME NEW n \in Nat, n \in ok
       PROVE  n + 1 \in ok
  <2> SUFFICES ASSUME n + 1 <= h
               PROVE  PartKept(split[n + 1], t, R, C, r0, c0, h, w, n + 1)
    OBVIOUS
  <2> DEFINE s == split[n]
             v == split[n + 1]
  <2>1. n < h /\ PartKept(s, t, R, C, r0, c0, h, w, n)
    BY <1>6, <1>12
  <2>2. v = splitToCols(s, <<r0 + n, s.index[<<r0 + n, c0>>].cell>>)
    <3>1. n + 1 \in Nat /\ n + 1 # 0 /\ (n + 1) - 1 = n
      OBVIOUS
    <3>2. r0 + (n + 1) - 1 = r0 + n
      BY <1>3 DEF BlockIn
    <3> QED BY <1>8, <3>1, <3>2
  <2> HIDE DEF s, v
  <2>4. PartKept(v, t, R, C, r0, c0, h, w, n + 1)
    BY <1>3, <2>1, <2>2, NextRowKeeps
  <2> QED BY <2>4 DEF v
<1>13. h \in ok
  <2> HIDE DEF ok
  <2> QED BY <1>6, <1>11, <1>12, NatInSet
<1>14. PartKept(split[h], t, R, C, r0, c0, h, w, h)
  BY <1>6, <1>13
<1> QED BY <1>8, <1>14 DEF PartKept

\* So does no split of a cell of a tiled table.
LEMMA SplitsKeep ==
  ASSUME NEW t, Tiled(t), NEW p \in Places(t.rows)
  PROVE  /\ Retains(splitToCells(t, p).rows, t.rows)
         /\ Retains(splitToRows(t, p).rows, t.rows)
         /\ Retains(splitToCols(t, p).rows, t.rows)
<1>1. t.rows \in Seq(Seq(Cell)) /\ t.rowsNum = Len(t.rows) /\ Len(t.rows) \in Nat
  BY RowsTyped DEF Tiled
<1>2. PICK r \in 1..Len(t.rows) : \E i \in 1..Len(t.rows[r]) : p = <<r, i>>
  BY <1>1, PlacesAre
<1>3. PICK i \in 1..Len(t.rows[r]) : p = <<r, i>>
  BY <1>2
<1> DEFINE R == t.rowsNum
           C == t.colsNum
           G == GridOf(t)
           K == ColumnsOf(t)
<1>4. Standing(t, R, C, G, K)
  BY <1>1, StandingTiled
<1> HIDE DEF G, K
<1>5. Splitting(t, R, C, G, K, r, i, K[r][i])
  BY <1>1, <1>4 DEF Splitting
<1> QED BY <1>3, <1>5, SplitTwoKeeps, SplitCellsKeeps

\* Marking some cells as well.
LEMMA MarkKeeps ==
  ASSUME NEW rows \in Seq(Seq(Cell)), NEW places
  PROVE  Retains(Mark(rows, places), rows)
<1> DEFINE m == Mark(rows, places)
<1>1. DOMAIN rows = 1..Len(rows) /\ \A r \in 1..Len(rows) : DOMAIN rows[r] = 1..Len(rows[r])
  BY RowsTyped
<1>2. /\ m = [r \in DOMAIN rows |-> m[r]]
      /\ \A r \in DOMAIN rows : m[r] = [i \in DOMAIN rows[r] |-> m[r][i]]
      /\ \A r \in DOMAIN rows : \A i \in DOMAIN rows[r] :
            m[r][i] = [rows[r][i] EXCEPT !.selected = rows[r][i].selected \/ <<r, i>> \in places]
  BY DEF Mark
<1> HIDE DEF m
<1>3. ASSUME NEW r \in DOMAIN rows, NEW i \in DOMAIN rows[r]
      PROVE  m[r][i] \in Cell /\ m[r][i].text = rows[r][i].text
  <2> DEFINE n == rows[r][i].selected \/ <<r, i>> \in places
  <2>1. rows[r][i] \in Cell
    BY <1>1, RowsTyped
  <2>2. n \in BOOLEAN
    OBVIOUS
  <2>3. m[r][i] = [rows[r][i] EXCEPT !.selected = n]
    BY <1>2
  <2> HIDE DEF n
  <2> QED BY <2>1, <2>2, <2>3, WithMark
<1>4. \A r \in DOMAIN rows : \A i \in DOMAIN rows[r] : m[r][i] \in Cell
  BY <1>3
<1>5. /\ m \in Seq(Seq(Cell)) /\ Len(m) = Len(rows)
      /\ \A r \in 1..Len(rows) : Len(m[r]) = Len(rows[r])
  <2>1. m = [r \in DOMAIN rows |-> m[r]]
    BY <1>2
  <2>2. \A r \in DOMAIN rows : m[r] = [i \in DOMAIN rows[r] |-> m[r][i]]
    BY <1>2
  <2>3. /\ m \in Seq(Seq(Cell)) /\ Len(m) = Len(rows)
        /\ \A r \in 1..Len(rows) : m[r] \in Seq(Cell) /\ Len(m[r]) = Len(rows[r]) /\ DOMAIN m[r] = 1..Len(rows[r])
    BY <1>4, <2>1, <2>2, RowsChanged
  <2> QED BY <2>3
<1>6. ASSUME NEW r \in 1..Len(rows)
      PROVE  Len(m[r]) = Len(rows[r]) /\ \A i \in 1..Len(rows[r]) : rows[r][i].text \subseteq m[r][i].text
  <2>1. ASSUME NEW i \in 1..Len(rows[r])
        PROVE  rows[r][i].text \subseteq m[r][i].text
    <3>1. m[r][i].text = rows[r][i].text
      BY <1>1, <1>3
    <3> QED BY <3>1
  <2> QED BY <1>5, <2>1
<1>7. Retains(m, rows)
  BY <1>5, <1>6, KeepsPlaces
<1> QED BY <1>7 DEF m

\* What a selection leaves of the rows.
LEMMA SetSelectedKeeps ==
  ASSUME NEW t, TableRec(t), t.rows \in Seq(Seq(Cell)), NEW g
  PROVE  Retains(setSelected(t, g).rows, t.rows)
<1> DEFINE plain == Unmarked(t.rows)
           u == setSelected(t, g)
<1>1. plain \in Seq(Seq(Cell)) /\ Retains(plain, t.rows)
  BY UnmarkedIs, UnmarkedKeeps
<1>2. CASE Cut(t, g)
  <2>1. u = [t EXCEPT !.rows = Unmarked(@), !.cellsRange = g, !.state = "null"]
    BY <1>2 DEF setSelected
  <2> HIDE DEF u
  <2>2. u.rows = plain
    BY <2>1 DEF TableRec
  <2> QED BY <1>1, <2>2 DEF u
<1>3. CASE ~Cut(t, g)
  <2> DEFINE m == Mark(plain, PlacesIn(t, g))
  <2>1. u = [t EXCEPT !.rows = Mark(Unmarked(@), PlacesIn(t, g)), !.cellsRange = g]
    BY <1>3 DEF setSelected
  <2> HIDE DEF u
  <2>2. u.rows = m
    BY <2>1 DEF TableRec
  <2> HIDE DEF plain
  <2>3. Retains(m, plain)
    BY <1>1, MarkKeeps
  <2>4. Retains(m, t.rows)
    BY <1>1, <2>3, KeepsTrans
  <2> QED BY <2>2, <2>4 DEF u
<1> QED BY <1>2, <1>3

\* Selecting loses no word.
LEMMA SelectKeeps ==
  ASSUME ut.rows \in Seq(Seq(Cell)), SelectCells
  PROVE  Retains(ut'.rows, ut.rows)
<1> DEFINE t == tableClickHander(ut)
           plain == Unmarked(ut.rows)
<1>1. TableRec(t)
  BY UpdateRebuilds DEF tableClickHander, Rebuilds
<1>2. plain \in Seq(Seq(Cell)) /\ Retains(plain, ut.rows)
  BY UnmarkedIs, UnmarkedKeeps
<1>3. t = update(plain)
  BY DEF tableClickHander
<1>4. \E p, q \in Places(t.rows) : ut' = t \/ ut' = setSelected(t, getCellsRange(t, p, q))
  BY DEF SelectCells
<1> HIDE DEF t, plain
<1>5. Retains(t.rows, ut.rows)
  <2>1. Retains(t.rows, plain)
    BY <1>2, <1>3, UpdateKeeps
  <2> QED BY <1>2, <2>1, KeepsTrans
<1>6. PICK p \in Places(t.rows), q \in Places(t.rows) : ut' = t \/ ut' = setSelected(t, getCellsRange(t, p, q))
  BY <1>4
<1>7. Retains(setSelected(t, getCellsRange(t, p, q)).rows, ut.rows)
  <2>1. Retains(setSelected(t, getCellsRange(t, p, q)).rows, t.rows)
    BY <1>1, <1>5, SetSelectedKeeps DEF Retains
  <2> QED BY <1>5, <2>1, KeepsTrans
<1> QED BY <1>5, <1>6, <1>7

\* Typing loses none,
LEMMA TypeKeeps ==
  ASSUME TableRec(ut), Tiled(ut), NEW p, NEW w \in Words, TypeWord(p, w)
  PROVE  Retains(ut'.rows, ut.rows)
<1> DEFINE rows == ut.rows
<1>1. rows \in Seq(Seq(Cell))
  BY DEF Tiled
<1>2. p \in Places(rows)
  BY DEF TypeWord, CaretIn
<1>3. PICK b \in 1..Len(rows) : \E i \in 1..Len(rows[b]) : p = <<b, i>>
  BY <1>1, <1>2, PlacesAre
<1>4. PICK i \in 1..Len(rows[b]) : p = <<b, i>>
  BY <1>3
<1> DEFINE s == rows[b][i].text \union {w}
           x == [rows[b][i] EXCEPT !.text = s]
           m == WithCell(rows, b, i, x)
<1>5. rows[b][i] \in Cell
  BY <1>1, RowsTyped
<1>6. s \in SUBSET Words
  BY <1>5, CellTyped
<1>7. ut' = [ut EXCEPT !.rows[b][i].text = @ \union {w}]
  BY <1>4 DEF TypeWord
<1>8. ut'.rows = m
  <2>1. DOMAIN ut = {"rows", "index", "rowsNum", "colsNum", "cellsRange", "state"}
    BY DEF TableRec
  <2>2. ut'.rows = [rows EXCEPT ![b] = [rows[b] EXCEPT ![i] = [rows[b][i] EXCEPT !.text = @ \union {w}]]]
    BY <1>7, <2>1
  <2> QED BY <2>2 DEF WithCell
<1> HIDE DEF s
<1>9. x \in Cell /\ x.text = s
  BY <1>5, <1>6, WithText
<1>10. rows[b][i].text \subseteq s
  BY DEF s
<1> HIDE DEF x, m, rows
<1>11. Retains(m, rows)
  BY <1>1, <1>9, <1>10, CellSetWords DEF m
<1> QED BY <1>8, <1>11 DEF rows

\* nor does sorting the rows.
LEMMA SortKeeps ==
  ASSUME TableRec(ut), Tiled(ut), sorttable
  PROVE  Retains(ut'.rows, ut.rows)
<1> DEFINE sorted == {r \in 1..ut.rowsNum : Selected # {} => r \in ut.cellsRange.beginRow..ut.cellsRange.endRow}
           rows == ut.rows
<1>1. PICK order \in [sorted -> sorted] :
         /\ \A r \in sorted : \E k \in sorted : order[k] = r
         /\ ut' = [ut EXCEPT !.rows = [r \in DOMAIN @ |-> @[IF r \in sorted THEN order[r] ELSE r]]]
  BY DEF sorttable
<1>2. rows \in Seq(Seq(Cell)) /\ ut.rowsNum = Len(rows) /\ Len(rows) \in Nat /\ DOMAIN rows = 1..Len(rows)
      /\ \A r \in 1..Len(rows) : rows[r] \in Seq(Cell)
  <2>1. rows \in Seq(Seq(Cell)) /\ ut.rowsNum = Len(rows)
    BY DEF Tiled
  <2> QED BY <2>1, RowsTyped
<1>3. sorted \subseteq 1..Len(rows)
  BY <1>2
<1> HIDE DEF sorted
<1> DEFINE w == [r \in DOMAIN rows |-> rows[IF r \in sorted THEN order[r] ELSE r]]
<1>4. ut'.rows = w
  BY <1>1 DEF TableRec
<1>5. w \in [1..Len(rows) -> Seq(Cell)] /\ \A r \in 1..Len(rows) : w[r] = rows[IF r \in sorted THEN order[r] ELSE r]
  <2>1. ASSUME NEW r \in 1..Len(rows)
        PROVE  rows[IF r \in sorted THEN order[r] ELSE r] \in Seq(Cell)
    <3>1. (IF r \in sorted THEN order[r] ELSE r) \in 1..Len(rows)
      BY <1>1, <1>3
    <3> QED BY <1>2, <3>1
  <2> QED BY <1>2, <2>1
<1> HIDE DEF w
<1>6. w \in Seq(Seq(Cell)) /\ Len(w) = Len(rows)
  BY <1>2, <1>5, FcnIsSeq
<1>7. ASSUME NEW r \in 1..Len(rows), NEW i \in 1..Len(rows[r])
      PROVE  \E y \in 1..Len(w) : \E j \in 1..Len(w[y]) : rows[r][i].text \subseteq w[y][j].text
  <2>1. \E y \in 1..Len(w) : w[y] = rows[r]
    <3>1. CASE r \in sorted
      <4>1. PICK k \in sorted : order[k] = r
        BY <1>1, <3>1
      <4>2. k \in 1..Len(w)
        BY <1>3, <1>6
      <4>3. w[k] = rows[r]
        BY <1>5, <1>6, <4>1, <4>2
      <4> QED BY <4>2, <4>3
    <3>2. CASE r \notin sorted
      BY <1>5, <1>6, <3>2
    <3> QED BY <3>1, <3>2
  <2>2. PICK y \in 1..Len(w) : w[y] = rows[r]
    BY <2>1
  <2>3. i \in 1..Len(w[y]) /\ rows[r][i].text \subseteq w[y][i].text
    BY <2>2
  <2> QED BY <2>3
<1>8. Retains(w, rows)
  BY <1>2, <1>6, <1>7, KeepsCells
<1> QED BY <1>4, <1>8

(* No cell is left on a page without a table.                              *)
NoneOk(u) == u.state = "none" => Places(u.rows) = {}

\* A table that was built again, or left half done, is one.
LEMMA SettledNone ==
  ASSUME NEW u, Settled(u)
  PROVE  NoneOk(u) /\ NoneOk(Keep(u))
<1>1. u.state # "none" /\ DOMAIN u = {"rows", "index", "rowsNum", "colsNum", "cellsRange", "state"}
  BY DEF Settled, Rebuilds, TableRec
<1>2. NoneOk(u)
  BY <1>1 DEF NoneOk
<1>3. CASE Keep(u) = u
  BY <1>2, <1>3
<1>4. CASE Keep(u) = [u EXCEPT !.state = "none"] /\ Places(u.rows) = {}
  <2>1. Keep(u).rows = u.rows
    BY <1>1, <1>4
  <2> QED BY <1>4, <2>1 DEF NoneOk
<1> QED BY <1>2, <1>3, <1>4 DEF Keep

\* Calling one of the four operations again and again.
LEMMA AgainNone ==
  ASSUME TableRec(ut), ut.state = "ready",
         NEW n, NEW op \in {"insertRow", "deleteRow", "insertCol", "deleteCol"}, NEW at
  PROVE  NoneOk(Again(ut, n, op, at)) /\ NoneOk(Keep(Again(ut, n, op, at)))
<1> DEFINE u == Again(ut, n, op, at)
<1>1. u = ut \/ Settled(u)
  BY AgainSettled
<1> HIDE DEF u
<1>2. CASE Settled(u)
  BY <1>2, SettledNone DEF u
<1>3. CASE u = ut
  <2>1. NoneOk(u)
    BY <1>3 DEF NoneOk
  <2>2. CASE Keep(u) = u
    BY <2>1, <2>2 DEF u
  <2>3. CASE Keep(u) = [u EXCEPT !.state = "none"] /\ Places(u.rows) = {}
    <3>1. Keep(u).rows = u.rows
      BY <1>3, <2>3 DEF TableRec
    <3>2. NoneOk(Keep(u))
      BY <2>3, <3>1 DEF NoneOk
    <3> QED BY <2>1, <3>2 DEF u
  <2> QED BY <2>2, <2>3 DEF Keep
<1> QED BY <1>1, <1>2, <1>3

\* A selection is made in a table.
LEMMA SelectNone ==
  ASSUME SelectCells
  PROVE  NoneOk(ut')
<1> DEFINE t == tableClickHander(ut)
<1>1. Rebuilds(t)
  BY UpdateRebuilds DEF tableClickHander
<1>2. \E p, q \in Places(t.rows) : ut' = t \/ ut' = setSelected(t, getCellsRange(t, p, q))
  BY DEF SelectCells
<1> HIDE DEF t
<1>3. t.state = "ready" /\ DOMAIN t = {"rows", "index", "rowsNum", "colsNum", "cellsRange", "state"}
  BY <1>1 DEF Rebuilds, TableRec
<1>4. ASSUME NEW g, NEW u, u = setSelected(t, g)
      PROVE  u.state # "none"
  <2>1. CASE Cut(t, g)
    <3>1. u = [t EXCEPT !.rows = Unmarked(@), !.cellsRange = g, !.state = "null"]
      BY <1>4, <2>1 DEF setSelected
    <3>2. u.state = "null"
      BY <1>3, <3>1
    <3> QED BY <3>2
  <2>2. CASE ~Cut(t, g)
    <3>1. u = [t EXCEPT !.rows = Mark(Unmarked(@), PlacesIn(t, g)), !.cellsRange = g]
      BY <1>4, <2>2 DEF setSelected
    <3>2. u.state = t.state
      BY <1>3, <3>1
    <3> QED BY <1>3, <3>2
  <2> QED BY <2>1, <2>2
<1>5. PICK p \in Places(t.rows), q \in Places(t.rows) : ut' = t \/ ut' = setSelected(t, getCellsRange(t, p, q))
  BY <1>2
<1>6. ut'.state # "none"
  BY <1>3, <1>4, <1>5
<1> QED BY <1>6 DEF NoneOk

\* A command leaves no cell where it removes the table.
LEMMA NoneOkStep ==
  ASSUME TableRec(ut), NoneOk(ut), [TableNext]_ut
  PROVE  NoneOk(ut')
<1>a. ASSUME ut'.state = ut.state, ut.state = "ready"
      PROVE  NoneOk(ut')
  BY <1>a DEF NoneOk
<1>1. ASSUME NEW n \in 1..MaxRows, NEW m \in 1..MaxCols, inserttable(n, m)
      PROVE  NoneOk(ut')
  <2>1. \E rows : ut' = update(rows)
    BY <1>1 DEF inserttable
  <2> QED BY <2>1, UpdateRebuilds, SettledNone DEF Settled
<1>2. CASE SelectCells
  BY <1>2, SelectNone
<1>3. ASSUME NEW p \in TablePlaces, NEW w \in Words, TypeWord(p, w)
      PROVE  NoneOk(ut')
  <2>1. ut.state = "ready" /\ ut' = [ut EXCEPT !.rows[p[1]][p[2]].text = @ \union {w}]
    BY <1>3 DEF TypeWord, CaretIn
  <2>2. ut'.state = ut.state
    BY <2>1 DEF TableRec
  <2> QED BY <1>a, <2>1, <2>2
<1>4. CASE DelCells
  <2>1. ut.state = "ready" /\ \E rows : ut' = [ut EXCEPT !.rows = rows]
    BY <1>4 DEF DelCells
  <2>2. ut'.state = ut.state
    BY <2>1 DEF TableRec
  <2> QED BY <1>a, <2>1, <2>2
<1>5. CASE deletetable
  <2>1. ut'.rows = <<>>
    BY <1>5 DEF deletetable, NoTable
  <2> QED BY <2>1 DEF NoneOk, Places
<1>6. CASE mergecells
  BY <1>6, MergeSettled, SettledNone DEF mergecells
<1>7. CASE sorttable
  <2>1. ut.state = "ready" /\ \E rows : ut' = [ut EXCEPT !.rows = rows]
    BY <1>7 DEF sorttable
  <2>2. ut'.state = ut.state
    BY <2>1 DEF TableRec
  <2> QED BY <1>a, <2>1, <2>2
<1>8. ASSUME NEW p \in TablePlaces, mergeright(p) \/ mergedown(p)
      PROVE  NoneOk(ut')
  <2>1. ut' = mergeRight(ut, p) \/ ut' = mergeDown(ut, p)
    BY <1>8 DEF mergeright, mergedown
  <2> QED BY <2>1, MergeSettled, SettledNone
<1>9. ASSUME NEW p \in TablePlaces, insertrow(p) \/ insertrownext(p) \/ deleterow(p)
      PROVE  NoneOk(ut')
  <2>1. \E n, at : ut' = Again(ut, n, "insertRow", at) \/ ut' = Keep(Again(ut, n, "deleteRow", at))
    BY <1>9 DEF insertrow, insertrownext, deleterow
  <2>2. ut.state = "ready"
    BY <1>9 DEF insertrow, insertrownext, deleterow, CaretIn
  <2> QED BY <2>1, <2>2, AgainNone
<1>10. ASSUME NEW p \in TablePlaces, insertcol(p) \/ insertcolnext(p) \/ deletecol(p)
       PROVE  NoneOk(ut')
  <2>1. \E n, at : ut' = Again(ut, n, "insertCol", at) \/ ut' = Keep(Again(ut, n, "deleteCol", at))
    BY <1>10 DEF insertcol, insertcolnext, deletecol
  <2>2. ut.state = "ready"
    BY <1>10 DEF insertcol, insertcolnext, deletecol, CaretIn
  <2> QED BY <2>1, <2>2, AgainNone
<1>11. ASSUME NEW p \in TablePlaces, splittocells(p) \/ splittorows(p) \/ splittocols(p)
       PROVE  NoneOk(ut')
  <2>1. ut' = splitToCells(ut, p) \/ ut' = splitToRows(ut, p) \/ ut' = splitToCols(ut, p)
    BY <1>11 DEF splittocells, splittorows, splittocols
  <2>2. ut' = ut \/ Settled(ut')
    BY <2>1, CellsSettled, SplitsSettled DEF Settled
  <2> QED BY <2>2, SettledNone
<1>12. CASE UNCHANGED ut
  BY <1>12
<1> QED BY <1>1, <1>2, <1>3, <1>4, <1>5, <1>6, <1>7, <1>8, <1>9, <1>10, <1>11, <1>12 DEF TableNext, TableCommand

\* A row put in between others.
LEMMA PutInKeeps ==
  ASSUME NEW rows \in Seq(Seq(Cell)), NEW at \in 1..(Len(rows) + 1), NEW row \in Seq(Cell)
  PROVE  Retains(InsertAt(rows, at, row), rows)
<1> DEFINE n == Len(rows)
           w == InsertAt(rows, at, row)
           SC == Seq(Cell)
<1>1. n \in Nat /\ at \in 1..(n + 1)
  BY RowsTyped
<1>2. /\ w \in Seq(Seq(Cell)) /\ Len(w) = n + 1
      /\ \A j \in 1..(n + 1) : w[j] = IF j < at THEN rows[j] ELSE IF j = at THEN row ELSE rows[j - 1]
  <2>1. rows \in Seq(SC) /\ at \in 1..(Len(rows) + 1) /\ row \in SC
    OBVIOUS
  <2> HIDE DEF n, SC, w
  <2>2. /\ InsertAt(rows, at, row) \in Seq(SC) /\ Len(InsertAt(rows, at, row)) = Len(rows) + 1
        /\ \A j \in 1..(Len(rows) + 1) :
              InsertAt(rows, at, row)[j] = IF j < at THEN rows[j] ELSE IF j = at THEN row ELSE rows[j - 1]
    BY <2>1, PutIn
  <2> QED BY <2>2 DEF n, SC, w
<1> HIDE DEF n, w
<1>3. ASSUME NEW r \in 1..n
      PROVE  \E y \in 1..Len(w) : w[y] = rows[r]
  <2>1. CASE r < at
    <3>1. r \in 1..(n + 1)
      BY <1>1
    <3>2. w[r] = rows[r]
      BY <1>2, <2>1, <3>1
    <3> QED BY <1>2, <3>1, <3>2
  <2>2. CASE ~(r < at)
    <3>1. r + 1 \in 1..(n + 1) /\ ~(r + 1 < at) /\ r + 1 # at /\ (r + 1) - 1 = r
      BY <1>1, <2>2
    <3>2. w[r + 1] = rows[r]
      BY <1>2, <3>1
    <3> QED BY <1>2, <3>1, <3>2
  <2> QED BY <2>1, <2>2
<1>4. ASSUME NEW r \in 1..Len(rows), NEW i \in 1..Len(rows[r])
      PROVE  \E y \in 1..Len(w) : \E j \in 1..Len(w[y]) : rows[r][i].text \subseteq w[y][j].text
  <2>1. PICK y \in 1..Len(w) : w[y] = rows[r]
    BY <1>3 DEF n
  <2>2. i \in 1..Len(w[y]) /\ rows[r][i].text \subseteq w[y][i].text
    BY <2>1
  <2> QED BY <2>2
<1>5. Retains(w, rows)
  BY <1>2, <1>4, KeepsCells
<1> QED BY <1>5 DEF w

(* Some cells of the rows are one row higher.                              *)
Raised(w, rows, grown) ==
    w = [r \in DOMAIN rows |-> [i \in DOMAIN rows[r] |->
            IF <<r, i>> \in grown THEN [rows[r][i] EXCEPT !.rowSpan = @ + 1] ELSE rows[r][i]]]

\* Higher cells have the same words.
LEMMA RaisedKeeps ==
  ASSUME NEW rows \in Seq(Seq(Cell)), NEW grown, NEW w, Raised(w, rows, grown)
  PROVE  Retains(w, rows) /\ Len(w) = Len(rows)
<1>1. DOMAIN rows = 1..Len(rows) /\ \A r \in 1..Len(rows) : DOMAIN rows[r] = 1..Len(rows[r])
  BY RowsTyped
<1>2. /\ w = [r \in DOMAIN rows |-> w[r]]
      /\ \A r \in DOMAIN rows : w[r] = [i \in DOMAIN rows[r] |-> w[r][i]]
      /\ \A r \in DOMAIN rows : \A i \in DOMAIN rows[r] :
            w[r][i] = IF <<r, i>> \in grown THEN [rows[r][i] EXCEPT !.rowSpan = rows[r][i].rowSpan + 1] ELSE rows[r][i]
  BY DEF Raised
<1>3. ASSUME NEW r \in DOMAIN rows, NEW i \in DOMAIN rows[r]
      PROVE  w[r][i] \in Cell /\ w[r][i].text = rows[r][i].text
  <2> DEFINE n == rows[r][i].rowSpan + 1
  <2>1. rows[r][i] \in Cell
    BY <1>1, RowsTyped
  <2>2. n \in Nat \ {0}
    BY <2>1, CellTyped
  <2>3. w[r][i] = IF <<r, i>> \in grown THEN [rows[r][i] EXCEPT !.rowSpan = n] ELSE rows[r][i]
    BY <1>2
  <2> HIDE DEF n
  <2> QED BY <2>1, <2>2, <2>3, WithRowSpan
<1>4. \A r \in DOMAIN rows : \A i \in DOMAIN rows[r] : w[r][i] \in Cell
  BY <1>3
<1>5. /\ w \in Seq(Seq(Cell)) /\ Len(w) = Len(rows)
      /\ \A r \in 1..Len(rows) : Len(w[r]) = Len(rows[r])
  <2>1. w = [r \in DOMAIN rows |-> w[r]]
    BY <1>2
  <2>2. \A r \in DOMAIN rows : w[r] = [i \in DOMAIN rows[r] |-> w[r][i]]
    BY <1>2
  <2>3. /\ w \in Seq(Seq(Cell)) /\ Len(w) = Len(rows)
        /\ \A r \in 1..Len(rows) : w[r] \in Seq(Cell) /\ Len(w[r]) = Len(rows[r]) /\ DOMAIN w[r] = 1..Len(rows[r])
    BY <1>4, <2>1, <2>2, RowsChanged
  <2> QED BY <2>3
<1>6. ASSUME NEW r \in 1..Len(rows)
      PROVE  Len(w[r]) = Len(rows[r]) /\ \A i \in 1..Len(rows[r]) : rows[r][i].text \subseteq w[r][i].text
  <2>1. ASSUME NEW i \in 1..Len(rows[r])
        PROVE  rows[r][i].text \subseteq w[r][i].text
    <3>1. w[r][i].text = rows[r][i].text
      BY <1>1, <1>3
    <3> QED BY <3>1
  <2> QED BY <1>5, <2>1
<1> QED BY <1>5, <1>6, KeepsPlaces

\* A row put in that stops half way has lost no word.
LEMMA InsRowThrown ==
  ASSUME NEW t, TableRec(t), t.rows \in Seq(Seq(Cell)), t.rowsNum = Len(t.rows),
         NEW at \in 1..(t.rowsNum + 1), insertRow(t, at).state = "thrown"
  PROVE  Retains(insertRow(t, at).rows, t.rows)
<1> DEFINE reaching == IF at \in 2..t.rowsNum
                       THEN {c \in 1..t.colsNum : t.index[<<at, c>>].row < at} ELSE {}
           neighbour == IF at <= t.rowsNum THEN t.rows[at] ELSE t.rows[at - 1]
           done == 1..(IF neighbour = <<>> THEN 1 ELSE t.colsNum)
           grown == {<<t.index[<<at, c>>].row, t.index[<<at, c>>].cell>> : c \in reaching \intersect done}
           taller == [r \in DOMAIN t.rows |-> [i \in DOMAIN t.rows[r] |->
                         IF <<r, i>> \in grown THEN [t.rows[r][i] EXCEPT !.rowSpan = @ + 1]
                                               ELSE t.rows[r][i]]]
           n == Cardinality(done \ reaching)
           row == [k \in 1..n |-> BlankCell]
           rows == InsertAt(taller, at, row)
<1>1. insertRow(t, at) = IF neighbour = <<>> THEN Throw(t, rows) ELSE update(rows)
  BY DEF insertRow
<1>2. neighbour = <<>>
  <2> HIDE DEF rows, neighbour
  <2>1. update(rows).state = "ready"
    BY UpdateRebuilds DEF Rebuilds
  <2> QED BY <1>1, <2>1
<1>3. Raised(taller, t.rows, grown)
  BY DEF Raised
<1>4. n \in Nat
  <2> DEFINE S == done \ reaching
  <2>1. done = 1..1
    BY <1>2
  <2> HIDE DEF done, reaching
  <2>2. S \in SUBSET (1..1)
    BY <2>1
  <2> HIDE DEF S
  <2>3. Cardinality(S) \in Nat
    BY <2>2, AscendingIs
  <2> QED BY <2>3 DEF S
<1> HIDE DEF reaching, neighbour, done, grown, taller, n
<1>5. row \in Seq(Cell)
  <2>1. row \in [1..n -> Cell]
    BY BlankIs
  <2> HIDE DEF row
  <2> QED BY <1>4, <2>1, FcnIsSeq
<1>6. insertRow(t, at).rows = rows
  <2> HIDE DEF rows
  <2>1. insertRow(t, at) = Throw(t, rows)
    BY <1>1, <1>2
  <2> QED BY <2>1 DEF Throw, TableRec
<1>7. Retains(taller, t.rows) /\ Len(taller) = Len(t.rows) /\ taller \in Seq(Seq(Cell))
  <2>1. Retains(taller, t.rows) /\ Len(taller) = Len(t.rows)
    BY <1>3, RaisedKeeps
  <2> QED BY <2>1 DEF Retains
<1> HIDE DEF row
<1>8. Retains(rows, taller)
  <2>1. at \in 1..(Len(taller) + 1)
    BY <1>7
  <2> QED BY <1>5, <1>7, <2>1, PutInKeeps
<1>9. Retains(rows, t.rows)
  BY <1>7, <1>8, KeepsTrans
<1> QED BY <1>6, <1>9

(* A tiled table, ready, with so many rows.                                *)
RowsReady(t, R) == TableRec(t) /\ t.state = "ready" /\ Tiled(t) /\ t.rowsNum = R

\* One row put in.
LEMMA InsRowWords ==
  ASSUME NEW t, NEW R \in Nat \ {0}, RowsReady(t, R), NEW at \in 1..(R + 1), NEW u, u = insertRow(t, at)
  PROVE  TableRec(u) /\ Retains(u.rows, t.rows) /\ (u.state = "thrown" \/ RowsReady(u, R + 1))
<1> DEFINE C == t.colsNum
           G == GridOf(t)
           K == ColumnsOf(t)
           D == InsRowGrid(G, R, C, at)
<1>0. Tiled(t) /\ t.rowsNum = R /\ t.rowsNum > 0 /\ TableRec(t) /\ t.rows \in Seq(Seq(Cell)) /\ t.rowsNum = Len(t.rows)
  BY DEF RowsReady, Tiled
<1>1. Standing(t, R, C, G, K)
  BY <1>0, StandingTiled
<1>2. TableRec(u)
  <2>1. Settled(Call("insertRow", t, at))
    BY <1>0, CallSettled
  <2>2. Call("insertRow", t, at) = u
    BY DEF Call
  <2> QED BY <2>1, <2>2 DEF Settled, Rebuilds
<1>3. CASE u.state = "thrown"
  BY <1>0, <1>2, <1>3, InsRowThrown
<1>4. CASE u.state # "thrown"
  <2> HIDE DEF G, K
  <2>1. /\ TableOf(t, R, C, G, K)
        /\ \A r \in 1..R : \A i \in 1..Len(t.rows[r]) : Stands(t, R, C, G, K, r, i)
        /\ \A r \in 1..R, c \in 1..C : Agrees(t, G, K, r, c)
    BY <1>1 DEF Standing
  <2>2. PICK rows : u = update(rows) /\ Lays(rows, C, {}, D) /\ Len(rows) = R + 1
    BY <1>0, <1>4, <2>1, InsRowLays
  <2>3. LooksLike(u, rows, C, D)
    BY <2>2, UpdateLays
  <2>4. Tiled(u) /\ u.state = "ready" /\ u.rowsNum = R + 1 /\ u.colsNum = C
    BY <2>2, <2>3 DEF LooksLike
  <2>5. \A r \in 1..R, c \in 1..C : TextAt(u, <<Shift(r, at, 1), c>>) = TextAt(t, <<r, c>>)
    BY <1>0, <1>4, InsRowKeeps
  <2>6. ASSUME NEW r \in 1..t.rowsNum, NEW c \in 1..t.colsNum
        PROVE  \E x \in 1..u.rowsNum, y \in 1..u.colsNum : TextAt(t, <<r, c>>) \subseteq TextAt(u, <<x, y>>)
    <3>1. Shift(r, at, 1) \in 1..u.rowsNum
      <4>1. u.rowsNum = R + 1 /\ t.rowsNum = R
        BY <1>0, <2>4
      <4>2. r \in 1..R
        BY <4>1
      <4> QED BY <4>1, <4>2 DEF Shift
    <3>2. TextAt(u, <<Shift(r, at, 1), c>>) = TextAt(t, <<r, c>>)
      BY <1>0, <2>5
    <3> QED BY <2>4, <3>1, <3>2
  <2>7. Retains(u.rows, t.rows)
    BY <1>0, <2>4, <2>6, SeenKeeps
  <2> QED BY <1>2, <2>4, <2>7 DEF RowsReady
<1> QED BY <1>3, <1>4

(* After k of the rows are put in, or one of the calls stopped half way.   *)
RowsGrown(u, t, R, k) == Retains(u.rows, t.rows) /\ (u.state = "thrown" \/ RowsReady(u, R + k))

\* Rows put in one after the other lose no word.
LEMMA InsRowsWords ==
  ASSUME NEW t, NEW R \in Nat \ {0}, RowsReady(t, R), NEW n \in Nat, NEW at \in 1..(R + 1)
  PROVE  Retains(Again(t, n, "insertRow", at).rows, t.rows)
<1>1. PICK f : CallSteps(f, t, n, "insertRow", at)
  BY AgainIs
<1>2. Again(t, n, "insertRow", at) = f[n] /\ f[0] = t
  BY <1>1 DEF CallSteps
<1> DEFINE ok == {k \in Nat : RowsGrown(f[k], t, R, k)}
<1>3. 0 \in ok
  <2>1. t.rows \in Seq(Seq(Cell)) /\ R + 0 = R
    BY DEF RowsReady, Tiled
  <2>2. RowsGrown(t, t, R, 0)
    BY <2>1, KeepsSelf DEF RowsGrown
  <2> QED BY <1>2, <2>2
<1>4. ASSUME NEW k \in Nat, k \in ok
      PROVE  k + 1 \in ok
  <2> DEFINE u == f[k]
             v == f[k + 1]
  <2>1. RowsGrown(u, t, R, k)
    BY <1>4
  <2>2. v = IF u.state = "thrown" \/ ~Tiled(u) THEN u ELSE Call("insertRow", u, at)
    <3>1. k + 1 \in Nat /\ k + 1 # 0 /\ (k + 1) - 1 = k
      OBVIOUS
    <3> QED BY <1>1, <3>1 DEF CallSteps
  <2> HIDE DEF u, v
  <2>3. CASE u.state = "thrown"
    <3>1. RowsGrown(v, t, R, k + 1)
      BY <2>1, <2>2, <2>3 DEF RowsGrown
    <3> QED BY <3>1 DEF v
  <2>4. CASE u.state # "thrown"
    <3>1. RowsReady(u, R + k) /\ Retains(u.rows, t.rows)
      BY <2>1, <2>4 DEF RowsGrown
    <3>2. v = insertRow(u, at)
      BY <2>2, <2>4, <3>1 DEF Call, RowsReady
    <3>3. R + k \in Nat \ {0} /\ at \in 1..((R + k) + 1) /\ (R + k) + 1 = R + (k + 1)
      OBVIOUS
    <3>4. Retains(v.rows, u.rows) /\ (v.state = "thrown" \/ RowsReady(v, R + (k + 1)))
      BY <3>1, <3>2, <3>3, InsRowWords
    <3>5. RowsGrown(v, t, R, k + 1)
      BY <3>1, <3>4, KeepsTrans DEF RowsGrown
    <3> QED BY <3>5 DEF v
  <2> QED BY <2>3, <2>4
<1> HIDE DEF ok
<1>5. n \in ok
  BY <1>3, <1>4, NatInSet
<1> QED BY <1>2, <1>5 DEF ok, RowsGrown

\* Putting rows in loses no word,
LEMMA RowsInKeep ==
  ASSUME TableOk(ut), MarkOk(ut), ut.state = "ready", Tiled(ut), NEW p, insertrow(p) \/ insertrownext(p)
  PROVE  Retains(ut'.rows, ut.rows)
<1>1. CaretIn(p)
  BY DEF insertrow, insertrownext
<1>2. /\ ut.rowsNum \in Nat \ {0} /\ Height \in Nat
      /\ Selected = {} => LET info == InfoOf(ut, p)
                          IN  /\ Height = 1 /\ info.row \in 1..ut.rowsNum
                              /\ info.row + info.rowSpan \in 1..(ut.rowsNum + 1)
      /\ Selected # {} => /\ ut.cellsRange.beginRow \in 1..ut.rowsNum
                          /\ ut.cellsRange.beginRow + Height - 1 <= ut.rowsNum
                          /\ ut.cellsRange.endRow + 1 \in 1..(ut.rowsNum + 1)
  BY <1>1, ChosenRows
<1>3. RowsReady(ut, ut.rowsNum)
  BY DEF RowsReady, TableOk
<1>4. ASSUME NEW at \in 1..(ut.rowsNum + 1), ut' = Again(ut, Height, "insertRow", at)
      PROVE  Retains(ut'.rows, ut.rows)
  BY <1>2, <1>3, <1>4, InsRowsWords
<1>5. CASE insertrow(p)
  <2> DEFINE at == IF Selected = {} THEN InfoOf(ut, p).row ELSE ut.cellsRange.beginRow
  <2>1. ut' = Again(ut, Height, "insertRow", at)
    BY <1>5 DEF insertrow
  <2>2. at \in 1..(ut.rowsNum + 1)
    BY <1>2
  <2> HIDE DEF at
  <2> QED BY <1>4, <2>1, <2>2
<1>6. CASE insertrownext(p)
  <2> DEFINE info == InfoOf(ut, p)
             at == IF Selected = {} THEN info.row + info.rowSpan ELSE ut.cellsRange.endRow + 1
  <2>1. ut' = Again(ut, Height, "insertRow", at)
    BY <1>6 DEF insertrownext
  <2>2. at \in 1..(ut.rowsNum + 1)
    BY <1>2
  <2> HIDE DEF at
  <2> QED BY <1>4, <2>1, <2>2
<1> QED BY <1>5, <1>6

\* A selection has its first column in the table.
LEMMA ChosenColumn ==
  ASSUME TableOk(ut), MarkOk(ut), ut.state = "ready", Tiled(ut), NEW p, CaretIn(p)
  PROVE  FirstColumn(p) \in Nat \ {0} /\ ColumnBehind(p) \in Nat \ {0}
<1>1. CASE Selected = {}
  <2> DEFINE info == InfoOf(ut, p)
  <2>1. InTable(info, ut.rowsNum, ut.colsNum)
    BY <1>1, CaretCell
  <2>2. FirstColumn(p) = info.col /\ ColumnBehind(p) = info.col + info.colSpan
    BY <1>1 DEF FirstColumn, ColumnBehind
  <2> HIDE DEF info
  <2>3. info.col \in Nat \ {0} /\ info.colSpan \in Nat \ {0}
    BY <2>1 DEF InTable
  <2> QED BY <2>2, <2>3
<1>2. CASE Selected # {}
  <2> DEFINE q == ut.cellsRange
  <2>1. RangeIn(q, ut.rowsNum, ut.colsNum)
    BY <1>2, ChosenRange
  <2>2. FirstColumn(p) = q.beginCol /\ ColumnBehind(p) = q.endCol + 1
    BY <1>2 DEF FirstColumn, ColumnBehind
  <2> HIDE DEF q
  <2>3. q.beginCol \in Nat \ {0} /\ q.endCol \in Nat \ {0}
    BY <2>1 DEF RangeIn
  <2> QED BY <2>2, <2>3
<1> QED BY <1>1, <1>2

\* A caret in a cell is one in a row.
LEMMA CaretRow ==
  ASSUME Tiled(ut), NEW p, CaretIn(p)
  PROVE  \E x \in 1..ut.rowsNum : ut.rows[x] # <<>>
<1>1. ut.rows \in Seq(Seq(Cell)) /\ ut.rowsNum = Len(ut.rows)
  BY DEF Tiled
<1>2. p \in Places(ut.rows)
  <2>1. CASE Selected = {}
    BY <2>1 DEF CaretIn
  <2>2. CASE Selected # {}
    <3>1. Selected \in SUBSET Places(ut.rows)
      BY DEF Selected, Marked
    <3>2. FirstOf(Selected) \in Selected
      BY <1>1, <2>2, <3>1, EndsOf
    <3>3. p = FirstOf(Selected)
      BY <2>2 DEF CaretIn
    <3> QED BY <3>1, <3>2, <3>3
  <2> QED BY <2>1, <2>2
<1>3. PICK r \in 1..Len(ut.rows) : \E i \in 1..Len(ut.rows[r]) : p = <<r, i>>
  BY <1>1, <1>2, PlacesAre
<1>4. PICK i \in 1..Len(ut.rows[r]) : p = <<r, i>>
  BY <1>3
<1>5. ut.rows[r] # <<>>
  BY <1>4
<1> QED BY <1>1, <1>5

\* and so does putting columns in.
LEMMA ColsInKeep ==
  ASSUME TableOk(ut), MarkOk(ut), ut.state = "ready", Tiled(ut), NEW p, insertcol(p) \/ insertcolnext(p)
  PROVE  Retains(ut'.rows, ut.rows)
<1>1. CaretIn(p)
  BY DEF insertcol, insertcolnext
<1>2. PICK at \in Nat \ {0} : ut' = Again(ut, Width, "insertCol", at)
  <2>1. FirstColumn(p) \in Nat \ {0} /\ ColumnBehind(p) \in Nat \ {0}
    BY <1>1, ChosenColumn
  <2>2. CASE insertcol(p)
    <3>1. ut' = Again(ut, Width, "insertCol", FirstColumn(p))
      BY <2>2 DEF insertcol
    <3> QED BY <2>1, <3>1
  <2>3. CASE insertcolnext(p)
    <3>1. ut' = Again(ut, Width, "insertCol", ColumnBehind(p))
      BY <2>3 DEF insertcolnext
    <3> QED BY <2>1, <3>1
  <2> QED BY <2>2, <2>3
<1>3. Loose(ut) /\ TableRec(ut) /\ ut.rows \in Seq(Seq(Cell))
  <2>1. PICK x \in 1..ut.rowsNum : ut.rows[x] # <<>>
    BY <1>1, CaretRow
  <2> QED BY <2>1, TiledLoose DEF TableOk, Tiled
<1>4. CASE Width \in Nat
  <2>1. OnTheWay(ut', ut)
    BY <1>2, <1>3, <1>4, InsColsCover
  <2>2. RowsCover(ut'.rows, ut.rows)
    BY <2>1 DEF OnTheWay
  <2> QED BY <2>2, CoverKeeps
<1>5. CASE Width \notin Nat
  <2>1. ut' = ut
    BY <1>2, <1>5 DEF Again
  <2> QED BY <1>3, <2>1, KeepsSelf
<1> QED BY <1>4, <1>5

\* Merging a cell with a neighbour loses no word.
LEMMA MergesKeep ==
  ASSUME Tiled(ut), NEW p, mergeright(p) \/ mergedown(p)
  PROVE  Retains(ut'.rows, ut.rows)
<1>1. ut.rows \in Seq(Seq(Cell)) /\ ut.rowsNum = Len(ut.rows)
  BY DEF Tiled
<1>2. p \in Places(ut.rows)
  BY DEF mergeright, mergedown, CaretIn
<1>3. PICK r \in 1..Len(ut.rows) : \E i \in 1..Len(ut.rows[r]) : p = <<r, i>>
  BY <1>1, <1>2, PlacesAre
<1>4. PICK i \in 1..Len(ut.rows[r]) : p = <<r, i>>
  BY <1>3
<1> DEFINE info == InfoOf(ut, p)
<1>5. CASE mergeright(p)
  <2>1. info.col + info.colSpan <= ut.colsNum /\ ut' = mergeRight(ut, p)
    BY <1>5 DEF mergeright
  <2> QED BY <1>1, <1>4, <2>1, MergeTwoKeeps
<1>6. CASE mergedown(p)
  <2>1. info.row + info.rowSpan <= ut.rowsNum /\ ut' = mergeDown(ut, p)
    BY <1>6 DEF mergedown
  <2> QED BY <1>1, <1>4, <2>1, MergeTwoKeeps
<1> QED BY <1>5, <1>6

\* Splitting one, too.
LEMMA SplitKeeps ==
  ASSUME Tiled(ut), NEW p, splittocells(p) \/ splittorows(p) \/ splittocols(p)
  PROVE  Retains(ut'.rows, ut.rows)
<1>1. p \in Places(ut.rows)
  BY DEF splittocells, splittorows, splittocols, CaretIn
<1>2. ut' = splitToCells(ut, p) \/ ut' = splitToRows(ut, p) \/ ut' = splitToCols(ut, p)
  BY DEF splittocells, splittorows, splittocols
<1> QED BY <1>1, <1>2, SplitsKeep

-----------------------------------------------------------------------------
(* Rows and columns taken out leave rows of cells, too.                    *)

(* What is left of the rows while deleteRow goes along row at.             *)
RowsLeft(s, t, at) ==
    /\ DOMAIN s = {"rows", "count", "ok"} /\ s.count \in Int
    /\ s.rows \in Seq(Seq(Cell)) /\ Len(s.rows) = Len(t.rows) /\ Len(s.rows[at]) = Len(t.rows[at])
    /\ \A r \in 1..Len(t.rows) : r < at => s.rows[r] = t.rows[r]

\* In front of a cell getPreviewMergedCellsNum counts some columns.
LEMMA PreviewInt ==
  ASSUME NEW t, Tiled(t), NEW r \in 1..t.rowsNum, NEW c \in 1..t.colsNum, t.index[<<r, c>>].col = c
  PROVE  getPreviewMergedCellsNum(t, r, c) \in Int
<1> DEFINE R == t.rowsNum
           C == t.colsNum
           G == GridOf(t)
           K == ColumnsOf(t)
<1>1. t.rowsNum > 0 /\ c \in Int
  <2>1. t.rowsNum \in Nat /\ t.colsNum \in Nat
    BY DEF Tiled
  <2> QED BY <2>1
<1>2. Standing(t, R, C, G, K)
  BY <1>1, StandingTiled
<1> HIDE DEF G, K
<1>3. TableOf(t, R, C, G, K) /\ \A k \in 1..C : Agrees(t, G, K, r, k)
  BY <1>2 DEF Standing
<1>4. G[r][c].col = c
  BY <1>3 DEF Agrees
<1> DEFINE n == Cardinality({x \in Starts(G, r, C) : x < c})
<1> HIDE DEF R, C
<1>5. n \in Nat /\ getPreviewMergedCellsNum(t, r, c) = (c - 1) - n
  <2>1. r \in 1..R /\ c \in 1..C
    BY DEF R, C
  <2> QED BY <1>3, <1>4, <2>1, PreviewIs
<1> HIDE DEF n
<1> QED BY <1>1, <1>5

\* A sequence with one member replaced.
LEMMA MemberSet ==
  ASSUME NEW S, NEW u \in Seq(S), NEW k \in 1..Len(u), NEW x \in S, NEW v, v = [u EXCEPT ![k] = x]
  PROVE  v \in Seq(S) /\ Len(v) = Len(u) /\ v[k] = x /\ \A j \in 1..Len(u) : j # k => v[j] = u[j]
OBVIOUS

\* So is it after one more cell: its lower part goes to the next row.
LEMMA RowsLeftOn ==
  ASSUME NEW t, Tiled(t), NEW at \in 1..t.rowsNum, NEW c \in 1..t.colsNum,
         NEW info, info = t.index[<<at, c>>], info.row = at, info.col = c, info.rowSpan > 1,
         NEW s, RowsLeft(s, t, at)
  PROVE  RowsLeft(KeepLowerPart(t, at, s, info), t, at)
<1> DEFINE SC == Seq(Cell)
           u == KeepLowerPart(t, at, s, info)
           before == CellsBefore(t, at + 1, info, s.count)
           next == s.rows[at + 1]
           old == s.rows[at][info.cell]
           cut == [s.rows EXCEPT ![at][info.cell].rowSpan = 1]
           rest == [old EXCEPT !.rowSpan = info.rowSpan - 1, !.text = {}]
           put == IF next = <<>> THEN next ELSE InsertAt(next, Max({before, 0}) + 1, rest)
<1>1. t.rows \in Seq(Seq(Cell)) /\ t.rowsNum = Len(t.rows) /\ t.colsNum \in Nat /\ Len(t.rows) \in Nat
  BY RowsTyped DEF Tiled
<1>2. CoversAt(t, info, at, c)
  BY TiledAt
<1>3. info.rowSpan \in Nat \ {0} /\ at + info.rowSpan <= t.rowsNum + 1 /\ info.cell \in 1..Len(t.rows[at])
  BY <1>2 DEF CoversAt
<1>4. at \in 1..Len(s.rows) /\ at + 1 \in 1..Len(s.rows) /\ at + 1 \in 1..t.rowsNum /\ at \in Int
  <2> DEFINE n == Len(t.rows)
  <2>1. Len(s.rows) = n /\ t.rowsNum = n /\ n \in Nat
    BY <1>1 DEF RowsLeft
  <2> HIDE DEF n
  <2>2. at \in 1..n /\ at + 1 \in 1..n
    BY <1>3, <2>1
  <2> QED BY <2>1, <2>2
<1>5. s.rows \in Seq(SC) /\ s.rows \in Seq(Seq(Cell)) /\ info.cell \in 1..Len(s.rows[at]) /\ Len(s.rows) = Len(t.rows)
  BY <1>3 DEF RowsLeft
<1>6. old \in Cell /\ next \in SC /\ Len(next) \in Nat
  BY <1>4, <1>5, RowsTyped
<1>7. before \in Int
  <2>1. t.index[<<at + 1, c>>] = info
    <3>1. at + 1 \in info.row..(info.row + info.rowSpan - 1) /\ c \in info.col..(info.col + info.colSpan - 1)
      <4>1. c \in Int /\ info.colSpan \in Nat \ {0}
        BY <1>1, <1>2 DEF CoversAt
      <4> QED BY <1>3, <1>4, <4>1
    <3> QED BY <1>2, <3>1 DEF CoversAt
  <2>2. getPreviewMergedCellsNum(t, at + 1, c) \in Int
    BY <1>4, <2>1, PreviewInt
  <2>3. c \in Int /\ s.count \in Int
    BY <1>1 DEF RowsLeft
  <2> QED BY <2>2, <2>3 DEF CellsBefore
<1>8. cut \in Seq(SC) /\ Len(cut) = Len(s.rows) /\ Len(cut[at]) = Len(s.rows[at])
      /\ \A r \in 1..Len(s.rows) : r # at => cut[r] = s.rows[r]
  <2> DEFINE x == [old EXCEPT !.rowSpan = 1]
             row == [s.rows[at] EXCEPT ![info.cell] = x]
  <2>1. x \in Cell
    <3>1. 1 \in Nat \ {0}
      OBVIOUS
    <3> QED BY <1>6, <3>1, WithRowSpan
  <2>2. s.rows[at] \in Seq(Cell)
    BY <1>4, <1>5, RowsTyped
  <2>3. cut = [s.rows EXCEPT ![at] = row]
    OBVIOUS
  <2> HIDE DEF x, cut
  <2>4. row \in Seq(Cell) /\ Len(row) = Len(s.rows[at])
    BY <1>5, <2>1, <2>2, MemberSet
  <2>5. row \in SC
    BY <2>4
  <2> HIDE DEF row, SC
  <2>6. cut \in Seq(SC) /\ Len(cut) = Len(s.rows) /\ cut[at] = row
        /\ \A r \in 1..Len(s.rows) : r # at => cut[r] = s.rows[r]
    BY <1>4, <1>5, <2>3, <2>5, MemberSet
  <2> QED BY <2>4, <2>6
<1>9. rest \in Cell
  <2> DEFINE y == [old EXCEPT !.rowSpan = info.rowSpan - 1]
             n == info.rowSpan - 1
  <2>1. n \in Nat \ {0}
    BY <1>3
  <2> HIDE DEF n
  <2>2. [old EXCEPT !.rowSpan = n] \in Cell
    BY <1>6, <2>1, WithRowSpan
  <2>3. [[old EXCEPT !.rowSpan = n] EXCEPT !.text = {}] \in Cell
    BY <2>2, WithText
  <2>4. rest = [[old EXCEPT !.rowSpan = n] EXCEPT !.text = {}]
    BY DEF n
  <2> QED BY <2>3, <2>4
<1>10. before <= Len(next) => put \in SC
  <2> SUFFICES ASSUME before <= Len(next), next # <<>>
               PROVE  InsertAt(next, Max({before, 0}) + 1, rest) \in SC
    BY <1>6
  <2> DEFINE m == Max({before, 0})
  <2> HIDE DEF before, rest, next
  <2>1. m \in {before, 0}
    <3>1. \E y \in {before, 0} : \A z \in {before, 0} : y >= z
      BY <1>7
    <3> QED BY <3>1 DEF Max
  <2>2. m >= 0
    <3>1. \E y \in {before, 0} : \A z \in {before, 0} : y >= z
      BY <1>7
    <3> QED BY <3>1 DEF Max
  <2> HIDE DEF m
  <2>3. m + 1 \in 1..(Len(next) + 1)
    BY <1>6, <1>7, <2>1, <2>2
  <2>4. next \in Seq(Cell)
    BY <1>6
  <2>5. InsertAt(next, m + 1, rest) \in Seq(Cell)
    BY <1>9, <2>3, <2>4, PutIn
  <2> QED BY <2>5 DEF m
<1>11. u = CASE ~s.ok -> s
             [] s.ok /\ before > Len(next) -> [s EXCEPT !.rows = cut, !.ok = FALSE]
             [] s.ok /\ before <= Len(next) -> [s EXCEPT !.rows = [cut EXCEPT ![at + 1] = put], !.count = @ + 1]
  BY DEF KeepLowerPart
<1>12. CASE ~s.ok
  <2>1. u = s
    BY <1>11, <1>12
  <2> QED BY <2>1
<1> HIDE DEF u, before, next, cut, put, old, rest, SC
<1>13. CASE s.ok /\ before > Len(next)
  <2>1. u = [s EXCEPT !.rows = cut, !.ok = FALSE]
    BY <1>6, <1>7, <1>11, <1>13
  <2>2. DOMAIN u = {"rows", "count", "ok"} /\ u.rows = cut /\ u.count = s.count
    BY <2>1 DEF RowsLeft
  <2>3. \A r \in 1..Len(t.rows) : r < at => cut[r] = t.rows[r]
    BY <1>4, <1>5, <1>8 DEF RowsLeft
  <2> QED BY <1>8, <2>2, <2>3 DEF RowsLeft, SC, u
<1>14. CASE s.ok /\ before <= Len(next)
  <2> DEFINE v == [cut EXCEPT ![at + 1] = put]
  <2>1. u = [s EXCEPT !.rows = v, !.count = s.count + 1]
    BY <1>6, <1>7, <1>11, <1>14
  <2>2. at + 1 \in 1..Len(cut) /\ put \in SC
    BY <1>4, <1>8, <1>10, <1>14
  <2>3. v \in Seq(SC) /\ Len(v) = Len(cut) /\ \A j \in 1..Len(cut) : j # at + 1 => v[j] = cut[j]
    BY <1>8, <2>2, MemberSet
  <2> HIDE DEF v
  <2>4. DOMAIN u = {"rows", "count", "ok"} /\ u.rows = v /\ u.count = s.count + 1
    BY <2>1 DEF RowsLeft
  <2>5. u.count \in Int
    BY <2>4 DEF RowsLeft
  <2>6. \A r \in 1..Len(t.rows) : r < at => v[r] = t.rows[r]
    <3>1. ASSUME NEW r \in 1..Len(t.rows), r < at
          PROVE  v[r] = t.rows[r]
      <4>1. r \in 1..Len(cut) /\ r # at + 1 /\ r # at
        BY <1>4, <1>5, <1>8, <3>1
      <4>2. v[r] = cut[r] /\ cut[r] = s.rows[r]
        BY <1>8, <2>3, <4>1
      <4> QED BY <3>1, <4>2 DEF RowsLeft
    <3> QED BY <3>1
  <2>7. Len(v[at]) = Len(t.rows[at])
    <3>1. at \in 1..Len(cut) /\ at # at + 1
      BY <1>4, <1>8
    <3> QED BY <1>8, <2>3, <3>1 DEF RowsLeft
  <2> QED BY <1>8, <2>3, <2>4, <2>5, <2>6, <2>7 DEF RowsLeft, SC, u
<1>15. CASE s.ok /\ ~(before <= Len(next)) /\ ~(before > Len(next))
  BY <1>6, <1>7, <1>15
<1> QED BY <1>12, <1>13, <1>14, <1>15 DEF u

\* So is it after all of the row.
LEMMA RowsLeftAll ==
  ASSUME NEW t, Tiled(t), NEW at \in 1..t.rowsNum
  PROVE  RowsLeft(KeepLowerParts(t, at), t, at)
<1> DEFINE C == t.colsNum
<1>1. t.rows \in Seq(Seq(Cell)) /\ C \in Nat /\ t.colsNum = C
  BY DEF Tiled
<1>2. PICK keep : KeepSteps(keep, t, at)
  BY <1>1, KeepStepsAre
<1>3. KeepLowerParts(t, at) = keep[C]
  BY <1>2 DEF KeepSteps
<1> DEFINE ok == {n \in Nat : n <= C => RowsLeft(keep[n], t, at)}
<1>4. 0 \in ok
  <2> DEFINE s == [rows |-> t.rows, count |-> 0, ok |-> TRUE]
  <2>1. 0 \in 0..C
    BY <1>1
  <2>2. keep[0] = s
    BY <1>1, <1>2, <2>1 DEF KeepSteps
  <2>3. RowsLeft(s, t, at)
    BY <1>1 DEF RowsLeft
  <2> QED BY <2>2, <2>3
<1>5. ASSUME NEW n \in Nat, n \in ok
      PROVE  n + 1 \in ok
  <2> SUFFICES ASSUME n + 1 <= C
               PROVE  RowsLeft(keep[n + 1], t, at)
    OBVIOUS
  <2> DEFINE k == n + 1
             info == t.index[<<at, k>>]
  <2>1. k \in 1..C /\ k \in 0..C /\ k # 0 /\ k - 1 = n /\ n <= C
    BY <1>1
  <2>2. RowsLeft(keep[n], t, at)
    BY <1>5, <2>1
  <2> HIDE DEF k
  <2>3. keep[k] = IF info.row = at /\ info.col = k /\ info.rowSpan > 1
                  THEN KeepLowerPart(t, at, keep[n], info) ELSE keep[n]
    BY <1>1, <1>2, <2>1 DEF KeepSteps
  <2>4. RowsLeft(keep[k], t, at)
    <3>1. CASE info.row = at /\ info.col = k /\ info.rowSpan > 1
      <4>1. k \in 1..t.colsNum
        BY <2>1
      <4>2. RowsLeft(KeepLowerPart(t, at, keep[n], info), t, at)
        BY <2>2, <3>1, <4>1, RowsLeftOn
      <4> QED BY <2>3, <3>1, <4>2
    <3>2. CASE ~(info.row = at /\ info.col = k /\ info.rowSpan > 1)
      BY <2>2, <2>3, <3>2
    <3> QED BY <3>1, <3>2
  <2> QED BY <2>4 DEF k
<1> HIDE DEF ok
<1>6. C \in ok
  BY <1>1, <1>4, <1>5, NatInSet
<1> QED BY <1>1, <1>3, <1>6 DEF ok

\* A row taken out leaves rows of cells, and one row less at most.
LEMMA DelRowTyped ==
  ASSUME NEW t, Tiled(t), TableRec(t), NEW at \in 1..t.rowsNum, NEW u, u = deleteRow(t, at)
  PROVE  /\ TableRec(u) /\ u.rows \in Seq(Seq(Cell))
         /\ u.state = "thrown" \/ u.rowsNum >= t.rowsNum - 1
<1> DEFINE s == KeepLowerParts(t, at)
           reaching == {<<info.row, info.cell>> : info \in {t.index[<<at, c>>] : c \in 1..t.colsNum}}
           shorter == [r \in DOMAIN s.rows |-> [i \in DOMAIN s.rows[r] |->
                          IF r < at /\ <<r, i>> \in reaching THEN [s.rows[r][i] EXCEPT !.rowSpan = @ - 1]
                                                             ELSE s.rows[r][i]]]
           rows == RemoveAt(shorter, at)
           SC == Seq(Cell)
<1>1. t.rows \in Seq(Seq(Cell)) /\ t.rowsNum = Len(t.rows) /\ Len(t.rows) \in Nat
  BY RowsTyped DEF Tiled
<1>2. RowsLeft(s, t, at)
  BY RowsLeftAll
<1>3. u = IF s.ok THEN update(rows) ELSE Throw(t, s.rows)
  BY DEF deleteRow
<1>4. \A r \in DOMAIN s.rows : shorter[r] = [i \in DOMAIN s.rows[r] |->
          IF r < at /\ <<r, i>> \in reaching THEN [s.rows[r][i] EXCEPT !.rowSpan = @ - 1] ELSE s.rows[r][i]]
  OBVIOUS
<1>5. shorter = [r \in DOMAIN s.rows |-> shorter[r]]
  OBVIOUS
<1>6. ASSUME NEW a, NEW b, <<a, b>> \in reaching
      PROVE  \E c \in 1..t.colsNum : t.index[<<at, c>>].row = a /\ t.index[<<at, c>>].cell = b
  BY <1>6
<1> HIDE DEF s, reaching, shorter
<1>7. s.rows \in Seq(Seq(Cell)) /\ Len(s.rows) = Len(t.rows) /\ DOMAIN s.rows = 1..Len(s.rows)
      /\ \A r \in 1..Len(s.rows) : DOMAIN s.rows[r] = 1..Len(s.rows[r])
  BY <1>2, RowsTyped DEF RowsLeft
<1>8. ASSUME NEW r \in DOMAIN s.rows, NEW i \in DOMAIN s.rows[r]
      PROVE  shorter[r][i] \in Cell
  <2> DEFINE x == s.rows[r][i]
             n == x.rowSpan - 1
  <2>1. x \in Cell
    BY <1>7, RowsTyped
  <2>2. shorter[r][i] = IF r < at /\ <<r, i>> \in reaching THEN [x EXCEPT !.rowSpan = n] ELSE x
    BY <1>4
  <2>3. ASSUME r < at, <<r, i>> \in reaching
        PROVE  n \in Nat \ {0}
    <3>1. PICK c \in 1..t.colsNum : t.index[<<at, c>>].row = r /\ t.index[<<at, c>>].cell = i
      BY <1>6, <2>3
    <3> DEFINE j == t.index[<<at, c>>]
    <3>2. CoversAt(t, j, at, c)
      BY TiledAt
    <3>3. j.rowSpan = t.rows[r][i].rowSpan /\ j.rowSpan \in Nat \ {0} /\ at < r + j.rowSpan
      BY <3>1, <3>2 DEF CoversAt, CellOf
    <3>4. s.rows[r] = t.rows[r]
      BY <1>2, <1>7, <2>3 DEF RowsLeft
    <3> HIDE DEF j
    <3>5. x.rowSpan = j.rowSpan /\ r \in Int /\ at \in Int
      BY <1>1, <1>7, <3>3, <3>4
    <3> QED BY <2>3, <3>3, <3>5
  <2> HIDE DEF n, x
  <2> QED BY <2>1, <2>2, <2>3, WithRowSpan
<1>9. shorter \in Seq(Seq(Cell)) /\ Len(shorter) = Len(s.rows)
  <2>1. \A r \in DOMAIN s.rows : shorter[r] = [i \in DOMAIN s.rows[r] |-> shorter[r][i]]
    BY <1>4
  <2>2. s.rows \in Seq(Seq(Cell)) /\ \A r \in DOMAIN s.rows : \A i \in DOMAIN s.rows[r] : shorter[r][i] \in Cell
    BY <1>7, <1>8
  <2> QED BY <1>5, <2>1, <2>2, RowsChanged
<1>10. rows \in Seq(SC) /\ Len(rows) = Len(t.rows) - 1
  <2>1. shorter \in Seq(SC) /\ at \in 1..Len(shorter)
    BY <1>1, <1>7, <1>9
  <2> HIDE DEF SC
  <2> QED BY <1>7, <1>9, <2>1, TakenOut
<1> HIDE DEF rows
<1>11. CASE s.ok
  <2>1. u = update(rows) /\ rows \in Seq(Seq(Cell))
    BY <1>3, <1>10, <1>11
  <2>2. Retains(u.rows, rows) /\ u.rowsNum = Len(u.rows) /\ Len(rows) <= Len(u.rows)
    BY <2>1, UpdateKeeps
  <2>3. TableRec(u)
    BY <2>1, UpdateRebuilds DEF Rebuilds
  <2>4. u.rowsNum >= t.rowsNum - 1
    <3>1. Len(u.rows) \in Nat
      BY <2>2, RowsTyped DEF Retains
    <3> QED BY <1>1, <1>10, <2>2, <3>1
  <2> QED BY <2>2, <2>3, <2>4 DEF Retains
<1>12. CASE ~s.ok
  <2>1. u = Throw(t, s.rows)
    BY <1>3, <1>12
  <2>2. TableRec(u) /\ u.rows = s.rows /\ u.state = "thrown"
    BY <2>1 DEF Throw, TableRec
  <2> QED BY <1>7, <2>2
<1> QED BY <1>11, <1>12

(* After k rows are taken out, if it comes that far.                       *)
RowsAway(u, R, k) ==
    /\ TableRec(u) /\ u.rows \in Seq(Seq(Cell))
    /\ u.state # "thrown" /\ Tiled(u) => u.rowsNum >= R - k

\* Rows taken out one after the other.
LEMMA DelRowsTyped ==
  ASSUME NEW t, Tiled(t), TableRec(t), NEW at \in 1..t.rowsNum, NEW n \in Nat, at + n - 1 <= t.rowsNum
  PROVE  LET u == Again(t, n, "deleteRow", at) IN TableRec(u) /\ u.rows \in Seq(Seq(Cell))
<1> DEFINE R == t.rowsNum
<1>1. PICK f : CallSteps(f, t, n, "deleteRow", at)
  BY AgainIs
<1>2. Again(t, n, "deleteRow", at) = f[n] /\ f[0] = t
  BY <1>1 DEF CallSteps
<1>3. t.rows \in Seq(Seq(Cell)) /\ R \in Nat
  BY RowsTyped DEF Tiled
<1> DEFINE ok == {k \in Nat : k <= n => RowsAway(f[k], R, k)}
<1>4. 0 \in ok
  BY <1>2, <1>3 DEF RowsAway
<1>5. ASSUME NEW k \in Nat, k \in ok
      PROVE  k + 1 \in ok
  <2> SUFFICES ASSUME k + 1 <= n
               PROVE  RowsAway(f[k + 1], R, k + 1)
    OBVIOUS
  <2> DEFINE u == f[k]
             v == f[k + 1]
  <2>1. RowsAway(u, R, k)
    BY <1>5
  <2>2. v = IF u.state = "thrown" \/ ~Tiled(u) THEN u ELSE Call("deleteRow", u, at)
    <3>1. k + 1 \in Nat /\ k + 1 # 0 /\ (k + 1) - 1 = k
      OBVIOUS
    <3> QED BY <1>1, <3>1 DEF CallSteps
  <2> HIDE DEF u, v
  <2>3. CASE u.state = "thrown" \/ ~Tiled(u)
    <3>1. v = u
      BY <2>2, <2>3
    <3>2. RowsAway(v, R, k + 1)
      BY <2>1, <2>3, <3>1 DEF RowsAway
    <3> QED BY <3>2 DEF v
  <2>4. CASE u.state # "thrown" /\ Tiled(u)
    <3>1. TableRec(u) /\ u.rowsNum >= R - k
      BY <2>1, <2>4 DEF RowsAway
    <3>2. v = deleteRow(u, at)
      BY <2>2, <2>4 DEF Call
    <3>3. u.rowsNum \in Nat /\ at \in 1..u.rowsNum
      <4>1. u.rowsNum \in Nat
        BY <2>4, RowsTyped DEF Tiled
      <4> QED BY <1>3, <3>1, <4>1
    <3>4. TableRec(v) /\ v.rows \in Seq(Seq(Cell)) /\ (v.state = "thrown" \/ v.rowsNum >= u.rowsNum - 1)
      BY <2>4, <3>1, <3>2, <3>3, DelRowTyped
    <3>5. v.state # "thrown" /\ Tiled(v) => v.rowsNum >= R - (k + 1)
      <4> SUFFICES ASSUME v.state # "thrown", Tiled(v)
                   PROVE  v.rowsNum >= R - (k + 1)
        OBVIOUS
      <4>1. v.rowsNum \in Nat
        BY RowsTyped DEF Tiled
      <4> QED BY <1>3, <3>1, <3>3, <3>4, <4>1
    <3>6. RowsAway(v, R, k + 1)
      BY <3>4, <3>5 DEF RowsAway
    <3> QED BY <3>6 DEF v
  <2> QED BY <2>3, <2>4
<1> HIDE DEF ok
<1>6. n \in ok
  BY <1>4, <1>5, NatInSet
<1> QED BY <1>2, <1>6 DEF ok, RowsAway

\* A column taken out leaves rows of cells, and one column less.
LEMMA DelColTyped ==
  ASSUME NEW t, Tiled(t), t.rowsNum > 0, NEW at \in 1..t.colsNum, NEW u, u = deleteCol(t, at)
  PROVE  /\ TableRec(u) /\ Tiled(u) /\ u.rows \in Seq(Seq(Cell)) /\ u.rowsNum = t.rowsNum
         /\ u.state = "ready" /\ u.colsNum = t.colsNum - 1
<1> DEFINE R == t.rowsNum
           C == t.colsNum
           G == GridOf(t)
           K == ColumnsOf(t)
           D == DelColGrid(G, R, C, at)
<1>1. /\ TableOf(t, R, C, G, K)
      /\ \A r \in 1..R : \A i \in 1..Len(t.rows[r]) : Stands(t, R, C, G, K, r, i)
  BY TableOfTiled
<1> HIDE DEF G, K
<1>2. PICK rows : u = update(rows) /\ Lays(rows, C - 1, {}, D) /\ Len(rows) = R
  BY <1>1, DelColLays
<1>3. LooksLike(u, rows, C - 1, D)
  BY <1>2, UpdateLays
<1>4. Tiled(u) /\ u.state = "ready" /\ u.rowsNum = R /\ u.colsNum = C - 1
  BY <1>2, <1>3 DEF LooksLike
<1>5. TableRec(u)
  BY <1>2, UpdateRebuilds DEF Rebuilds
<1> QED BY <1>4, <1>5 DEF Tiled

(* After k columns are taken out.                                          *)
ColsAway(u, C, k) ==
    TableRec(u) /\ Tiled(u) /\ u.rowsNum > 0 /\ u.state = "ready" /\ u.colsNum = C - k

\* Columns taken out one after the other.
LEMMA DelColsTyped ==
  ASSUME NEW t, Tiled(t), TableRec(t), t.state = "ready", t.rowsNum > 0,
         NEW at \in Nat \ {0}, NEW n \in Nat, at + n - 1 <= t.colsNum
  PROVE  LET u == Again(t, n, "deleteCol", at) IN TableRec(u) /\ u.rows \in Seq(Seq(Cell))
<1> DEFINE C == t.colsNum
<1>1. PICK f : CallSteps(f, t, n, "deleteCol", at)
  BY AgainIs
<1>2. Again(t, n, "deleteCol", at) = f[n] /\ f[0] = t
  BY <1>1 DEF CallSteps
<1>3. C \in Nat
  BY DEF Tiled
<1> DEFINE ok == {k \in Nat : k <= n => ColsAway(f[k], C, k)}
<1>4. 0 \in ok
  BY <1>2, <1>3 DEF ColsAway
<1>5. ASSUME NEW k \in Nat, k \in ok
      PROVE  k + 1 \in ok
  <2> SUFFICES ASSUME k + 1 <= n
               PROVE  ColsAway(f[k + 1], C, k + 1)
    OBVIOUS
  <2> DEFINE u == f[k]
             v == f[k + 1]
  <2>1. ColsAway(u, C, k)
    BY <1>5
  <2>2. v = IF u.state = "thrown" \/ ~Tiled(u) THEN u ELSE Call("deleteCol", u, at)
    <3>1. k + 1 \in Nat /\ k + 1 # 0 /\ (k + 1) - 1 = k
      OBVIOUS
    <3> QED BY <1>1, <3>1 DEF CallSteps
  <2> HIDE DEF u, v
  <2>3. v = deleteCol(u, at)
    BY <2>1, <2>2 DEF Call, ColsAway
  <2>4. Tiled(u) /\ u.rowsNum > 0 /\ u.colsNum = C - k /\ at \in 1..u.colsNum
    BY <1>3, <2>1 DEF ColsAway
  <2>5. TableRec(v) /\ Tiled(v) /\ v.rowsNum = u.rowsNum /\ v.state = "ready" /\ v.colsNum = u.colsNum - 1
    BY <2>3, <2>4, DelColTyped
  <2>6. ColsAway(v, C, k + 1)
    BY <1>3, <2>4, <2>5 DEF ColsAway
  <2> QED BY <2>6 DEF v
<1> HIDE DEF ok
<1>6. n \in ok
  BY <1>4, <1>5, NatInSet
<1>7. ColsAway(f[n], C, n)
  BY <1>6 DEF ok
<1> QED BY <1>2, <1>7 DEF ColsAway, Tiled

\* A table that is removed keeps its rows.
LEMMA KeepTyped ==
  ASSUME NEW u, TableRec(u)
  PROVE  Keep(u).rows = u.rows
BY DEF Keep, TableRec

\* The command that takes rows out leaves rows of cells,
LEMMA RowsOutTyped ==
  ASSUME TableOk(ut), MarkOk(ut), ut.state = "ready", Tiled(ut), NEW p, deleterow(p)
  PROVE  ut'.rows \in Seq(Seq(Cell))
<1> DEFINE at == IF Selected = {} THEN InfoOf(ut, p).row ELSE ut.cellsRange.beginRow
<1>1. CaretIn(p) /\ ut' = Keep(Again(ut, Height, "deleteRow", at))
  BY DEF deleterow
<1>2. at \in 1..ut.rowsNum /\ Height \in Nat /\ at + Height - 1 <= ut.rowsNum
  <2>1. /\ ut.rowsNum \in Nat \ {0} /\ Height \in Nat
        /\ Selected = {} => Height = 1 /\ InfoOf(ut, p).row \in 1..ut.rowsNum
        /\ Selected # {} => /\ ut.cellsRange.beginRow \in 1..ut.rowsNum
                            /\ ut.cellsRange.beginRow + Height - 1 <= ut.rowsNum
    BY <1>1, ChosenRows
  <2>3. CASE Selected = {}
    <3>1. at \in 1..ut.rowsNum /\ Height = 1
      BY <2>1, <2>3
    <3> HIDE DEF at
    <3> QED BY <2>1, <3>1
  <2>4. CASE Selected # {}
    <3>1. at = ut.cellsRange.beginRow
      BY <2>4
    <3> QED BY <2>1, <2>4, <3>1
  <2> QED BY <2>3, <2>4
<1> HIDE DEF at
<1>3. TableRec(Again(ut, Height, "deleteRow", at)) /\ Again(ut, Height, "deleteRow", at).rows \in Seq(Seq(Cell))
  BY <1>2, DelRowsTyped DEF TableOk
<1> QED BY <1>1, <1>3, KeepTyped

\* and so does the one that takes columns out.
LEMMA ColsOutTyped ==
  ASSUME TableOk(ut), MarkOk(ut), ut.state = "ready", Tiled(ut), NEW p, deletecol(p)
  PROVE  ut'.rows \in Seq(Seq(Cell))
<1> DEFINE at == FirstColumn(p)
           C == ut.colsNum
<1>1. CaretIn(p) /\ ut' = Keep(Again(ut, Width, "deleteCol", at))
  BY DEF deletecol
<1>2. TableRec(ut) /\ ut.rows \in Seq(Seq(Cell)) /\ C \in Nat /\ ut.rowsNum > 0
  BY <1>1, CaretCell DEF TableOk, Tiled
<1>3. at \in Nat \ {0} /\ (Width \in Nat => at + Width - 1 <= C)
  <2>1. at \in Nat \ {0}
    BY <1>1, ChosenColumn
  <2>2. CASE Selected = {}
    <3>1. InTable(InfoOf(ut, p), ut.rowsNum, C)
      BY <1>1, <2>2, CaretCell
    <3>2. at = InfoOf(ut, p).col /\ Width = 1
      BY <2>2 DEF FirstColumn, Width
    <3>3. at \in 1..C
      BY <3>1, <3>2 DEF InTable
    <3> HIDE DEF at, C
    <3> QED BY <1>2, <3>2, <3>3
  <2>3. CASE Selected # {}
    <3> DEFINE q == ut.cellsRange
    <3>1. RangeIn(q, ut.rowsNum, C)
      BY <1>1, <2>3, ChosenRange
    <3>2. at = q.beginCol /\ Width = q.endCol - q.beginCol + 1
      BY <2>3 DEF FirstColumn, Width
    <3>3. q.beginCol \in 1..C /\ q.endCol \in 1..C
      BY <3>1 DEF RangeIn
    <3> HIDE DEF at, C, q
    <3> QED BY <1>2, <3>2, <3>3
  <2> QED BY <2>2, <2>3
<1> HIDE DEF at, C
<1>4. TableRec(Again(ut, Width, "deleteCol", at)) /\ Again(ut, Width, "deleteCol", at).rows \in Seq(Seq(Cell))
  <2>1. CASE Width \in Nat
    BY <1>2, <1>3, <2>1, DelColsTyped DEF C
  <2>2. CASE Width \notin Nat
    <3>1. Again(ut, Width, "deleteCol", at) = ut
      BY <2>2 DEF Again
    <3> QED BY <1>2, <3>1
  <2> QED BY <2>1, <2>2
<1> QED BY <1>1, <1>4, KeepTyped

(* A step loses no word unless it is asked to.                             *)
LosesNone ==
    \/ WordsIn(ut) \subseteq WordsIn(ut')
    \/ DelCells \/ deletetable
    \/ \E p \in TablePlaces : deleterow(p) \/ deletecol(p)

\* Clearing cells leaves rows of cells.
LEMMA ClearTyped ==
  ASSUME TableRec(ut), Tiled(ut), DelCells
  PROVE  ut'.rows \in Seq(Seq(Cell))
<1> DEFINE rows == ut.rows
           w == [r \in DOMAIN rows |-> [i \in DOMAIN rows[r] |->
                    IF rows[r][i].selected THEN [rows[r][i] EXCEPT !.text = {}] ELSE rows[r][i]]]
<1>1. rows \in Seq(Seq(Cell)) /\ DOMAIN rows = 1..Len(rows)
      /\ \A r \in 1..Len(rows) : DOMAIN rows[r] = 1..Len(rows[r])
  BY RowsTyped DEF Tiled
<1>2. ut'.rows = w
  BY DEF DelCells, TableRec
<1>3. /\ w = [r \in DOMAIN rows |-> w[r]]
      /\ \A r \in DOMAIN rows : w[r] = [i \in DOMAIN rows[r] |-> w[r][i]]
      /\ \A r \in DOMAIN rows : \A i \in DOMAIN rows[r] :
            w[r][i] = IF rows[r][i].selected THEN [rows[r][i] EXCEPT !.text = {}] ELSE rows[r][i]
  OBVIOUS
<1> HIDE DEF w
<1>4. ASSUME NEW r \in DOMAIN rows, NEW i \in DOMAIN rows[r]
      PROVE  w[r][i] \in Cell
  <2>1. rows[r][i] \in Cell
    BY <1>1, RowsTyped
  <2>2. [rows[r][i] EXCEPT !.text = {}] \in Cell
    <3>1. {} \in SUBSET Words
      OBVIOUS
    <3> QED BY <2>1, <3>1, WithText
  <2> QED BY <1>3, <2>1, <2>2
<1> HIDE DEF rows
<1>5. w \in Seq(Seq(Cell))
  BY <1>1, <1>3, <1>4, RowsChanged
<1> QED BY <1>2, <1>5

\* A new table is made of rows of cells.
LEMMA NewTyped ==
  ASSUME NEW n \in 1..MaxRows, NEW m \in 1..MaxCols, inserttable(n, m)
  PROVE  ut'.rows \in Seq(Seq(Cell))
<1> DEFINE row == [c \in 1..m |-> BlankCell]
           rows == [r \in 1..n |-> row]
<1>1. n \in Nat /\ m \in Nat
  BY SizeAssumption
<1>2. row \in Seq(Cell)
  <2>1. row \in [1..m -> Cell]
    BY BlankIs
  <2> HIDE DEF row
  <2> QED BY <1>1, <2>1, FcnIsSeq
<1>3. rows \in Seq(Seq(Cell))
  <2> HIDE DEF row
  <2>1. rows \in [1..n -> Seq(Cell)]
    BY <1>2
  <2> HIDE DEF rows
  <2> QED BY <1>1, <2>1, FcnIsSeq
<1>4. ut' = update(rows)
  BY DEF inserttable
<1> HIDE DEF rows
<1> QED BY <1>3, <1>4, UpdateKeeps DEF Retains

\* No command on a table loses a word that is not asked to delete or to clear,
\* or leaves anything else than rows of cells.
LEMMA CommandKeeps ==
  ASSUME TableOk(ut), MarkOk(ut), ut.rows \in Seq(Seq(Cell)), Followed, TableCommand
  PROVE  LosesNone /\ ut'.rows \in Seq(Seq(Cell))
<1>0. TableRec(ut) /\ (ut.state = "ready" => Tiled(ut))
  BY DEF TableOk, Followed
<1>a. ASSUME Retains(ut'.rows, ut.rows)
      PROVE  LosesNone /\ ut'.rows \in Seq(Seq(Cell))
  BY <1>a, WordsHeld DEF LosesNone, Retains
<1>2. CASE SelectCells
  BY <1>0, <1>a, <1>2, SelectKeeps
<1>3. ASSUME NEW p \in TablePlaces, NEW w \in Words, TypeWord(p, w)
      PROVE  LosesNone /\ ut'.rows \in Seq(Seq(Cell))
  <2>1. ut.state = "ready"
    BY <1>3 DEF TypeWord, CaretIn
  <2>2. Retains(ut'.rows, ut.rows)
    BY <1>0, <1>3, <2>1, TypeKeeps
  <2> QED BY <1>a, <2>2
<1>4. CASE DelCells
  <2>1. ut.state = "ready"
    BY <1>4 DEF DelCells
  <2>2. ut'.rows \in Seq(Seq(Cell))
    BY <1>0, <1>4, <2>1, ClearTyped
  <2> QED BY <1>4, <2>2 DEF LosesNone
<1>5. ASSUME NEW p \in TablePlaces, deleterow(p) \/ deletecol(p)
      PROVE  LosesNone /\ ut'.rows \in Seq(Seq(Cell))
  <2>1. ut.state = "ready"
    BY <1>5 DEF deleterow, deletecol, CaretIn
  <2>2. ut'.rows \in Seq(Seq(Cell))
    BY <1>0, <1>5, <2>1, RowsOutTyped, ColsOutTyped
  <2> QED BY <1>5, <2>2 DEF LosesNone
<1>6. CASE mergecells
  <2>1. ut.state = "ready" /\ Selected # {} /\ ut' = mergeRange(ut)
    BY <1>6 DEF mergecells
  <2> DEFINE q == ut.cellsRange
  <2>2. Tiled(ut) /\ RangeIn(q, ut.rowsNum, ut.colsNum)
    BY <1>0, <2>1, ChosenRange
  <2>3. Retains(mergeRange(ut).rows, ut.rows)
    BY <1>0, <2>2, MergeKeeps
  <2> QED BY <1>a, <2>1, <2>3
<1>7. CASE sorttable
  <2>1. ut.state = "ready"
    BY <1>7 DEF sorttable
  <2> QED BY <1>0, <1>a, <1>7, <2>1, SortKeeps
<1>8. ASSUME NEW p \in TablePlaces, mergeright(p) \/ mergedown(p)
      PROVE  LosesNone /\ ut'.rows \in Seq(Seq(Cell))
  <2>1. ut.state = "ready"
    BY <1>8 DEF mergeright, mergedown, CaretIn
  <2>2. Retains(ut'.rows, ut.rows)
    BY <1>0, <1>8, <2>1, MergesKeep
  <2> QED BY <1>a, <2>2
<1>9. ASSUME NEW p \in TablePlaces, insertrow(p) \/ insertrownext(p)
      PROVE  LosesNone /\ ut'.rows \in Seq(Seq(Cell))
  <2>1. ut.state = "ready"
    BY <1>9 DEF insertrow, insertrownext, CaretIn
  <2>2. Retains(ut'.rows, ut.rows)
    BY <1>0, <1>9, <2>1, RowsInKeep
  <2> QED BY <1>a, <2>2
<1>10. ASSUME NEW p \in TablePlaces, insertcol(p) \/ insertcolnext(p)
       PROVE  LosesNone /\ ut'.rows \in Seq(Seq(Cell))
  <2>1. ut.state = "ready"
    BY <1>10 DEF insertcol, insertcolnext, CaretIn
  <2>2. Retains(ut'.rows, ut.rows)
    BY <1>0, <1>10, <2>1, ColsInKeep
  <2> QED BY <1>a, <2>2
<1>11. ASSUME NEW p \in TablePlaces, splittocells(p) \/ splittorows(p) \/ splittocols(p)
       PROVE  LosesNone /\ ut'.rows \in Seq(Seq(Cell))
  <2>1. ut.state = "ready"
    BY <1>11 DEF splittocells, splittorows, splittocols, CaretIn
  <2>2. Retains(ut'.rows, ut.rows)
    BY <1>0, <1>11, <2>1, SplitKeeps
  <2> QED BY <1>a, <2>2
<1> QED BY <1>2, <1>3, <1>4, <1>5, <1>6, <1>7, <1>8, <1>9, <1>10, <1>11 DEF TableCommand

\* No step loses a word unasked, or leaves anything else than rows of cells.
LEMMA WordsStep ==
  ASSUME TableOk(ut), MarkOk(ut), NoneOk(ut), ut.rows \in Seq(Seq(Cell)), [TableNext]_ut
  PROVE  LosesNone /\ ut'.rows \in Seq(Seq(Cell))
<1>1. ASSUME NEW n \in 1..MaxRows, NEW m \in 1..MaxCols, inserttable(n, m)
      PROVE  LosesNone /\ ut'.rows \in Seq(Seq(Cell))
  <2>1. Places(ut.rows) = {}
    BY <1>1 DEF inserttable, NoneOk
  <2>2. WordsIn(ut) = {}
    BY <2>1 DEF WordsIn
  <2>3. ut'.rows \in Seq(Seq(Cell))
    BY <1>1, NewTyped
  <2> QED BY <2>2, <2>3 DEF LosesNone
<1>2. CASE deletetable
  <2>1. ut'.rows = <<>>
    BY <1>2 DEF deletetable, NoTable
  <2> QED BY <1>2, <2>1 DEF LosesNone
<1>3. CASE Followed /\ TableCommand
  BY <1>3, CommandKeeps
<1>4. CASE UNCHANGED ut
  BY <1>4 DEF WordsIn, LosesNone
<1> QED BY <1>1, <1>2, <1>3, <1>4 DEF TableNext

\* On a page without a table there is no cell.
THEOREM TableStaysNone == TableSpec => []NoneOk(ut)
<1>1. TableInit => NoneOk(ut)
  BY DEF TableInit, NoTable, NoneOk, Places
<1>2. TableOk(ut) /\ NoneOk(ut) /\ [TableNext]_ut => NoneOk(ut)'
  <2> SUFFICES ASSUME TableOk(ut), NoneOk(ut), [TableNext]_ut
               PROVE  NoneOk(ut')
    BY DEF NoneOk
  <2> QED BY NoneOkStep DEF TableOk
<1> QED BY <1>1, <1>2, TableStaysOk, PTL DEF TableSpec

\* The table is made of rows of cells, whatever is done to it.
THEOREM TableStaysTyped == TableSpec => [](ut.rows \in Seq(Seq(Cell)))
<1>1. TableInit => ut.rows \in Seq(Seq(Cell))
  BY DEF TableInit, NoTable
<1>2. /\ TableOk(ut) /\ MarkOk(ut) /\ NoneOk(ut) /\ ut.rows \in Seq(Seq(Cell)) /\ [TableNext]_ut
      => (ut.rows \in Seq(Seq(Cell)))'
  BY WordsStep
<1> QED BY <1>1, <1>2, TableStaysMarked, TableStaysNone, PTL DEF TableSpec

\* No command loses what was typed, but those that are asked to: clearing cells,
\* deleting rows, columns or the table.
THEOREM TableWordsKept == TableSpec => WordsKept
<1>1. TableOk(ut) /\ MarkOk(ut) /\ NoneOk(ut) /\ ut.rows \in Seq(Seq(Cell)) /\ [TableNext]_ut =>
        [\/ WordsIn(ut) \subseteq WordsIn(ut')
         \/ DelCells \/ deletetable
         \/ \E p \in TablePlaces : deleterow(p) \/ deletecol(p)]_ut
  BY WordsStep DEF LosesNone
<1> QED BY <1>1, TableStaysMarked, TableStaysNone, TableStaysTyped, PTL DEF TableSpec, WordsKept
=============================================================================
