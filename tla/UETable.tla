------------------------------ MODULE UETable ------------------------------
(***************************************************************************)
(* One table of the rich text editor: the rows and cells of the page, the  *)
(* index the editor keeps of them (plugins/table.core.js) and the commands *)
(* of table.cmds.js.  Every cell is a td; rows, cells and columns are      *)
(* counted from 1.                                                         *)
(***************************************************************************)
EXTENDS Integers, Sequences, SequencesExt, FiniteSetsExt

CONSTANTS
    MaxRows, MaxCols,   \* bound of the model: no insertion makes a table larger
    Words               \* what a user may type into a cell

ASSUME SizeAssumption == {MaxRows, MaxCols} \subseteq Nat \ {0}

VARIABLE
    ut      \* the table and its UETable object

Cell == [rowSpan : Nat \ {0}, colSpan : Nat \ {0}, text : SUBSET Words, selected : BOOLEAN]

BlankCell == [rowSpan |-> 1, colSpan |-> 1, text |-> {}, selected |-> FALSE]

NoRange == [none |-> TRUE]

NoTable == [rows |-> <<>>, index |-> <<>>, rowsNum |-> 0, colsNum |-> 0, cellsRange |-> NoRange, state |-> "none"]

(* What getCellInfo says of a cell: its row, its place in the row's cells, *)
(* and the column it starts at.                                            *)
Info(rows, r, i, c) ==
    [row |-> r, cell |-> i, col |-> c, rowSpan |-> rows[r][i].rowSpan, colSpan |-> rows[r][i].colSpan]

CellOf(t, info) == t.rows[info.row][info.cell]

(* The positions that a cell covers.                                       *)
Area(info) == (info.row..(info.row + info.rowSpan - 1)) \X (info.col..(info.col + info.colSpan - 1))

-----------------------------------------------------------------------------
(* update(): measure the table, build the index, add the cells it misses.  *)

(* The places of the cells, and their order in the document.               *)
Places(rows) == UNION {{r} \X (DOMAIN rows[r]) : r \in DOMAIN rows}

Before(p, q) == p[1] < q[1] \/ (p[1] = q[1] /\ p[2] < q[2])

FirstOf(places) == CHOOSE p \in places : \A q \in places : p = q \/ Before(p, q)
LastOf(places) == CHOOSE p \in places : \A q \in places : p = q \/ Before(q, p)

getMaxRows(rows) ==
    Max({1} \union {p[1] + rows[p[1]][p[2]].rowSpan - 1 : p \in Places(rows)} \union DOMAIN rows)

(* Cells that reach into a row from above: the first counts its columns,   *)
(* each further one counts as a single column.                             *)
ReachedColumns(rows, r) ==
    LET above == {p \in Places(rows) : p[1] < r /\ p[1] + rows[p[1]][p[2]].rowSpan > r}
        first == FirstOf(above)
    IN  IF above = {} THEN 0 ELSE rows[first[1]][first[2]].colSpan + Cardinality(above) - 1

OwnColumns(row) ==
    LET sum[i \in 0..Len(row)] == IF i = 0 THEN 0 ELSE sum[i - 1] + row[i].colSpan
    IN  sum[Len(row)]

getMaxCols(rows) == Max({0} \union {ReachedColumns(rows, r) + OwnColumns(rows[r]) : r \in DOMAIN rows})

(* The index with one more cell in it.                                     *)
Covered(filled, info) ==
    [pos \in Area(info) \union DOMAIN filled |-> IF pos \in Area(info) THEN info ELSE filled[pos]]

(* Mutant: a cell starts at its own place in the row.                      *)
PlaceCellOwn(rows, filled, r, i) == Covered(filled, Info(rows, r, i, i))

(* A cell starts at the first position of its row that is still free,      *)
(* searching from its own place in the row, and takes its whole area.      *)
PlaceCell(rows, filled, r, i) ==
    LET next == {i} \union {pos[2] + 1 : pos \in DOMAIN filled}
    IN  Covered(filled, Info(rows, r, i, Min({c \in next : c >= i /\ <<r, c>> \notin DOMAIN filled})))

FillRow(rows, filled, r) ==
    LET fill[i \in 0..Len(rows[r])] == IF i = 0 THEN filled ELSE PlaceCell(rows, fill[i - 1], r, i)
    IN  fill[Len(rows[r])]

FillIndex(rows) ==
    LET fill[r \in 0..Len(rows)] == IF r = 0 THEN <<>> ELSE FillRow(rows, fill[r - 1], r)
    IN  fill[Len(rows)]

(* A position that no cell covers gets an empty clone of the row's last    *)
(* cell, at the end of the row.                                            *)
Clone(row) == [(IF row = <<>> THEN BlankCell ELSE Last(row)) EXCEPT !.rowSpan = 1, !.colSpan = 1, !.text = {}]

Missing(filled, r, colsNum) == {c \in 1..colsNum : <<r, c>> \notin DOMAIN filled}

WithMissing(rows, filled, colsNum) ==
    [r \in DOMAIN rows |-> rows[r] \o [k \in 1..Cardinality(Missing(filled, r, colsNum)) |-> Clone(rows[r])]]

IndexWithMissing(rows, filled, colsNum) ==
    [pos \in ((DOMAIN rows) \X (1..colsNum)) \union DOMAIN filled |->
        IF pos \in DOMAIN filled THEN filled[pos]
        ELSE LET missing == Missing(filled, pos[1], colsNum)
             IN  [row |-> pos[1], cell |-> Len(rows[pos[1]]) + Cardinality({c \in missing : c <= pos[2]}),
                  col |-> pos[2], rowSpan |-> 1, colSpan |-> 1]]

(* What the index says of the cell at a place.                             *)
InfoIn(index, p) == CHOOSE info \in {index[pos] : pos \in DOMAIN index} : info.row = p[1] /\ info.cell = p[2]

InfoOf(t, p) == InfoIn(t.index, p)

Marked(rows) == {p \in Places(rows) : rows[p[1]][p[2]].selected}

(* The selection is rebuilt from the marked cells: from the start of the   *)
(* first to the end of the last one in the document.                       *)
RangeOfMarked(rows, index) ==
    LET first == InfoIn(index, FirstOf(Marked(rows)))
        last == InfoIn(index, LastOf(Marked(rows)))
    IN  IF Marked(rows) = {}
        THEN NoRange
        ELSE [beginRow |-> first.row, beginCol |-> first.col,
              endRow |-> last.row + last.rowSpan - 1, endCol |-> last.col + last.colSpan - 1]

update(rows) ==
    LET rowsNum == getMaxRows(rows)
        colsNum == getMaxCols(rows)
        full == [r \in 1..rowsNum |-> IF r \in DOMAIN rows THEN rows[r] ELSE <<>>]
        filled == FillIndex(full)
        whole == WithMissing(full, filled, colsNum)
        index == IndexWithMissing(full, filled, colsNum)
    IN  [rows |-> whole, index |-> index, rowsNum |-> rowsNum, colsNum |-> colsNum,
         cellsRange |-> RangeOfMarked(whole, index), state |-> "ready"]

(* A handler that meets an undefined cell ends with an exception: what it  *)
(* did to the rows stays, the index is the old one.                        *)
Throw(t, rows) == [t EXCEPT !.rows = rows, !.state = "thrown"]

(* The members of a set of numbers, in ascending order.                    *)
Ascending(S) == CHOOSE s \in [1..Cardinality(S) -> S] : \A j, k \in DOMAIN s : j < k => s[j] < s[k]

Without(rows, gone) ==
    [r \in DOMAIN rows |->
        LET kept == Ascending({i \in DOMAIN rows[r] : <<r, i>> \notin gone})
        IN  [k \in DOMAIN kept |-> rows[r][kept[k]]]]

Unmarked(rows) == [r \in DOMAIN rows |-> [i \in DOMAIN rows[r] |-> [rows[r][i] EXCEPT !.selected = FALSE]]]

Mark(rows, places) ==
    [r \in DOMAIN rows |-> [i \in DOMAIN rows[r] |->
        [rows[r][i] EXCEPT !.selected = @ \/ <<r, i>> \in places]]]

(* How many columns before column c have no cell of their own in row r,    *)
(* going from cell to cell.                                                *)
getPreviewMergedCellsNum(t, r, c) ==
    LET num[k \in 1..(c + t.colsNum)] ==
            LET info == t.index[<<r, k>>]
            IN  IF k >= c THEN 0
                ELSE info.colSpan - (IF info.row = r THEN 1 ELSE 0) + num[k + info.colSpan]
    IN  num[1]

(* The index is the table: its positions are those of the grid, each leads *)
(* to the cell that covers it, every cell covers its whole area alone, and *)
(* the cells of a row follow each other as they do in the document.        *)
Tiled(t) ==
    LET infos == {t.index[pos] : pos \in DOMAIN t.index}
    IN  /\ t.rows \in Seq(Seq(Cell)) /\ t.rowsNum = Len(t.rows) /\ t.colsNum \in Nat
        /\ DOMAIN t.index = (1..t.rowsNum) \X (1..t.colsNum)
        /\ {<<info.row, info.cell>> : info \in infos} = Places(t.rows)
        /\ \A info \in infos : info.col \in 1..t.colsNum /\ info = Info(t.rows, info.row, info.cell, info.col)
        /\ \A pos \in DOMAIN t.index : pos \in Area(t.index[pos])
        /\ \A info \in infos : \A pos \in Area(info) : pos \in DOMAIN t.index /\ t.index[pos] = info
        /\ \A a, b \in infos : a.row = b.row /\ a.cell <= b.cell => a.col <= b.col

-----------------------------------------------------------------------------
(* Selecting cells with the mouse.                                         *)

Positions(range) == (range.beginRow..range.endRow) \X (range.beginCol..range.endCol)

(* Mutant: the range stays as dragged.                                     *)
checkRangeNot(t, range) == range

(* The range grows where a cell sticks out of it; the last column and the  *)
(* last row are not looked at.                                             *)
Grown(t, range) ==
    LET At(r, c) == t.index[<<r, c>>]
        columns == range.beginCol..(range.endCol - 1)
        lines == range.beginRow..(range.endRow - 1)
    IN  [beginRow |-> Min({range.beginRow} \union {At(range.beginRow, c).row : c \in columns}),
         beginCol |-> Min({range.beginCol} \union {At(r, range.beginCol).col : r \in lines}),
         endRow |-> Max({range.endRow} \union
             {At(range.endRow, c).row + At(range.endRow, c).rowSpan - 1 : c \in columns}),
         endCol |-> Max({range.endCol} \union
             {At(r, range.endCol).col + At(r, range.endCol).colSpan - 1 : r \in lines})]

(* It grows until it stays; each time one side at least moves, so that it  *)
(* has stopped after as many times as the sides have places to go.         *)
checkRange(t, range) ==
    LET most == t.rowsNum + t.colsNum
        grow[k \in 0..most] == IF k = 0 THEN range ELSE Grown(t, grow[k - 1])
    IN  grow[most]

getCellsRange(t, p, q) ==
    LET ends == {InfoOf(t, p), InfoOf(t, q)}
    IN  checkRange(t, [beginRow |-> Min({e.row : e \in ends}),
                       beginCol |-> Min({e.col : e \in ends}),
                       endRow |-> Max({e.row + e.rowSpan - 1 : e \in ends}),
                       endCol |-> Max({e.col + e.colSpan - 1 : e \in ends})])

SticksOut(info, range) ==
    \/ info.row < range.beginRow
    \/ info.col < range.beginCol
    \/ info.row + info.rowSpan - 1 > range.endRow
    \/ info.col + info.colSpan - 1 > range.endCol

(* getCells answers null when a cell sticks out of the range.              *)
Cut(t, range) == \E pos \in Positions(range) : SticksOut(t.index[pos], range)

PlacesIn(t, range) == {<<t.index[pos].row, t.index[pos].cell>> : pos \in Positions(range)}

setSelected(t, range) ==
    IF Cut(t, range)
    THEN [t EXCEPT !.rows = Unmarked(@), !.cellsRange = range, !.state = "null"]
    ELSE [t EXCEPT !.rows = Mark(Unmarked(@), PlacesIn(t, range)), !.cellsRange = range]

(* A press of the button forgets the index and the selection; the first    *)
(* use of the table builds both again.                                     *)
tableClickHander(t) == update(Unmarked(t.rows))

-----------------------------------------------------------------------------
(* The operations of the UETable object.                                   *)

(* Mutant: the content is not moved.                                       *)
AbsorbDrop(rows, p, q) == Without(rows, {q})

(* Cell q's content goes to the end of cell p, and q is deleted.           *)
Absorb(rows, p, q) == Without([rows EXCEPT ![p[1]][p[2]].text = @ \union rows[q[1]][q[2]].text], {q})

RightOf(t, info) == t.index[<<info.row, info.col + info.colSpan>>]
Below(t, info) == t.index[<<info.row + info.rowSpan, info.col>>]

mergeRight(t, p) ==
    LET info == InfoOf(t, p)
        right == RightOf(t, info)
        wide == [t.rows EXCEPT ![p[1]][p[2]].colSpan = info.colSpan + right.colSpan]
    IN  update(Absorb(wide, p, <<right.row, right.cell>>))

mergeDown(t, p) ==
    LET info == InfoOf(t, p)
        down == Below(t, info)
        high == [t.rows EXCEPT ![p[1]][p[2]].rowSpan = info.rowSpan + down.rowSpan]
    IN  update(Absorb(high, p, <<down.row, down.cell>>))

(* Mutant: the last row and column of the range are not counted.           *)
MergedSpansShort(t, range) ==
    [rowSpan |-> Max({1, range.endRow - range.beginRow}), colSpan |-> Max({1, range.endCol - range.beginCol})]

(* A merged cell as high as the table keeps one column.  The rebuilt       *)
(* selection may end before the column it begins at; no span is below one. *)
MergedSpans(t, range) ==
    LET rowSpan == range.endRow - range.beginRow + 1
    IN  [rowSpan |-> rowSpan,
         colSpan |-> IF rowSpan = t.rowsNum THEN 1 ELSE Max({1, range.endCol - range.beginCol + 1})]

(* The cells of the range become its first one.  If it is as wide as the   *)
(* table it keeps one row, and rows below it are deleted, counted from the *)
(* top of the table.                                                       *)
mergeRange(t) ==
    LET range == t.cellsRange
        spans == MergedSpans(t, range)
        r == range.beginRow
        i == t.index[<<r, range.beginCol>>].cell
        others == PlacesIn(t, range) \ {<<r, i>>}
        plain == Unmarked(t.rows)
        moved == UNION {t.rows[p[1]][p[2]].text : p \in others}
        whole == spans.colSpan = t.colsNum /\ spans.rowSpan # 1
        one == [plain[r][i] EXCEPT !.text = @ \union moved, !.colSpan = spans.colSpan,
                                   !.rowSpan = IF whole THEN 1 ELSE spans.rowSpan]
        merged == Without([plain EXCEPT ![r][i] = one], others)
        deleted == IF whole THEN (r + 1)..spans.rowSpan ELSE {}
    IN  IF Cut(t, range)
        THEN Throw(t, plain)
        ELSE update(SubSeq(merged, 1, r) \o
                    SubSeq(merged, r + 1 + Cardinality(deleted), Len(merged)))

(* Cells that reach over the new row grow, the other columns get a cell.   *)
(* The first cell is compared with the first one of a neighbouring row,    *)
(* which must have one.                                                    *)
insertRow(t, at) ==
    LET reaching == IF at \in 2..t.rowsNum
                    THEN {c \in 1..t.colsNum : t.index[<<at, c>>].row < at} ELSE {}
        neighbour == IF at <= t.rowsNum THEN t.rows[at] ELSE t.rows[at - 1]
        done == 1..(IF neighbour = <<>> THEN 1 ELSE t.colsNum)
        grown == {<<t.index[<<at, c>>].row, t.index[<<at, c>>].cell>> : c \in reaching \intersect done}
        taller == [r \in DOMAIN t.rows |-> [i \in DOMAIN t.rows[r] |->
                      IF <<r, i>> \in grown THEN [t.rows[r][i] EXCEPT !.rowSpan = @ + 1]
                                            ELSE t.rows[r][i]]]
        row == [k \in 1..Cardinality(done \ reaching) |-> BlankCell]
        rows == InsertAt(taller, at, row)
    IN  IF neighbour = <<>> THEN Throw(t, rows) ELSE update(rows)

(* Mutant: the columns without a cell of their own are counted as well.    *)
ColumnsBefore(t, r, info, added) == info.col - 1 + added

(* The cells of row r that lie before the cell's column, the ones just     *)
(* added to the row included.                                              *)
CellsBefore(t, r, info, added) == info.col - 1 - (getPreviewMergedCellsNum(t, r, info.col) - added)

(* The cells that start in the row and reach further down go on in the     *)
(* next row, empty, behind the cells that row has before that column.      *)
KeepLowerPart(t, at, s, info) ==
    LET rest == [s.rows[at][info.cell] EXCEPT !.rowSpan = info.rowSpan - 1, !.text = {}]
        before == CellsBefore(t, at + 1, info, s.count)
        next == s.rows[at + 1]
        cut == [s.rows EXCEPT ![at][info.cell].rowSpan = 1]
    IN  CASE ~s.ok -> s
          [] s.ok /\ before > Len(next) -> [s EXCEPT !.rows = cut, !.ok = FALSE]
          [] s.ok /\ before <= Len(next) ->
                [s EXCEPT !.rows = [cut EXCEPT ![at + 1] = IF next = <<>> THEN next
                                                           ELSE InsertAt(next, Max({before, 0}) + 1, rest)],
                          !.count = @ + 1]

(* This is done for one cell after the other.                              *)
KeepLowerParts(t, at) ==
    LET keep[c \in 0..t.colsNum] ==
            LET info == t.index[<<at, c>>]
            IN  IF c = 0 THEN [rows |-> t.rows, count |-> 0, ok |-> TRUE]
                ELSE IF info.row = at /\ info.col = c /\ info.rowSpan > 1
                THEN KeepLowerPart(t, at, keep[c - 1], info)
                ELSE keep[c - 1]
    IN  keep[t.colsNum]

deleteRow(t, at) ==
    LET s == KeepLowerParts(t, at)
        reaching == {<<info.row, info.cell>> : info \in {t.index[<<at, c>>] : c \in 1..t.colsNum}}
        shorter == [r \in DOMAIN s.rows |-> [i \in DOMAIN s.rows[r] |->
                       IF r < at /\ <<r, i>> \in reaching THEN [s.rows[r][i] EXCEPT !.rowSpan = @ - 1]
                                                          ELSE s.rows[r][i]]]
    IN  IF s.ok THEN update(RemoveAt(shorter, at)) ELSE Throw(t, s.rows)

(* Mutant: the new cell comes last.                                        *)
WithNewCellLast(t, at, row, r) == Append(row, BlankCell)

(* In every row the cell that reaches over the new column grows, or a new  *)
(* cell is put before the one with the index of the cell that starts at    *)
(* the column, which may be a cell of another row.                         *)
WithNewCell(t, at, row, r) ==
    LET info == t.index[<<r, at>>]
    IN  CASE at = 1 -> <<BlankCell>> \o row
          [] at > t.colsNum -> Append(row, BlankCell)
          [] at \in 2..t.colsNum /\ info.col < at -> row
          [] at \in 2..t.colsNum /\ info.col >= at ->
                IF info.cell <= Len(row) THEN InsertAt(row, info.cell, BlankCell)
                                         ELSE Append(row, BlankCell)

insertCol(t, at) ==
    LET reached(r) == at \in 2..t.colsNum /\ t.index[<<r, at>>].col < at
        Stops(r) == \/ at > t.colsNum /\ t.rows[r] = <<>>
                    \/ r = 1 /\ reached(1) /\ Len(t.rows[1]) = 1
        stop == {r \in 1..t.rowsNum : Stops(r)}
        done == IF stop = {} THEN 1..t.rowsNum
                ELSE {r \in 1..t.rowsNum : r < Min(stop) \/ (r = Min(stop) /\ reached(r))}
        grown == {<<t.index[<<r, at>>].row, t.index[<<r, at>>].cell>> : r \in {x \in done : reached(x)}}
        wider == [r \in DOMAIN t.rows |-> [i \in DOMAIN t.rows[r] |->
                     IF <<r, i>> \in grown THEN [t.rows[r][i] EXCEPT !.colSpan = @ + 1]
                                           ELSE t.rows[r][i]]]
        rows == [r \in DOMAIN wider |-> IF r \in done THEN WithNewCell(t, at, wider[r], r) ELSE wider[r]]
    IN  IF stop = {} THEN update(rows) ELSE Throw(t, rows)

deleteCol(t, at) ==
    LET infos == {t.index[<<r, at>>] : r \in 1..t.rowsNum}
        narrow == {<<info.row, info.cell>> : info \in {x \in infos : x.colSpan > 1}}
        gone == {<<info.row, info.cell>> : info \in {x \in infos : x.colSpan = 1}}
        shrunk == [r \in DOMAIN t.rows |-> [i \in DOMAIN t.rows[r] |->
                      IF <<r, i>> \in narrow THEN [t.rows[r][i] EXCEPT !.colSpan = @ - 1]
                                             ELSE t.rows[r][i]]]
    IN  update(Without(shrunk, gone))

splitToRows(t, p) ==
    LET info == InfoOf(t, p)
        lower == (info.row + 1)..(info.row + info.rowSpan - 1)
        place(r) == info.col - getPreviewMergedCellsNum(t, r, info.col)
        cut == [t.rows EXCEPT ![p[1]][p[2]].rowSpan = 1]
    IN  update([r \in DOMAIN cut |->
                   IF r \in lower THEN InsertAt(cut[r], place(r), [BlankCell EXCEPT !.colSpan = info.colSpan])
                                  ELSE cut[r]])

splitToCols(t, p) ==
    LET info == InfoOf(t, p)
        new == [k \in 1..(info.colSpan - 1) |-> [BlankCell EXCEPT !.rowSpan = info.rowSpan]]
        row == t.rows[p[1]]
    IN  update([t.rows EXCEPT ![p[1]] = SubSeq(row, 1, p[2] - 1)
                    \o <<[row[p[2]] EXCEPT !.colSpan = 1]>> \o new \o SubSeq(row, p[2] + 1, Len(row))])

splitToCells(t, p) ==
    LET info == InfoOf(t, p)
        split[k \in Nat] ==
            LET r == info.row + k - 1
                u == split[k - 1]
            IN  IF k = 0 THEN splitToRows(t, p)
                ELSE splitToCols(u, <<r, u.index[<<r, info.col>>].cell>>)
    IN  IF info.rowSpan \in Nat THEN split[info.rowSpan] ELSE t

-----------------------------------------------------------------------------
(* The commands, as the user gives them in the cell p of the caret.        *)

Selected == Marked(ut.rows)

(* With cells selected the caret is in the first of them.                  *)
CaretIn(p) ==
    /\ ut.state = "ready"
    /\ p \in IF Selected = {} THEN Places(ut.rows) ELSE {FirstOf(Selected)}

(* No td is left: the table is removed.                                    *)
Keep(t) == IF t.state = "ready" /\ Places(t.rows) = {} THEN [t EXCEPT !.state = "none"] ELSE t

inserttable(numRows, numCols) ==
    /\ ut.state = "none"
    /\ ut' = update([r \in 1..numRows |-> [c \in 1..numCols |-> BlankCell]])

(* A press of the button, or a drag; the range of a drag is the same in    *)
(* either direction.                                                       *)
SelectCells ==
    /\ ut.state # "none"
    /\ \E t \in {tableClickHander(ut)} :
           /\ Places(t.rows) # {}
           /\ \/ ut' = t
              \/ /\ Tiled(t)
                 /\ \E p, q \in Places(t.rows) :
                        Before(p, q) /\ ut' = setSelected(t, getCellsRange(t, p, q))

TypeWord(p, w) ==
    /\ CaretIn(p) /\ Selected = {}
    /\ \A q \in Places(ut.rows) : w \notin ut.rows[q[1]][q[2]].text
    /\ ut' = [ut EXCEPT !.rows[p[1]][p[2]].text = @ \union {w}]

DelCells ==
    /\ ut.state = "ready" /\ Selected # {}
    /\ ut' = [ut EXCEPT !.rows = [r \in DOMAIN @ |-> [i \in DOMAIN @[r] |->
                  IF @[r][i].selected THEN [@[r][i] EXCEPT !.text = {}] ELSE @[r][i]]]]

mergeright(p) ==
    /\ CaretIn(p) /\ Selected = {}
    /\ LET info == InfoOf(ut, p)
       IN  /\ info.col + info.colSpan <= ut.colsNum
           /\ RightOf(ut, info).row = info.row
           /\ RightOf(ut, info).rowSpan = info.rowSpan
    /\ ut' = mergeRight(ut, p)

mergedown(p) ==
    /\ CaretIn(p) /\ Selected = {}
    /\ LET info == InfoOf(ut, p)
       IN  /\ info.row + info.rowSpan <= ut.rowsNum
           /\ Below(ut, info).col = info.col
           /\ Below(ut, info).colSpan = info.colSpan
    /\ ut' = mergeDown(ut, p)

mergecells == ut.state = "ready" /\ Selected # {} /\ ut' = mergeRange(ut)

(* A command calls one of four operations, once for each row or column of  *)
(* the selection, unless one of the calls ends with an exception.  The     *)
(* calls are followed as long as the index is right (see Followed).        *)
Call(op, t, at) ==
    CASE op = "insertRow" -> insertRow(t, at)
      [] op = "deleteRow" -> deleteRow(t, at)
      [] op = "insertCol" -> insertCol(t, at)
      [] op = "deleteCol" -> deleteCol(t, at)

Again(t, n, op, at) ==
    LET times[k \in Nat] ==
            LET u == times[k - 1]
            IN  IF k = 0 THEN t
                ELSE IF u.state = "thrown" \/ ~Tiled(u) THEN u
                ELSE Call(op, u, at)
    IN  IF n \in Nat THEN times[n] ELSE t

Height == IF Selected = {} THEN 1 ELSE ut.cellsRange.endRow - ut.cellsRange.beginRow + 1
Width == IF Selected = {} THEN 1 ELSE ut.cellsRange.endCol - ut.cellsRange.beginCol + 1

insertrow(p) ==
    /\ CaretIn(p) /\ ut.rowsNum + Height <= MaxRows
    /\ LET at == IF Selected = {} THEN InfoOf(ut, p).row ELSE ut.cellsRange.beginRow
       IN  ut' = Again(ut, Height, "insertRow", at)

insertrownext(p) ==
    /\ CaretIn(p) /\ ut.rowsNum + Height <= MaxRows
    /\ LET info == InfoOf(ut, p)
           at == IF Selected = {} THEN info.row + info.rowSpan ELSE ut.cellsRange.endRow + 1
       IN  ut' = Again(ut, Height, "insertRow", at)

deleterow(p) ==
    /\ CaretIn(p)
    /\ LET at == IF Selected = {} THEN InfoOf(ut, p).row ELSE ut.cellsRange.beginRow
       IN  ut' = Keep(Again(ut, Height, "deleteRow", at))

FirstColumn(p) == IF Selected = {} THEN InfoOf(ut, p).col ELSE ut.cellsRange.beginCol
ColumnBehind(p) == IF Selected = {} THEN InfoOf(ut, p).col + InfoOf(ut, p).colSpan ELSE ut.cellsRange.endCol + 1

insertcol(p) ==
    /\ CaretIn(p) /\ ut.colsNum + Width <= MaxCols
    /\ LET at == FirstColumn(p) IN ut' = Again(ut, Width, "insertCol", at)

insertcolnext(p) ==
    /\ CaretIn(p) /\ ut.colsNum + Width <= MaxCols
    /\ LET at == ColumnBehind(p) IN ut' = Again(ut, Width, "insertCol", at)

deletecol(p) ==
    /\ CaretIn(p)
    /\ LET at == FirstColumn(p) IN ut' = Keep(Again(ut, Width, "deleteCol", at))

splittocells(p) ==
    /\ CaretIn(p) /\ Selected = {}
    /\ InfoOf(ut, p).rowSpan > 1 \/ InfoOf(ut, p).colSpan > 1
    /\ ut' = splitToCells(ut, p)

splittorows(p) == CaretIn(p) /\ Selected = {} /\ InfoOf(ut, p).rowSpan > 1 /\ ut' = splitToRows(ut, p)

splittocols(p) == CaretIn(p) /\ Selected = {} /\ InfoOf(ut, p).colSpan > 1 /\ ut' = splitToCols(ut, p)

deletetable == ut.state # "none" /\ ut' = NoTable

(* Rows of the selection, or all, change places in whatever order their    *)
(* contents ask for.  The index is not built again.                        *)
sorttable ==
    /\ ut.state = "ready"
    /\ \A p \in Places(ut.rows) : ut.rows[p[1]][p[2]].rowSpan = 1 /\ ut.rows[p[1]][p[2]].colSpan = 1
    /\ LET sorted == {r \in 1..ut.rowsNum : Selected # {} => r \in ut.cellsRange.beginRow..ut.cellsRange.endRow}
       IN  \E order \in [sorted -> sorted] :
            /\ \A r \in sorted : \E k \in sorted : order[k] = r
            /\ ut' = [ut EXCEPT !.rows = [r \in DOMAIN @ |-> @[IF r \in sorted THEN order[r] ELSE r]]]

TableInit == ut = NoTable

TablePlaces == (1..MaxRows) \X (1..MaxCols)

TableCommand ==
    \/ SelectCells
    \/ \E p \in TablePlaces, w \in Words : TypeWord(p, w)
    \/ DelCells
    \/ mergecells \/ sorttable
    \/ \E p \in TablePlaces : mergeright(p) \/ mergedown(p)
    \/ \E p \in TablePlaces : insertrow(p) \/ insertrownext(p) \/ deleterow(p)
    \/ \E p \in TablePlaces : insertcol(p) \/ insertcolnext(p) \/ deletecol(p)
    \/ \E p \in TablePlaces : splittocells(p) \/ splittorows(p) \/ splittocols(p)

(* A table is followed as long as its index is right.  The code goes on    *)
(* with one whose cells lie over each other, where its loops may pass a    *)
(* cell over or meet it twice, and each update may add a column.           *)
Followed == ut.state = "ready" => Tiled(ut)

TableNext ==
    \/ \E n \in 1..MaxRows, m \in 1..MaxCols : inserttable(n, m)
    \/ deletetable
    \/ Followed /\ TableCommand

TableSpec == TableInit /\ [][TableNext]_ut

-----------------------------------------------------------------------------
(* What the commands promise.                                              *)

(* No cell that begins in this column reaches into a row below it.         *)
ShallowColumn(at) ==
    at \in 2..ut.colsNum => \A r \in 1..ut.rowsNum : ut.index[<<r, at>>].row # r => ut.index[<<r, at>>].col # at

(* A cell of this row reaches into the next one, which has no cell of its  *)
(* own: deleteRow has nowhere to put the lower part of it.                 *)
LeavesARest(at) ==
    \E c \in 1..ut.colsNum : LET info == ut.index[<<at, c>>]
                             IN  info.row = at /\ info.rowSpan > 1 /\ ut.rows[at + 1] = <<>>

(* Every command keeps the index the table, but one that ends half done, a *)
(* column put in where cells of several rows begin (a lower row gets its   *)
(* new cell in the wrong place, maybe under one of those), and rows taken  *)
(* out where the lower part of a cell is lost (the cells behind slip into  *)
(* its place and may be too wide for it).  The fourth is a selection that  *)
(* a misplaced column has left ending before the column it begins at: the  *)
(* first of its cells gets its height and one column, whatever was there.  *)
TilesGrid ==
    [][\/ Tiled(ut')
       \/ ut'.state = "thrown"
       \/ mergecells /\ ut.cellsRange.endCol < ut.cellsRange.beginCol
       \/ Tiled(ut) => \E p \in TablePlaces : \/ insertcol(p) /\ ~ShallowColumn(FirstColumn(p))
                                              \/ insertcolnext(p) /\ ~ShallowColumn(ColumnBehind(p))
                                              \/ deleterow(p) /\ \E r \in 1..ut.rowsNum : LeavesARest(r)]_ut

TextAt(t, pos) == CellOf(t, t.index[pos]).text

(* Outside the positions gone, each content of t is where it moved to in u.*)
Kept(t, u, moved(_), gone) ==
    u.state = "ready" => \A pos \in DOMAIN t.index \ gone : TextAt(u, moved(pos)) = TextAt(t, pos)

Shift(k, at, by) == IF k < at THEN k ELSE k + by

(* A row put in anywhere or taken out, and a column taken out, moves the   *)
(* contents behind it by one place and leaves the others alone.  A new     *)
(* column does so unless a cell of several rows starts at it: insertCol    *)
(* may then put the new cell of a lower row in the wrong place of it.  A   *)
(* row taken out does so unless the lower part of one of its cells is lost.*)
ContentsKeepPlace ==
    ut.state = "ready" /\ Tiled(ut) =>
        /\ \A at \in 1..(ut.rowsNum + 1) :
              Kept(ut, insertRow(ut, at), LAMBDA pos : <<Shift(pos[1], at, 1), pos[2]>>, {})
        /\ \A at \in {r \in 1..ut.rowsNum : ~LeavesARest(r)} :
              Kept(ut, deleteRow(ut, at), LAMBDA pos : <<Shift(pos[1], at, -1), pos[2]>>,
                   {pos \in DOMAIN ut.index : ut.index[pos].row = at})
        /\ \A at \in {c \in 1..(ut.colsNum + 1) : ShallowColumn(c)} :
              Kept(ut, insertCol(ut, at), LAMBDA pos : <<pos[1], Shift(pos[2], at, 1)>>, {})
        /\ \A at \in 1..ut.colsNum :
              Kept(ut, deleteCol(ut, at), LAMBDA pos : <<pos[1], Shift(pos[2], at, -1)>>,
                   {pos \in DOMAIN ut.index : pos[2] = at})

(* Merging a selection that is neither as wide nor as high as the table    *)
(* makes one cell of exactly its area, with all its contents.              *)
MergeIsOne ==
    LET range == ut.cellsRange
        merged == mergeRange(ut)
        one == merged.index[<<range.beginRow, range.beginCol>>]
    IN  /\ ut.state = "ready" /\ Tiled(ut) /\ range # NoRange /\ merged.state = "ready"
        /\ range.beginCol <= range.endCol
        /\ range.beginCol > 1 \/ range.endCol < ut.colsNum
        /\ range.beginRow > 1 \/ range.endRow < ut.rowsNum
        => /\ Area(one) = Positions(range)
           /\ CellOf(merged, one).text = UNION {TextAt(ut, pos) : pos \in Positions(range)}

(* Splitting a cell makes cells of one position of it, and leaves every    *)
(* other cell its place and its content.                                   *)
SplitIsUnit ==
    ut.state = "ready" /\ Tiled(ut) =>
        \A p \in Places(ut.rows) :
            LET split == splitToCells(ut, p)
                area == Area(InfoOf(ut, p))
            IN  /\ DOMAIN split.index = DOMAIN ut.index
                /\ \A pos \in area : Area(split.index[pos]) = {pos}
                /\ \A pos \in DOMAIN ut.index \ area :
                      /\ Area(split.index[pos]) = Area(ut.index[pos])
                      /\ TextAt(split, pos) = TextAt(ut, pos)

(* What merges and splits make of the selection and of a cell.             *)
MergeAndSplit == MergeIsOne /\ SplitIsUnit

WordsIn(t) == UNION {t.rows[p[1]][p[2]].text : p \in Places(t.rows)}

(* No command loses what was typed, a merge as wide as the table and a     *)
(* command that ends with an exception included, but those that are asked  *)
(* to: clearing cells, deleting rows, columns or the table.                *)
WordsKept ==
    [][\/ WordsIn(ut) \subseteq WordsIn(ut')
       \/ DelCells \/ deletetable
       \/ \E p \in TablePlaces : deleterow(p) \/ deletecol(p)]_ut

(* checkRange leaves no cell half selected but one in the last row or      *)
(* column of the range, the only ones it does not look at.                 *)
CutOnlyAtLastEdge ==
    ut.state = "null" /\ Tiled(ut) =>
        \E pos \in Positions(ut.cellsRange) :
            /\ SticksOut(ut.index[pos], ut.cellsRange)
            /\ pos[1] = ut.cellsRange.endRow \/ pos[2] = ut.cellsRange.endCol

(* A command on a table whose index is right ends half done only when the  *)
(* table has a row that has no cell of its own, or a first row of one      *)
(* cell, or when the rebuilt selection cuts a cell.                        *)
HalfDoneOnlyOnBareRows ==
    [][ut.state = "ready" /\ Tiled(ut) /\ ut'.state = "thrown" =>
          \/ \E r \in DOMAIN ut.rows : ut.rows[r] = <<>>
          \/ Len(ut.rows[1]) = 1
          \/ ut.cellsRange # NoRange /\ Cut(ut, ut.cellsRange)]_ut
=============================================================================
