------------------------------ MODULE CliTable ------------------------------
(***************************************************************************)
(* The table of src/util.rs (CliTable, CliTableRow) and the one that the   *)
(* `versions` command prints (src/cli/versions.rs).  A cell is the number  *)
(* of bytes of its text, which is what the code pads by; colours are left  *)
(* out, and a printed line is its number of bytes.                         *)
(***************************************************************************)
EXTENDS Integers, Sequences, Functions, FiniteSetsExt

(* usize: the padding of a cell wider than its column. *)
Underflow == -1

Table(columnNames, rows) == [columnNames |-> columnNames, rows |-> rows]

Columns(table) == DOMAIN table.columnNames

(* add: a row must have as many cells as there are columns. *)
RowsFit(table) ==
    \A r \in DOMAIN table.rows : DOMAIN table.rows[r] = Columns(table)

(* Faulty: the column names do not count. *)
CalculateMaxWidths_RowsOnly(table) ==
    [i \in Columns(table) |-> Max({0} \cup {table.rows[r][i] : r \in DOMAIN table.rows})]

CalculateMaxWidths(table) ==
    [i \in Columns(table) |->
        Max({table.columnNames[i]} \cup {table.rows[r][i] : r \in DOMAIN table.rows})]

(* A border and its padding on both sides of a cell, one more at the end.   *)
BorderWidths(columns) == 3 * columns + 1

(* CliTableRow::write: what a row takes up when its cells are padded.       *)
Line(row, widths) ==
    IF \E i \in DOMAIN row : row[i] > widths[i] THEN Underflow
    ELSE SumFunction([i \in DOMAIN row |-> row[i] + (widths[i] - row[i]) + 3]) + 1

(* Display: the column names, unless they are empty, with a rule under      *)
(* them, and the rows.                                                      *)
Lines(table) ==
    LET widths == CalculateMaxWidths(table)
        rule == SumFunction(widths) + BorderWidths(Len(table.columnNames))
        header == IF \A i \in Columns(table) : table.columnNames[i] = 0 THEN << 0 >>
                  ELSE << Line(table.columnNames, widths), rule >>
    IN  header \o [r \in DOMAIN table.rows |-> Line(table.rows[r], widths)]

(* "Version Name", "Version Date", "Version Identifier", "Download URL" *)
Headers(withUrl) == IF withUrl THEN << 12, 12, 18, 12 >> ELSE << 12, 12, 18 >>

(* A version without a date has an empty cell for it.                       *)
RowOf(v, withUrl) ==
    << v.name, v.date, v.identifier >> \o (IF withUrl THEN << v.url >> ELSE << >>)

VersionsTable(versions, withUrl) ==
    Table(Headers(withUrl), [i \in DOMAIN versions |-> RowOf(versions[i], withUrl)])
=============================================================================
