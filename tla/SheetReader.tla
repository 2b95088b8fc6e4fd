---------------------------- MODULE SheetReader ----------------------------
(***************************************************************************)
(* Spreadsheets (data_processor.go): which rows of a sheet are its header  *)
(* is guessed from how they look, and what follows them is read as data.   *)
(*                                                                         *)
(* A sheet is a sequence of rows, a row a sequence of cells [kind, id].    *)
(* The kinds are what the guesses tell apart: "blank", "text", "name" (text*)
(* with one of the header's keywords in it), "sum" (the label of a total,  *)
(* which has one too), "int" (digits), "paren" (digits in parentheses) and *)
(* "figure" (amounts, dates).  Ratios are compared as fractions.           *)
(***************************************************************************)
EXTENDS Integers, Sequences, SequencesExt, FiniteSets, FiniteSetsExt

CONSTANTS
    HeaderScanLimit, \* rows among which the header is looked for
    MaxPreviewRows   \* rows shown before a sheet is imported

Blank == [kind |-> "blank", id |-> 0]

Filled(row) == {i \in DOMAIN row : row[i].kind # "blank"}

looksNumeric(cell) == cell.kind \in {"int", "figure"}

Numbers(row) == {i \in DOMAIN row : looksNumeric(row[i])}

Widest(sheet) == Max({0} \cup {Len(sheet[i]) : i \in DOMAIN sheet})

isEmptyRow(row) == Filled(row) = {}

(* The numbering of columns: 1, 2, 3 or (1), (2), (3). *)
isSequentialNumbers(row) ==
    LET cells == SelectSeq(row, LAMBDA cell : cell.kind # "blank")
    IN  /\ Len(cells) >= 3
        /\ \A i \in DOMAIN cells : cells[i].kind \in {"int", "paren"}
        /\ \A i \in 2..Len(cells) : cells[i].id = cells[i - 1].id + 1

isSummaryRow(row, columns) ==
    /\ ~(columns > 4 /\ 10 * Cardinality(Filled(row)) > 6 * columns)
    /\ \E i \in DOMAIN row : row[i].kind = "sum"

isDataRow(row, columns) ==
    LET filled == Cardinality(Filled(row))
    IN  IF columns <= 3 THEN filled > 0 ELSE filled >= 3 /\ 5 * filled >= columns

-----------------------------------------------------------------------------
(* The header. *)

(* How much a row looks like one, but for the width all rows share: filled,
   without repetitions, of text, and with keywords. *)
HeaderScore(row) ==
    LET filled == Cardinality(Filled(row))
        unique == Cardinality({row[i] : i \in Filled(row)})
        keyed == Cardinality({i \in DOMAIN row : row[i].kind \in {"name", "sum"}})
    IN  <<unique * (2 * filled - Cardinality(Numbers(row))) * (filled + keyed), filled * filled>>

Higher(a, b) == a[1] * b[2] > b[1] * a[2]

MayBeHeader(row, width) ==
    /\ ~isSequentialNumbers(row)
    /\ ~isEmptyRow(row) /\ 10 * Cardinality(Filled(row)) >= 3 * width
    /\ Numbers(row) # Filled(row)

(* Mutant: of equally good rows the last. *)
DetectLastHeaderRow(sheet) ==
    LET rows == {i \in DOMAIN sheet : i <= HeaderScanLimit /\ MayBeHeader(sheet[i], Widest(sheet))}
        best == {i \in rows : \A j \in rows : ~Higher(HeaderScore(sheet[j]), HeaderScore(sheet[i]))}
    IN  Max(best \cup {1})

(* The first of the best, or the first row when there is none. *)
DetectHeaderRow(sheet) ==
    LET rows == {i \in DOMAIN sheet : i <= HeaderScanLimit /\ MayBeHeader(sheet[i], Widest(sheet))}
        best == {i \in rows : \A j \in rows : ~Higher(HeaderScore(sheet[j]), HeaderScore(sheet[i]))}
    IN  IF best = {} THEN 1 ELSE Min(best)

(* A row above the header that belongs to it, and one below. *)
SuperHeader(row, width) ==
    LET filled == Cardinality(Filled(row))
    IN  filled > 1 /\ 10 * filled >= 3 * width /\ 10 * Cardinality(Numbers(row)) < 3 * filled

SubHeader(row, width) ==
    LET filled == Cardinality(Filled(row))
    IN  filled > 0 /\ 2 * filled <= width /\ 2 * Cardinality(Numbers(row)) < filled

(* The rows of the header, and the first row of the data. *)
DetectHeaderZone(sheet, header) ==
    LET width == Widest(sheet)
        above == {i \in 1..header : \A k \in i..(header - 1) : SuperHeader(sheet[k], width)}
        below == {i \in (header + 1)..Len(sheet) :
                     /\ SubHeader(sheet[i], width) /\ ~isSequentialNumbers(sheet[i])
                     /\ \A k \in (header + 1)..i :
                            isSequentialNumbers(sheet[k]) \/ SubHeader(sheet[k], width)}
        end == Max(below \cup {header})
        data == {i \in (end + 1)..Len(sheet) :
                    ~isSequentialNumbers(sheet[i]) /\ ~isEmptyRow(sheet[i])}
    IN  [start |-> Min(above), end |-> end,
         data |-> IF data = {} THEN Len(sheet) + 1 ELSE Min(data)]

(* A column is called what stands above it, in all rows of the header. *)
MergeHeaderRows(sheet, start, end) ==
    LET zone == SubSeq(sheet, start, end)
        Parts(col) == SelectSeq([i \in DOMAIN zone |->
                                    IF col <= Len(zone[i]) THEN zone[i][col] ELSE Blank],
                                LAMBDA cell : cell.kind # "blank")
    IN  [col \in 1..Widest(zone) |-> Parts(col)]

(* Nameless columns get their position for a name, but those at the end go. *)
CleanupColumns(names) ==
    LET last == Max({0} \cup {i \in DOMAIN names : names[i] # <<>>})
    IN  [i \in 1..last |->
            IF names[i] = <<>> THEN << [kind |-> "column", id |-> i] >> ELSE names[i]]

ResolveHeaders(sheet) ==
    LET zone == DetectHeaderZone(sheet, DetectHeaderRow(sheet))
    IN  [columns |-> CleanupColumns(MergeHeaderRows(sheet, zone.start, zone.end)),
         data |-> zone.data]

-----------------------------------------------------------------------------
(* The data. *)

(* Of columns of one name only the last is kept. *)
RowToMap(row, columns) ==
    [name \in ToSet(columns) |->
        LET i == Max({k \in DOMAIN columns : columns[k] = name})
        IN  IF i <= Len(row) THEN row[i] ELSE Blank]

(* Of the rows from the first on those that count. *)
DataRows(rows, columns) ==
    LET Counts(row) == /\ isDataRow(row, Len(columns)) /\ ~isSequentialNumbers(row)
                       /\ ~(columns # <<>> /\ isSummaryRow(row, Len(columns)))
        counted == SelectSeq(rows, Counts)
    IN  [i \in DOMAIN counted |-> RowToMap(counted[i], columns)]

(* All rows of a sheet, as they are imported. *)
ParseAllRows(sheet) ==
    LET headers == ResolveHeaders(sheet)
    IN  [columns |-> headers.columns,
         rows |-> DataRows(SubSeq(sheet, headers.data, Len(sheet)), headers.columns)]

(* What a model may answer about the header: any columns, the first row of the
   data and the last, which are taken if the first is there. *)
WithAI(sheet, columns, first, last) ==
    LET end == IF last \in first..Len(sheet) /\ last > 1 THEN last ELSE Len(sheet)
    IN  IF first \notin DOMAIN sheet \/ columns = <<>> THEN ParseAllRows(sheet)
        ELSE [columns |-> columns, rows |-> DataRows(SubSeq(sheet, first, end), columns)]

(* What is shown of it before. *)
SheetData(read) ==
    [columns |-> read.columns, count |-> Len(read.rows),
     preview |-> SubSeq(read.rows, 1, Min({MaxPreviewRows, Len(read.rows)}))]
=============================================================================
