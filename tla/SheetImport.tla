---------------------------- MODULE SheetImport ----------------------------
(***************************************************************************)
(* From the rows of an uploaded workbook to transactions: the columns are  *)
(* mapped to fields (column_mapper.go), the workbook is saved and loaded   *)
(* again (data_handler.go, session_handler.go), and each row is imported   *)
(* (session_service.go).                                                   *)
(*                                                                         *)
(* A column is [side, id]: whether its name speaks of sales, of purchases, *)
(* of both or of neither.  A field is [what, side]; of the fields with a side those*)
(* of the other are its mirror image.  Cells hold whole units of money, or *)
(* 1 for a party that is named.  Where the code ranges over a map, every   *)
(* order is possible, so results are sets.                                 *)
(***************************************************************************)
EXTENDS SheetReader

Sides == {"sales", "purchase"}

Other(side) == CASE side = "sales" -> "purchase" [] side = "purchase" -> "sales" [] OTHER -> side

Field(what, side) == [what |-> what, side |-> side]

Unmapped == Field("none", "")

-----------------------------------------------------------------------------
(* Mapping columns to fields. *)

(* The fields that more than one column is mapped to. *)
DetectConflicts(mapping) ==
    {f \in {mapping[col] : col \in DOMAIN mapping} \ {Unmapped} :
        Cardinality({col \in DOMAIN mapping : mapping[col] = f}) > 1}

(* How sure it is, in hundredths, that a column is the saved one: their names are
   the same but for case and spaces (0), but for abbreviations or one letter (1),
   or for two or three letters; otherwise they are not alike. *)
Sureness(likeness) ==
    CASE likeness = 0 -> 100 [] likeness = 1 -> 75 [] likeness = 2 -> 70
      [] likeness = 3 -> 65 [] OTHER -> 0

(* Each column gets the field of a saved column it is most like. *)
FuzzyMatchSavedMappings(columns, saved, likeness) ==
    LET Of(col, old) == Sureness(likeness[col, old])
        Best(col) == Max({0} \cup {Of(col, old) : old \in DOMAIN saved})
        matched == {col \in columns : Best(col) > 0}
    IN  [sure |-> [col \in matched |-> Best(col)],
         maps |-> {m \in [matched -> Range(saved)] :
                      \A col \in matched : \E old \in DOMAIN saved :
                          Of(col, old) = Best(col) /\ m[col] = saved[old]}]

(* Saved mappings of all columns are taken as they are; ones that fit more than
   four fifths, with more than 85 on average, without asking; otherwise the
   model's, whose conflicts are reported. *)
AutoMapColumns(columns, saved, likeness, answers) ==
    LET fuzzy == FuzzyMatchSavedMappings(columns, saved, likeness)
        fitting == Cardinality(DOMAIN fuzzy.sure)
        Result(mapping, conflicts) == [mapping |-> mapping, conflicts |-> conflicts]
    IN  IF saved # <<>> /\ columns \subseteq DOMAIN saved THEN {Result(saved, {})}
        ELSE IF /\ 5 * fitting > 4 * Cardinality(columns)
                /\ SumFunction(fuzzy.sure) > 85 * fitting
             THEN {Result(m, {}) : m \in fuzzy.maps}
             ELSE {Result(<<>>, {})} \cup {Result(m, DetectConflicts(m)) : m \in answers}

(* A column whose name speaks of both sides is one of sales. *)
SideOf(col) == IF col.side = "both" THEN "sales" ELSE col.side

IsMixed(columns) ==
    \A side \in Sides : \E col \in columns : col.side \in {side, "both"}

(* When there are columns of both sides, each is moved to its own. *)
FixMixedColumnMappings(mapping) ==
    [col \in DOMAIN mapping |->
        IF IsMixed(DOMAIN mapping) /\ SideOf(col) \in Sides /\ mapping[col].side \in Sides
        THEN Field(mapping[col].what, SideOf(col)) ELSE mapping[col]]

(* A row under a mapping: of columns mapped to one field any may win. *)
Mapped(row, mapping) ==
    LET fields == {mapping[col] : col \in DOMAIN row}
    IN  {r \in [fields -> {row[col] : col \in DOMAIN row}] :
            \A f \in fields : \E col \in DOMAIN row : mapping[col] = f /\ r[f] = row[col]}

-----------------------------------------------------------------------------
(* The saved workbook: sheets are [side, rows, preview], their names having
   become sides.  Ones that could be cleaned keep their rows, the others only
   what is shown of them. *)
SavedSheet(side, read, cleaned) ==
    [side |-> side, rows |-> IF cleaned THEN read.rows ELSE <<>>,
     preview |-> SheetData(read).preview]

Loadable(sheet) == IF sheet.rows # <<>> THEN sheet.rows ELSE sheet.preview

(* The sheet that is asked for or, if none is (0), all of them in some order;
   rows of several are tagged with their sheet's side.  No rows are an error. *)
LoadRows(sheets, asked) ==
    LET From(s, side) == [i \in DOMAIN Loadable(sheets[s]) |->
                             [cells |-> Loadable(sheets[s])[i], side |-> side]]
    IN  IF asked # 0 THEN {From(asked, "")}
        ELSE IF Len(sheets) = 1 THEN {From(1, "")}
        ELSE {FlattenSeq([k \in DOMAIN order |-> From(order[k], sheets[order[k]].side)]) :
                 order \in SetToSeqs(DOMAIN sheets)}

-----------------------------------------------------------------------------
(* A row becomes a transaction.  Cells: a function from fields. *)
Cell(cells, what, side) == IF Field(what, side) \in DOMAIN cells THEN cells[Field(what, side)] ELSE 0

FirstNonZero(amounts) ==
    LET nonzero == SelectSeq(amounts, LAMBDA a : a # 0)
    IN  IF nonzero = <<>> THEN 0 ELSE nonzero[1]

(* A row with figures or a party of one side only is of that side.  What is
   exempt or zero-rated speaks for a sale, but not for a purchase. *)
InferRowSourceType(cells, default) ==
    LET signals == [sales |-> {"gross", "vatable", "tax", "zero", "exempt", "party"},
                    purchase |-> {"gross", "vatable", "tax", "party"}]
        Has(side) == \E what \in signals[side] : Cell(cells, what, side) # 0
    IN  IF Has("sales") = Has("purchase") THEN default
        ELSE IF Has("sales") THEN "sales" ELSE "purchase"

(* For a row that does not say it itself: what its amount is the amount of. *)
InferVATType(cells, amount) ==
    LET Of(what) == FirstNonZero(<<Cell(cells, what, "sales"), Cell(cells, what, "purchase")>>)
        Is(what) == Of(what) # 0 /\ (Of(what) = amount \/ Of("vatable") = 0)
    IN  IF Is("exempt") THEN "exempt" ELSE IF Is("zero") THEN "zero_rated" ELSE "vatable"

(* The columns whose names hint at an amount, in whatever order. *)
FallbackAmounts(cells) ==
    LET hints == {f \in DOMAIN cells : f.what \notin {"party", "tax", "none"} /\ cells[f] # 0}
    IN  IF hints = {} THEN {0} ELSE {cells[f] : f \in hints}

(* The amounts that are looked for by name. *)
KnownAmount(cells, source) ==
    LET Of(what, side) == Cell(cells, what, side)
    IN  IF source \in Sides
        THEN FirstNonZero(<<Of("vatable", source), Of("gross", source), Of("total", ""),
                            Of("amount", "")>>)
        ELSE FirstNonZero(<<Of("gross", "sales"), Of("gross", "purchase"), Of("total", ""),
                            Of("amount", ""), Of("vatable", "sales")>>)

(* What is imported of a row of a file that is said to be of that source; the
   sides of its sheet and of its cells take precedence. *)
ImportRow(row, said) ==
    LET inferred == InferRowSourceType(row.cells, IF row.side = "" THEN said ELSE row.side)
        source == IF inferred = "combined" THEN "sales" ELSE inferred
        known == KnownAmount(row.cells, source)
    IN  {[source |-> source, amount |-> amount,
          tax |-> FirstNonZero(<<Cell(row.cells, "tax", "sales"), Cell(row.cells, "tax", "purchase")>>),
          type |-> InferVATType(row.cells, amount)] :
             amount \in IF known # 0 THEN {known} ELSE FallbackAmounts(row.cells)}

-----------------------------------------------------------------------------
(* The mirror image of fields, cells and transactions. *)
MirrorField(f) == Field(f.what, Other(f.side))

MirrorCells(cells) ==
    [f \in {MirrorField(g) : g \in DOMAIN cells} |-> cells[MirrorField(f)]]

MirrorRow(row) == [cells |-> MirrorCells(row.cells), side |-> Other(row.side)]
=============================================================================
