----------------------------- MODULE BankParser -----------------------------
(***************************************************************************)
(* Bank statements (bank_parser.go): the columns of a file choose a        *)
(* format, and the format says which columns its entries are read from.    *)
(*                                                                         *)
(* A row is a function from column names, in lower case, to what it holds: *)
(* whole units of money in the columns of amounts, 0 when they are empty,  *)
(* and elsewhere a text, "" for none.  parseDate reads a date alike in     *)
(* every format, because it falls back on all of them; references are left *)
(* out.                                                                    *)
(***************************************************************************)
EXTENDS Integers, Sequences, SequencesExt, FiniteSets, FiniteSetsExt

StatementFormat(dates, descs, debit, credit, amount) ==
    [dates |-> dates, descs |-> descs, debit |-> debit, credit |-> credit, amount |-> amount]

BankFormats ==
    [BDO |-> StatementFormat(<<"date", "posting date", "transaction date">>,
                 <<"description", "particulars", "remarks">>, "debit", "credit", ""),
     BPI |-> StatementFormat(<<"date", "transaction date", "posting date">>,
                 <<"remarks", "description", "particulars">>, "withdrawal", "deposit", ""),
     Metrobank |-> StatementFormat(<<"date", "transaction date">>,
                 <<"description", "remarks">>, "debit", "credit", ""),
     PayPal |-> StatementFormat(<<"date", "date/time">>,
                 <<"name", "subject", "description", "item title">>,
                 "", "", "amount"),
     Stripe |-> StatementFormat(<<"created (utc)", "created", "date">>,
                 <<"description", "customer description">>, "", "", "amount"),
     GCash |-> StatementFormat(<<"date", "transaction date">>,
                 <<"transaction type", "description", "reference">>, "", "", "amount"),
     Generic |-> StatementFormat(<<"date", "transaction date", "posting date", "value date">>,
                 <<"description", "remarks", "particulars", "memo", "narrative">>,
                 "debit", "credit", "amount")]

FormatScore(format, columns) ==
    LET HasOne(names) == IF ToSet(names) \cap columns = {} THEN 0 ELSE 2
    IN  HasOne(format.dates) + HasOne(format.descs)
            + Cardinality(columns \cap ({format.debit, format.credit, format.amount} \ {""}))

(* The best of the formats; of equally good ones, whichever the map yields. *)
DetectBankFormat(columns) ==
    LET named == DOMAIN BankFormats \ {"Generic"}
        Of(n) == FormatScore(BankFormats[n], columns)
        best == Max({Of(n) : n \in named})
    IN  IF best < 3 THEN {"Generic"} ELSE {n \in named : Of(n) = best}

(* The first candidate there is, "" if there is none. *)
FindColumn(columns, candidates) ==
    LET found == SelectSeq(candidates, LAMBDA name : name \in columns)
    IN  IF found = <<>> THEN "" ELSE found[1]

Held(row, column, none) == IF column \in DOMAIN row THEN row[column] ELSE none

Entry(type, amount, row, format) ==
    [type |-> type, amount |-> amount,
     date |-> Held(row, FindColumn(DOMAIN row, format.dates), ""),
     desc |-> Held(row, FindColumn(DOMAIN row, format.descs), "")]

(* A format with two columns never looks at the third; a credit hides the
   debit beside it. *)
ParseBankRow(row, format) ==
    LET debit == Held(row, format.debit, 0)
        credit == Held(row, format.credit, 0)
        amount == Held(row, format.amount, 0)
        Abs(x) == IF x < 0 THEN -x ELSE x
    IN  IF format.debit # ""
        THEN IF credit # 0 THEN Entry("credit", Abs(credit), row, format)
                           ELSE Entry("debit", Abs(debit), row, format)
        ELSE IF amount < 0 THEN Entry("debit", -amount, row, format)
                           ELSE Entry("credit", amount, row, format)

ParseBankStatement(rows, format) ==
    SelectSeq([i \in DOMAIN rows |-> ParseBankRow(rows[i], format)],
              LAMBDA entry : ~(entry.amount = 0 /\ entry.desc = ""))
=============================================================================
