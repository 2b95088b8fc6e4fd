------------------------------ MODULE TaxEngine ------------------------------
(***************************************************************************)
(* The calculators behind the tax forms (tax_engine.go, sg_tax_engine.go,  *)
(* lk_tax_engine.go) and the VAT summary of a session with its comparison  *)
(* (reconciliation_engine.go).                                             *)
(*                                                                         *)
(* Decimals are exact; amounts here are integers of which the percentages  *)
(* used are whole.  Incomes are in thousands, so that an income times a    *)
(* rate per mille is a tax in units.                                       *)
(***************************************************************************)
EXTENDS Integers, Sequences, SequencesExt, FiniteSets

Positive(x) == IF x > 0 THEN x ELSE 0
Smaller(x, y) == IF x < y THEN x ELSE y
SumOf(Of(_), rows) == FoldLeft(LAMBDA sum, row : sum + Of(row), 0, rows)

-----------------------------------------------------------------------------
(* Progressive schedules.  The last bracket has no upper limit. *)

Bracket(over, base, rate) == [over |-> over, base |-> base, rate |-> rate]

TRAINBrackets == <<
    Bracket(0, 0, 0), Bracket(250, 0, 150), Bracket(400, 22500, 200),
    Bracket(800, 102500, 250), Bracket(2000, 402500, 300), Bracket(8000, 2202500, 350)>>

SGTaxBrackets == <<
    Bracket(0, 0, 0), Bracket(20, 0, 20), Bracket(30, 200, 35), Bracket(40, 550, 70),
    Bracket(80, 3350, 115), Bracket(120, 7950, 150), Bracket(160, 13950, 180),
    Bracket(200, 21150, 190), Bracket(240, 28750, 195), Bracket(280, 36550, 200),
    Bracket(320, 44550, 220), Bracket(500, 84150, 230), Bracket(1000, 199150, 240)>>

LKIncomeTaxBrackets == <<
    Bracket(0, 0, 0), Bracket(500, 0, 60), Bracket(1000, 30000, 120),
    Bracket(1500, 90000, 180), Bracket(2000, 180000, 240), Bracket(2500, 300000, 300),
    Bracket(3000, 450000, 360)>>

(* The first bracket whose limit is not exceeded. *)
BracketOf(brackets, x) ==
    CHOOSE i \in DOMAIN brackets :
        /\ i > 1 => x > brackets[i].over
        /\ i < Len(brackets) => x <= brackets[i + 1].over

(* Mutant: the excess is counted from zero. *)
WholeIncome(brackets, x) == x * brackets[BracketOf(brackets, x)].rate
Excess(brackets, x) ==
    LET b == brackets[BracketOf(brackets, x)] IN (x - b.over) * b.rate

(* computeGraduatedTax and computeSGProgressiveTax *)
BaseAndExcess(brackets, x) ==
    IF x <= 0 THEN 0 ELSE brackets[BracketOf(brackets, x)].base + Excess(brackets, x)

(* calculateLKProgressiveTax: slice by slice, without the base amounts. *)
SliceBySlice(brackets, x) ==
    LET Top(i) == IF i < Len(brackets) THEN brackets[i + 1].over ELSE x
    IN  FoldLeft(LAMBDA tax, i : tax + brackets[i].rate
                       * Positive(Smaller(x, Top(i)) - brackets[i].over),
                 0, [i \in DOMAIN brackets |-> i])

GraduatedTax(x) == BaseAndExcess(TRAINBrackets, x)
SGProgressiveTax(x) == BaseAndExcess(SGTaxBrackets, x)
LKProgressiveTax(x) == SliceBySlice(LKIncomeTaxBrackets, x)

-----------------------------------------------------------------------------
(* Corporate income tax of Singapore, in units: 75% of the first 10,000 and
   50% of the next 190,000 are exempt; the rate is 17%. *)

PartialExemption(x) ==
    IF x <= 0 THEN 0
    ELSE (75 * Smaller(x, 10000) + 50 * Positive(Smaller(x - 10000, 190000))) \div 100

CorporateTax(x) == (17 * Positive(x - PartialExemption(x))) \div 100

(* Adjusted profit of a company: what the three forms start from. *)
Profit(c) == c.revenue - c.costs + c.nonDeductible - c.allowances

(* Donations count two and a half times. *)
FormC(c) ==
    CorporateTax(Positive(Profit(c) - (5 * c.donations) \div 2 - c.losses))

(* Mutant: a loss is not taken for zero. *)
FormCSUnfloored(c) ==
    IF c.revenue > 5000000 THEN -1
    ELSE (17 * (Profit(c) - PartialExemption(Profit(c)))) \div 100

(* -1: refused, the company is too large for the simplified form. *)
FormCS(c) ==
    IF c.revenue > 5000000 THEN -1 ELSE CorporateTax(Positive(Profit(c)))

ECI(c) == CorporateTax(Positive(Profit(c)))

-----------------------------------------------------------------------------
(* Value added tax of the Philippines.  A transaction of a session is a sale
   or a purchase with a VAT type, a category and a VAT amount, 0 if none. *)

VAT(x) == (12 * x) \div 100
GovtVAT(x) == (5 * x) \div 100

Given(t, computed) == IF t.vat # 0 THEN t.vat ELSE computed

IsSale(t) == t.source = "sales_record"
Sales(txns, type) == SelectSeq(txns, LAMBDA t : IsSale(t) /\ t.type = type)
VatableSales(txns) ==
    SelectSeq(txns, LAMBDA t : IsSale(t) /\ t.type \notin {"government", "zero_rated", "exempt"})
Purchases(txns, cat) == SelectSeq(txns, LAMBDA t : ~IsSale(t) /\ t.category = cat)

Amount(t) == t.amount

(* Sales lines are summed alike by the summary and by the form. *)
SalesLines(txns) ==
    [vatable    |-> SumOf(Amount, VatableSales(txns)),
     government |-> SumOf(Amount, Sales(txns, "government")),
     zeroRated  |-> SumOf(Amount, Sales(txns, "zero_rated")),
     exempt     |-> SumOf(Amount, Sales(txns, "exempt"))]

Categories == {"goods", "capital", "services", "imports"}

TotalInput(lines) == lines.goods + lines.capital + lines.services + lines.imports

SummaryGovt(txns) ==
    SumOf(LAMBDA t : Given(t, GovtVAT(t.amount)), Sales(txns, "government"))

(* GenerateVATSummary: tax is taken as given or computed row by row, and a
   purchase that is exempt or zero-rated has none of its own. *)
SummaryInputTax(t) == Given(t, IF t.type \in {"exempt", "zero_rated"} THEN 0 ELSE VAT(t.amount))

GenerateVATSummary(txns) ==
    [sales |-> SalesLines(txns),
     output |-> SumOf(LAMBDA t : Given(t, VAT(t.amount)), VatableSales(txns)),
     outputGovt |-> SummaryGovt(txns),
     input |-> [c \in Categories |-> SumOf(SummaryInputTax, Purchases(txns, c))]]

(* CalculateBIR2550M of uploaded rows: once one sale has a tax of its own,
   the output tax is the sum of those that are given, for every sale. *)
ExplicitTax(txns) == SumOf(LAMBDA t : t.vat, SelectSeq(txns, IsSale))
HasExplicitTax(txns) == \E i \in DOMAIN txns : IsSale(txns[i]) /\ txns[i].vat # 0

RowInputTax(t) == Given(t, VAT(t.amount))

OutputOfRows(txns) ==
    IF HasExplicitTax(txns) THEN ExplicitTax(txns)
    ELSE VAT(SumOf(Amount, VatableSales(txns)))

FormOfRows(txns) ==
    [sales |-> SalesLines(txns),
     output |-> OutputOfRows(txns),
     outputGovt |-> GovtVAT(SumOf(Amount, Sales(txns, "government"))),
     input |-> [c \in Categories |-> SumOf(RowInputTax, Purchases(txns, c))]]

(* CalculateBIR2550M of a summary: its lines, if any of the five that tell
   whether there is one is not zero. *)
HasSummary(s) ==
    \/ s.sales.vatable # 0 \/ s.output # 0
    \/ s.sales.vatable + s.sales.government + s.sales.zeroRated + s.sales.exempt # 0
    \/ s.output + s.outputGovt # 0
    \/ TotalInput(s.input) # 0
FormOfSummary(s) == IF HasSummary(s) THEN s ELSE FormOfRows(<<>>)

(* CompareWithDeclared: which lines of a declared form differ. *)
FormLines(form) ==
    <<form.sales.vatable, form.sales.government, form.sales.zeroRated, form.sales.exempt,
      form.sales.vatable + form.sales.government + form.sales.zeroRated + form.sales.exempt,
      form.output, form.outputGovt, form.output + form.outputGovt,
      form.input.goods, form.input.capital, form.input.services, form.input.imports,
      TotalInput(form.input)>>

LinesApart(summary, declared) ==
    {n \in 1..13 : FormLines(summary)[n] # FormLines(declared)[n]}
=============================================================================
