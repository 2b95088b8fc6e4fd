----------------------------- MODULE Purchasing -----------------------------
(***************************************************************************)
(* Invoices, vendors, withholding certificates and the classification of   *)
(* payments for withholding tax: service/invoice_service.go,               *)
(* vendor_service.go, withholding_service.go, ewt_rates.go and their       *)
(* handlers.                                                               *)
(*                                                                         *)
(* Amounts of requests are in thousandths of a cent, stored ones in cents. *)
(***************************************************************************)
EXTENDS Requests

CONSTANTS
    Orders,      \* the lines of the invoices asked for, [net, type]
    MaxNumber,   \* the largest number a 32-bit integer holds
    TINs, ATCs,  \* taxpayer numbers, NoText for none; the ATC codes given, NoText for none
    Payments,    \* what is classified, [tin, words, exempt, individual]
    RateTable,    \* the rate table: code -> [keywords, rate, prefix]
    LearnedRules,  \* the active rules, most confident first: [words, tins, field, value]
    MaxListed    \* certificates a summary reads at most: 1000

PurchasingParts == {"invoices", "vendors"}

ASSUME PurchasingAssumption ==
    /\ \A lines \in Orders : lines \in Seq([net : Int, type : STRING])
    /\ MaxNumber \in Nat /\ MaxListed \in Nat /\ NoText \notin DOMAIN RateTable

(* The tables.  invoices: id -> [number, auto, status, lines (asked for),
   subtotal, vat, total, items]; vendors: id -> [tin, atc, vat]; certificates
   in the order of creation.  `made` counts ids; `deleted`, `broken` and
   `unsure` remember the statuses of the invoices deleted, the creations that
   ended in an item, and whether a TIN may be there twice: an update has given a
   vendor one, or a vendor was created though the lookup of its TIN failed. *)

Cents(x) == (x + 500) \div 1000  \* floatToNum, no inputs being ties

LineVAT(line) == IF line.type = "vatable" THEN (line.net * 12) \div 100 ELSE 0

(* The sum of all that a sequence or a table has. *)
SumLines(values) == AddAll(values, DOMAIN values)

(* The totals of the invoice, and its items: each rounded on its own. *)
Invoice(number, auto, lines) ==
    [number |-> number, auto |-> auto, status |-> "draft", lines |-> Len(lines), items |-> <<>>,
     subtotal |-> Cents(SumLines([k \in DOMAIN lines |-> lines[k].net])),
     vat |-> Cents(SumLines([k \in DOMAIN lines |-> LineVAT(lines[k])])),
     total |-> Cents(SumLines([k \in DOMAIN lines |-> lines[k].net + LineVAT(lines[k])]))]

Item(line) == [amount |-> Cents(line.net), vat |-> Cents(LineVAT(line))]

-----------------------------------------------------------------------------
(* Queries. *)
(* Mutant: the invoices are counted, as if none were ever deleted. *)
CountedInvoiceNumber(db) == Cardinality(DOMAIN db.invoices) + 1

GetNextInvoiceNumber(db) == Max({0} \cup {db.invoices[i].number : i \in DOMAIN db.invoices}) + 1

CreateInvoice(db, invoice) ==
    [db EXCEPT !.invoices = With(@, db.made + 1, invoice), !.made = @ + 1]

CanCreateInvoice(db, invoice) ==  \* the unique index on the number's text
    \A i \in DOMAIN db.invoices :
        ~(db.invoices[i].number = invoice.number /\ db.invoices[i].auto = invoice.auto)

CreateInvoiceItem(db, id, line) == [db EXCEPT !.invoices[id].items = Append(@, Item(line))]

GetInvoiceByID(db, id) == {i \in DOMAIN db.invoices : i = id}

ListInvoicesByCompany(db, status) ==
    {i \in DOMAIN db.invoices : status \in {NoText, db.invoices[i].status}}

CountInvoicesByCompany(db, status) == Cardinality(ListInvoicesByCompany(db, status))

ListInvoiceItems(db, id) == IF id \in DOMAIN db.invoices THEN db.invoices[id].items ELSE <<>>

UpdateInvoiceStatus(db, id, status) ==
    IF id \in DOMAIN db.invoices THEN [db EXCEPT !.invoices[id].status = status] ELSE db

DeleteInvoice(db, id) ==
    [db EXCEPT !.invoices = Without(@, {id}),
               !.deleted = @ \cup {db.invoices[i].status : i \in GetInvoiceByID(db, id)}]

GetVendorByID(db, v) == {w \in DOMAIN db.vendors : w = v}

GetVendorByTIN(db, tin) == {v \in DOMAIN db.vendors : db.vendors[v].tin = tin}

CreateVendor(db, vendor) ==
    [db EXCEPT !.vendors = With(@, db.made + 1, vendor), !.made = @ + 1]

UpdateVendor(db, v, vendor) ==
    IF v \in DOMAIN db.vendors THEN [db EXCEPT !.vendors[v] = vendor] ELSE db

(* The foreign keys of the certificates hold a vendor back. *)
CanDeleteVendor(db, v) == \A k \in DOMAIN db.certificates : db.certificates[k].vendor # v

DeleteVendor(db, v) == [db EXCEPT !.vendors = Without(@, {v})]

ListVendorsByCompany(db) == DOMAIN db.vendors

SearchVendorsByCompany(db, tin) == {v \in DOMAIN db.vendors : db.vendors[v].tin = tin}

CountVendorsByCompany(db) == Cardinality(DOMAIN db.vendors)

CreateWithholdingCertificate(db, cert) == [db EXCEPT !.certificates = Append(@, cert)]

(* The latest certificates, as their positions. *)
ListWithholdingByCompany(db, limit) ==
    {k \in DOMAIN db.certificates : k > Len(db.certificates) - limit}

CountWithholdingByCompany(db) == Len(db.certificates)

-----------------------------------------------------------------------------
(* Classification for withholding tax. *)

(* How well a code's keywords fit; those with the best score above zero.  The
   rates are ranged over in no particular order, so any of them may be it. *)
ATCScore(code, words, individual) ==
    LET hits == Cardinality(RateTable[code].keywords \cap words)
        prefix == IF individual THEN "WI" ELSE "WC"
    IN  IF hits = 0 THEN 0 ELSE hits + IF RateTable[code].prefix = prefix THEN 2 ELSE 0

FindATCByKeywords(words, individual) ==
    {code \in DOMAIN RateTable :
        /\ ATCScore(code, words, individual) > 0
        /\ \A other \in DOMAIN RateTable :
               ATCScore(other, words, individual) <= ATCScore(code, words, individual)}

KnownCode(code) == code \in DOMAIN RateTable

Classified(applicable, code, source) ==
    [applicable |-> applicable, code |-> code, source |-> source]

(* `known`: the codes of the vendors this batch has read, by TIN. *)
ClassifyEWTRuleBased(tx, known) ==
    LET default == IF tx.tin \in DOMAIN known THEN known[tx.tin] ELSE NoText
    IN  IF tx.exempt THEN {Classified(FALSE, NoText, "exempt")}
        ELSE IF KnownCode(default) THEN {Classified(TRUE, default, "vendor")}
        ELSE {Classified(TRUE, code, "keywords") :
                 code \in FindATCByKeywords(tx.words, tx.individual)}

(* The first rule that matches and has something to say. *)
ApplyLearnedEWTRules(tx, rules) ==
    LET says == SelectSeq(rules, LAMBDA r :
                    /\ r.words \cap tx.words # {} \/ tx.tin \in r.tins
                    /\ \/ r.field = "atc_code" /\ KnownCode(r.value)
                       \/ r.field = "ewt_applicable" /\ r.value = "false")
    IN  {Classified(says[i].field = "atc_code",
                    IF says[i].field = "atc_code" THEN says[i].value ELSE NoText, "learned") :
            i \in DOMAIN says \cap {1}}

ClassifyEWT(tx, known, rules) ==
    IF ClassifyEWTRuleBased(tx, known) # {} THEN ClassifyEWTRuleBased(tx, known)
    ELSE IF ApplyLearnedEWTRules(tx, rules) # {} THEN ApplyLearnedEWTRules(tx, rules)
    ELSE {Classified(FALSE, NoText, "default")}

(* The alphalist of a period (NoText for all): income and tax by code, from the
   certificates the summary reads. *)
SAWT(db, listed, period) ==
    LET of == {k \in listed : period \in {NoText, db.certificates[k].period}}
        Coded(code) == {k \in of : db.certificates[k].atc = code}
    IN  [code \in {db.certificates[k].atc : k \in of} |->
            [income |-> SumLines([k \in Coded(code) |-> db.certificates[k].income]),
             tax |-> SumLines([k \in Coded(code) |-> db.certificates[k].tax])]]

-----------------------------------------------------------------------------
(* What the handlers make of the outcomes.  A request that does not parse is
   answered 400 before its first statement and left out. *)
InvoiceCreateResponses == [Done |-> 201, Failed |-> 500]
InvoiceGetResponses == [Done |-> 200, NotFound |-> 404]
InvoiceStatusResponses == [Done |-> 200]
InvoiceDeleteResponses == [Done |-> 200, NotDraft |-> 400, Failed |-> 500]
VendorCreateResponses == [Done |-> 201, Exists |-> 409]
VendorUpdateResponses == [Done |-> 200, Failed |-> 404]
VendorDeleteResponses == [Done |-> 200, Failed |-> 404]
CertificateResponses == [Done |-> 201, Failed |-> 500]
DownloadResponses == [Done |-> 200, NotFound |-> 404]

InvoiceStatuses == {"draft", "sent", "paid", "cancelled", "overdue"}

(* A page and, in a statement of its own, its total. *)
Listed(c, op, filter, page) ==
    Begin(c, [op |-> op, at |-> "count", filter |-> filter, page |-> page])

Counted(c, op, total) ==
    /\ At(c, op, "count") /\ Reads
    /\ Continue(c, [op |-> op, at |-> "answered", page |-> calls[c].page, total |-> total])

-----------------------------------------------------------------------------
(* Invoices: a number is taken, the invoice inserted, then its items. *)
InvoiceCreate(c) ==
    /\ Free({"invoices"}, c)
    /\ \E lines \in Orders, given \in {0, 1, MaxNumber} :
           LET next == GetNextInvoiceNumber(rows)
           IN  /\ Reads
               /\ IF given = 0 /\ next > MaxNumber  \* out of range
                  THEN AnswerAtOnce(c, "invoice", InvoiceCreateResponses.Failed)
                  ELSE Begin(c, [op |-> "invoice", at |-> "insert", lines |-> lines,
                                 auto |-> given = 0, number |-> IF given = 0 THEN next ELSE given])

InvoiceInsert(c) ==
    LET call == calls[c]
        invoice == Invoice(call.number, call.auto, call.lines)
    IN  /\ At(c, "invoice", "insert")
        /\ IF CanCreateInvoice(rows, invoice)
           THEN /\ Store(CreateInvoice(rows, invoice))
                /\ Continue(c, [op |-> "invoice", at |-> "items", id |-> rows.made + 1,
                                rest |-> call.lines])
           ELSE /\ Reads
                /\ Continue(c, [op |-> "invoice", at |-> "answered",
                                status |-> InvoiceCreateResponses.Failed, auto |-> call.auto])

InvoiceItem(c) ==
    LET call == calls[c]
    IN  /\ At(c, "invoice", "items") /\ call.rest # <<>> /\ call.id \in DOMAIN rows.invoices
        /\ Store(CreateInvoiceItem(rows, call.id, Head(call.rest)))
        /\ Continue(c, [call EXCEPT !.rest = Tail(@)])

(* An item the table refuses, or whose invoice has been deleted. *)
InvoiceItemFails(c) ==
    /\ At(c, "invoice", "items") /\ calls[c].rest # <<>>
    /\ Store([rows EXCEPT !.broken = @ \cup {calls[c].id}])
    /\ Answer(c, InvoiceCreateResponses.Failed)

InvoiceCreated(c) ==
    /\ At(c, "invoice", "items") /\ calls[c].rest = <<>>
    /\ Reads /\ Answer(c, InvoiceCreateResponses.Done)

(* Get, and the export for the tax office, which shows the same two reads. *)
InvoiceGet(c) ==
    /\ Free({"invoices"}, c)
    /\ \E id \in 1..rows.made :
           /\ Reads
           /\ IF GetInvoiceByID(rows, id) = {}
              THEN AnswerAtOnce(c, "get", InvoiceGetResponses.NotFound)
              ELSE Begin(c, [op |-> "get", at |-> "items", id |-> id,
                             lines |-> rows.invoices[id].lines])

InvoiceGetItems(c) ==
    /\ At(c, "get", "items") /\ Reads
    /\ Continue(c, [op |-> "get", at |-> "answered", id |-> calls[c].id, lines |-> calls[c].lines,
                    items |-> Len(ListInvoiceItems(rows, calls[c].id))])

InvoiceList(c) ==
    /\ Free({"invoices"}, c)
    /\ \E status \in {NoText, "draft"} :
           /\ Reads
           /\ Listed(c, "list", status, ListInvoicesByCompany(rows, status))

InvoiceListCounts(c) ==
    At(c, "list", "count") /\ Counted(c, "list", CountInvoicesByCompany(rows, calls[c].filter))

(* Any status may follow any other, and an id that is not there is no error. *)
InvoiceUpdateStatus(c) ==
    /\ Free({"invoices"}, c)
    /\ \E id \in 1..rows.made, status \in InvoiceStatuses :
           /\ Store(UpdateInvoiceStatus(rows, id, status))
           /\ AnswerAtOnce(c, "status", InvoiceStatusResponses.Done)

InvoiceDelete(c) ==
    /\ Free({"invoices"}, c)
    /\ \E id \in 1..rows.made :
           /\ Reads
           /\ IF GetInvoiceByID(rows, id) = {}
              THEN AnswerAtOnce(c, "delete", InvoiceDeleteResponses.Failed)
              ELSE IF rows.invoices[id].status # "draft"
              THEN AnswerAtOnce(c, "delete", InvoiceDeleteResponses.NotDraft)
              ELSE Begin(c, [op |-> "delete", at |-> "delete", id |-> id])

InvoiceDeletes(c) ==
    /\ At(c, "delete", "delete")
    /\ Store(DeleteInvoice(rows, calls[c].id))
    /\ Answer(c, InvoiceDeleteResponses.Done)

-----------------------------------------------------------------------------
(* Vendors.  Create takes whatever error its lookup ends with for a TIN that
   nobody has: a vendor that is there is found, or overlooked. *)
Overlooked == Store([rows EXCEPT !.unsure = TRUE])

VendorCreate(c) ==
    /\ Free({"vendors"}, c)
    /\ \E tin \in TINs, atc \in ATCs :
           LET insert == [op |-> "vendor", at |-> "insert",
                          vendor |-> [tin |-> tin, atc |-> atc, vat |-> FALSE]]
           IN  IF tin # NoText /\ GetVendorByTIN(rows, tin) # {}
               THEN \/ Reads /\ AnswerAtOnce(c, "vendor", VendorCreateResponses.Exists)
                    \/ Overlooked /\ Begin(c, insert)
               ELSE Reads /\ Begin(c, insert)

VendorInsert(c) ==
    /\ At(c, "vendor", "insert")
    /\ Store(CreateVendor(rows, calls[c].vendor))
    /\ Answer(c, VendorCreateResponses.Done)

(* What a patch leaves out is written as it was read, but for the VAT
   registration, which it then takes away. *)
VendorUpdate(c) ==
    /\ Free({"vendors"}, c)
    /\ \E v \in 1..rows.made, tin \in TINs, atc \in ATCs, vat \in BOOLEAN :
           /\ Reads
           /\ IF GetVendorByID(rows, v) = {}
              THEN AnswerAtOnce(c, "patch", VendorUpdateResponses.Failed)
              ELSE Begin(c, [op |-> "patch", at |-> "write", id |-> v,
                             vendor |-> [tin |-> IF tin = NoText THEN rows.vendors[v].tin ELSE tin,
                                         atc |-> IF atc = NoText THEN rows.vendors[v].atc ELSE atc,
                                         vat |-> vat]])

VendorUpdateWrites(c) ==
    LET call == calls[c]
        db == UpdateVendor(rows, call.id, call.vendor)
    IN  /\ At(c, "patch", "write")
        /\ Store([db EXCEPT !.unsure = @ \/ \E v \in GetVendorByID(rows, call.id) :
                                            rows.vendors[v].tin # call.vendor.tin])
        /\ Continue(c, [op |-> "patch", at |-> "reread", id |-> call.id])

VendorUpdateRereads(c) ==
    /\ At(c, "patch", "reread") /\ Reads
    /\ Answer(c, IF GetVendorByID(rows, calls[c].id) = {} THEN VendorUpdateResponses.Failed
                                                          ELSE VendorUpdateResponses.Done)

VendorDelete(c) ==
    /\ Free({"vendors"}, c)
    /\ \E v \in 1..rows.made :
           /\ Reads
           /\ IF GetVendorByID(rows, v) = {}
              THEN AnswerAtOnce(c, "unvendor", VendorDeleteResponses.Failed)
              ELSE Begin(c, [op |-> "unvendor", at |-> "delete", id |-> v])

VendorDeletes(c) ==
    /\ At(c, "unvendor", "delete")
    /\ IF CanDeleteVendor(rows, calls[c].id)
       THEN Store(DeleteVendor(rows, calls[c].id)) /\ Answer(c, VendorDeleteResponses.Done)
       ELSE Reads /\ Answer(c, VendorDeleteResponses.Failed)

(* A search counts the vendors it did not look for as well. *)
VendorList(c) ==
    /\ Free({"vendors"}, c)
    /\ \E tin \in TINs :
           /\ Reads
           /\ Listed(c, "vendors", tin, IF tin = NoText THEN ListVendorsByCompany(rows)
                                                    ELSE SearchVendorsByCompany(rows, tin))

VendorListCounts(c) == Counted(c, "vendors", CountVendorsByCompany(rows))

-----------------------------------------------------------------------------
(* Certificates. *)
CertificateCreate(c) ==
    /\ Free({"vendors"}, c)
    /\ \E v \in 1..rows.made, atc \in ATCs \ {NoText}, period \in {"p1", "p2"} :
           /\ IF GetVendorByID(rows, v) # {}
              THEN /\ Store(CreateWithholdingCertificate(rows,
                               [vendor |-> v, atc |-> atc, period |-> period, income |-> 100,
                                tax |-> IF period = "p1" THEN 5 ELSE 7]))
                   /\ AnswerAtOnce(c, "certificate", CertificateResponses.Done)
              ELSE Reads /\ AnswerAtOnce(c, "certificate", CertificateResponses.Failed)

CertificateDownload(c) ==
    /\ Free({"vendors"}, c)
    /\ \E k \in 0..Len(rows.certificates) :
           /\ Reads
           /\ IF k = 0
              THEN AnswerAtOnce(c, "download", DownloadResponses.NotFound)
              ELSE Begin(c, [op |-> "download", at |-> "vendor",
                             vendor |-> rows.certificates[k].vendor])

(* The vendor is printed if it is found, and left out if the lookup fails. *)
CertificateVendor(c) ==
    /\ At(c, "download", "vendor") /\ Reads
    /\ \/ Continue(c, [op |-> "download", at |-> "answered", status |-> DownloadResponses.Done,
                       printed |-> GetVendorByID(rows, calls[c].vendor) # {}])
       \/ Answer(c, DownloadResponses.Done)

GetSAWT(c) ==
    /\ Free({"vendors"}, c)
    /\ \E period \in {NoText, "p1"} :
           /\ Reads
           /\ Begin(c, [op |-> "sawt", at |-> "count", period |-> period,
                        entries |-> SAWT(rows, ListWithholdingByCompany(rows, MaxListed), period)])

GetSAWTCounts(c) ==
    /\ At(c, "sawt", "count") /\ Reads
    /\ Continue(c, [op |-> "sawt", at |-> "answered", period |-> calls[c].period,
                    entries |-> calls[c].entries, total |-> CountWithholdingByCompany(rows)])

-----------------------------------------------------------------------------
(* Classification of a batch: the vendors and the rules are read once, none if
   that fails; a vendor that is not among them is looked up, created if need
   be, and read again. *)
Classify(c) ==
    /\ Free({"vendors"}, c)
    /\ \E batch \in Payments \X Payments, seen \in SUBSET ListVendorsByCompany(rows),
          rules \in {LearnedRules, <<>>} :
           LET tins == {rows.vendors[v].tin : v \in seen}
           IN  /\ Reads
               /\ Cardinality(seen) \in {0, Min({MaxListed, CountVendorsByCompany(rows)})}
               /\ \E known \in [tins -> {rows.vendors[v].atc : v \in seen}] :
                     /\ \A tin \in tins : \E v \in seen :
                           rows.vendors[v].tin = tin /\ rows.vendors[v].atc = known[tin]
                     /\ Begin(c, [op |-> "classify", at |-> "lookup", batch |-> batch,
                                  known |-> known, rules |-> rules, results |-> <<>>])

Current(call) == call.batch[Len(call.results) + 1]

(* VendorService.FindOrCreate for a TIN the batch does not know. *)
ClassifyLooksUp(c) ==
    LET call == calls[c]
    IN  /\ At(c, "classify", "lookup") /\ Reads
        /\ \E found \in Found(GetVendorByTIN(rows, Current(call).tin)) :
               Continue(c, [call EXCEPT !.at =
                   IF Current(call).tin \in {NoText} \cup DOMAIN call.known THEN "decide"
                   ELSE IF found # {} THEN "fetch" ELSE "check"])

(* Its Create looks again, and fails if it finds the vendor. *)
ClassifyChecks(c) ==
    LET Goes(step) == Continue(c, [calls[c] EXCEPT !.at = step])
    IN  /\ At(c, "classify", "check")
        /\ IF GetVendorByTIN(rows, Current(calls[c]).tin) # {}
           THEN \/ Reads /\ Goes("decide")
                \/ Overlooked /\ Goes("insert")
           ELSE Reads /\ Goes("insert")

ClassifyInserts(c) ==
    /\ At(c, "classify", "insert")
    /\ Store(CreateVendor(rows, [tin |-> Current(calls[c]).tin, atc |-> NoText, vat |-> TRUE]))
    /\ Continue(c, [calls[c] EXCEPT !.at = "fetch"])

ClassifyFetches(c) ==
    LET tin == Current(calls[c]).tin
    IN  /\ At(c, "classify", "fetch") /\ Reads
        /\ \/ Continue(c, [calls[c] EXCEPT !.at = "decide"])  \* not found, or an error
           \/ \E v \in GetVendorByTIN(rows, tin) :
                 Continue(c, [calls[c] EXCEPT !.at = "decide",
                                              !.known = With(@, tin, rows.vendors[v].atc)])

ClassifyDecides(c) ==
    LET call == calls[c]
    IN  /\ At(c, "classify", "decide") /\ Reads
        /\ \E result \in ClassifyEWT(Current(call), call.known, call.rules) :
               Continue(c, [op |-> "classify", batch |-> call.batch, known |-> call.known,
                            rules |-> call.rules,
                            results |-> Append(call.results, result),
                            at |-> IF Len(call.results) = 1 THEN "answered" ELSE "lookup"])

PurchasingNext ==
    \E c \in Serving(PurchasingParts) :
        \/ InvoiceCreate(c) \/ InvoiceInsert(c) \/ InvoiceItem(c) \/ InvoiceItemFails(c)
        \/ InvoiceCreated(c) \/ InvoiceGet(c) \/ InvoiceGetItems(c)
        \/ InvoiceList(c) \/ InvoiceListCounts(c) \/ InvoiceUpdateStatus(c)
        \/ InvoiceDelete(c) \/ InvoiceDeletes(c)
        \/ VendorCreate(c) \/ VendorInsert(c) \/ VendorUpdate(c) \/ VendorUpdateWrites(c)
        \/ VendorUpdateRereads(c) \/ VendorDelete(c) \/ VendorDeletes(c)
        \/ VendorList(c) \/ VendorListCounts(c)
        \/ CertificateCreate(c) \/ CertificateDownload(c) \/ CertificateVendor(c)
        \/ GetSAWT(c) \/ GetSAWTCounts(c)
        \/ Classify(c) \/ ClassifyLooksUp(c) \/ ClassifyChecks(c) \/ ClassifyInserts(c)
        \/ ClassifyFetches(c) \/ ClassifyDecides(c)

-----------------------------------------------------------------------------
(* The invoice's subtotal is the sum of its items up to the rounding of each,
   and its total that of subtotal and VAT, though they are computed in two
   loops; an invoice short of items is being created, or its creation failed
   on the way; and a reader alone sees all of a whole one. *)
InvoicesAddUp ==
    \A i \in DOMAIN rows.invoices :
        LET inv == rows.invoices[i]
            items == SumLines([k \in DOMAIN inv.items |-> inv.items[k].amount])
            vat == SumLines([k \in DOMAIN inv.items |-> inv.items[k].vat])
            Near(a, b) == 2 * (a - b) \in -(inv.lines + 1)..(inv.lines + 1)
        IN  IF Len(inv.items) = inv.lines
            THEN /\ Near(inv.subtotal, items) /\ Near(inv.vat, vat)
                 /\ inv.total - inv.subtotal - inv.vat \in -1..1
            ELSE i \in rows.broken \/ \E c \in Waiting("invoice", "items") : calls[c].id = i

InvoicesReadWhole ==
    Alone => \A c \in Callers :
        (calls[c].op = "get" /\ "items" \in DOMAIN calls[c] /\ calls[c].id \notin rows.broken)
            => calls[c].items = calls[c].lines

(* A number the system gave itself is refused, and an invoice past draft is
   deleted, only when another request came in between. *)
NumbersAndDeletionsAlone ==
    Alone =>
        /\ rows.deleted \subseteq {"draft"}
        /\ \A c \in Callers : (calls[c].op = "invoice" /\ "auto" \in DOMAIN calls[c]
                                 /\ calls[c].at = "answered") => ~calls[c].auto

(* Two vendors share a TIN only after an update, a lookup that failed or a race;
   a certificate keeps its vendor, so a download that looks it up prints it. *)
VendorsDistinct ==
    /\ (Alone /\ ~rows.unsure) =>
           \A tin \in TINs \ {NoText} : Cardinality(GetVendorByTIN(rows, tin)) <= 1
    /\ \A k \in DOMAIN rows.certificates : GetVendorByID(rows, rows.certificates[k].vendor) # {}
    /\ \A c \in Callers :
           calls[c].op = "download" /\ "printed" \in DOMAIN calls[c] => calls[c].printed

(* Within a batch what is known of a vendor does not change, whatever happens
   to it meanwhile: two payments with one TIN decided by the vendor's code get
   the same code, and the second is not left to the keywords. *)
BatchesConsistent ==
    \A c \in Callers : calls[c].op = "classify" /\ Len(calls[c].results) = 2 =>
        LET first == calls[c].results[1]
            second == calls[c].results[2]
        IN  (/\ calls[c].batch[1].tin = calls[c].batch[2].tin
             /\ first.source = "vendor" /\ ~calls[c].batch[2].exempt)
                => second = first

(* The alphalist accounts for the tax of every certificate of the period that
   there was, as long as there are no more than it reads. *)
AlphalistComplete ==
    \A c \in Callers : calls[c].op = "sawt" /\ calls[c].at = "answered" =>
        LET entries == calls[c].entries
            all == {k \in 1..calls[c].total :
                       calls[c].period \in {NoText, rows.certificates[k].period}}
        IN  (Alone /\ calls[c].total <= MaxListed) =>
                SumLines([code \in DOMAIN entries |-> entries[code].tax])
                    = SumLines([k \in all |-> rows.certificates[k].tax])

-----------------------------------------------------------------------------
(* The tables may be these at the start: whole invoices, and vendors with TINs
   of their own. *)
InvoicesStart(db) ==
    /\ DOMAIN db = {"invoices", "made", "deleted", "broken"}
    /\ db.made \in Nat /\ DOMAIN db.invoices \subseteq 1..db.made
    /\ db.deleted = {} /\ db.broken = {}
    /\ \A i \in DOMAIN db.invoices :
         LET inv == db.invoices[i]
         IN  /\ inv.number \in Nat
             /\ \E lines \in Orders \cup {<<>>} :
                  inv = [Invoice(inv.number, inv.auto, lines) EXCEPT
                            !.status = inv.status, !.items = [k \in DOMAIN lines |-> Item(lines[k])]]

VendorsStart(db) ==
    /\ DOMAIN db = {"vendors", "made", "certificates", "unsure"}
    /\ db.made \in Nat /\ DOMAIN db.vendors \subseteq 1..db.made
    /\ \A v, w \in DOMAIN db.vendors :
         (db.vendors[v].tin = db.vendors[w].tin /\ db.vendors[v].tin # NoText) => v = w
    /\ db.certificates = <<>> /\ db.unsure = FALSE

PurchasingInit ==
    /\ part \in PurchasingParts /\ RequestsInit
    /\ part = "invoices" => InvoicesStart(rows)
    /\ part = "vendors" => VendorsStart(rows)

PurchasingSpec == PurchasingInit /\ [][PurchasingNext]_requestVars

PurchasingSound ==
    /\ part = "invoices" => InvoicesAddUp /\ InvoicesReadWhole /\ NumbersAndDeletionsAlone
    /\ part = "vendors" => VendorsDistinct /\ BatchesConsistent /\ AlphalistComplete
=============================================================================
