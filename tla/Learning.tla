------------------------------ MODULE Learning ------------------------------
(***************************************************************************)
(* What the back end learns from its users: corrections and the rules made *)
(* of them, the posting policies of vendors, tags, preferences, the tax    *)
(* knowledge base, and the classification of transactions that reads it:   *)
(* service/correction_service.go, correction_analyzer.go,                  *)
(* vendor_memory_service.go, tag_service.go, memory_service.go,            *)
(* knowledge_service.go, classifier_service.go, and their handlers.        *)
(***************************************************************************)
EXTENDS Requests

CONSTANTS
    Patterns,          \* what corrections say: [field, value]
    AnalyzeThreshold, AnalyzeNewMin,  \* 5 and 3 corrections
    RuleThreshold,     \* 3 corrections alike
    MaxAnalyzed,       \* 500, the newest corrections
    SentCandidates,    \* rules a client may send: [on, field, value, source]
    VendorTexts,       \* raw vendor texts, [raw, name]: the name it is normalized to
    MinCorrections,    \* 5, before a vendor's default is suggested
    TagNames, Transactions,
    PrefKeys,
    Chunks,            \* what may be added to the knowledge base, [category, jurisdiction]
    MaxRetrieved,      \* chunks a question gets
    Batches,           \* lists of transactions to classify
    BatchSize,         \* 25, the transactions the model is given at once
    ActiveRules,       \* the active rules, [on, field, value]
    KnownVendors,      \* the vendors whose category is known: description -> category
    VATTypes           \* the types of a jurisdiction; the first is its default

ASSUME LearningAssumption ==
    /\ Patterns \subseteq [field : STRING, value : STRING]
    /\ VendorTexts \subseteq [raw : STRING, name : STRING]
    /\ Chunks \subseteq [category : STRING, jurisdiction : STRING]
    /\ SentCandidates \subseteq [on : STRING, field : STRING, value : STRING, source : Int]
    /\ BatchSize \in Nat \ {0}
    /\ AnalyzeNewMin \in Nat /\ RuleThreshold \in Nat /\ AnalyzeNewMin <= RuleThreshold
    /\ MaxRetrieved \in Nat \ {0}
    /\ \A j \in DOMAIN VATTypes : VATTypes[j] \in Seq(STRING) \ {<<>>}

LearningParts == {"corrections", "policies", "tags", "preferences", "knowledge", "classify"}

(* The tables.  corrections: what each says, in order; rules: [on, field,
   value, source, active, kind], `on` naming the description of an override's
   rule, kind who made it: the analysis, an override or a client; policies: id -> [vendor, aliases, category, usage, accept, corr, conf];
   tags: id -> [name, project], links: <<transaction, tag>>; pref: the merged
   preference or NoPref, `blind` when a read of it failed; chunks [category, jurisdiction, embedded].
   Remembered besides: `analyses` that kept a rule, whether rules were switched or
   sent by a client, or their list or an override's lookup failed (`blind`),
   `lost` halves of corrections by vendor, whether a policy was `dropped`, and
   the preference keys `kept` by answered requests. *)
NoPref == [k \in {} |-> 0]

-----------------------------------------------------------------------------
(* Queries. *)
CreateCorrection(db, pattern) == [db EXCEPT !.corrections = Append(@, pattern)]

CountCorrectionsByCompany(db) == Len(db.corrections)

Newest(found, limit) == {k \in found : Cardinality({m \in found : m > k}) < limit}

ListCorrectionsByCompany(db, limit) == Newest(DOMAIN db.corrections, limit)

ListCorrectionsByEntity(db, field) ==
    {k \in DOMAIN db.corrections : db.corrections[k].field = field}

ListActiveCorrectionRulesByCompany(db) == {r \in DOMAIN db.rules : db.rules[r].active}

GetCorrectionRuleByID(db, r) == DOMAIN db.rules \cap {r}

CreateCorrectionRule(db, rule) == [db EXCEPT !.rules = Append(@, rule)]

UpdateCorrectionRule(db, r, rule) == [db EXCEPT !.rules[r] = rule]

FindCorrectionRuleByCompanyAndField(db, field, on) ==
    {r \in ListActiveCorrectionRulesByCompany(db) :
        db.rules[r].field = field /\ db.rules[r].on = on}

GetVendorPolicy(db, name) == {p \in DOMAIN db.policies : db.policies[p].vendor = name}

GetVendorPolicyByAlias(db, raw) == {p \in DOMAIN db.policies : raw \in db.policies[p].aliases}

GetVendorPolicyByID(db, p) == DOMAIN db.policies \cap {p}

(* Names and aliases that contain the text: those that are the same, here. *)
SearchVendorByName(db, text) ==
    GetVendorPolicy(db, text.name) \cup GetVendorPolicyByAlias(db, text.name)

UpsertVendorPolicy(db, text, category, accept, conf) ==
    LET Row(old) == [vendor |-> text.name, aliases |-> old.aliases \cup {text.raw},
                     category |-> IF category = NoText THEN old.category ELSE category,
                     usage |-> old.usage + 1, accept |-> old.accept + accept,
                     corr |-> old.corr, conf |-> conf]
        none == [aliases |-> {}, category |-> NoText, usage |-> 0, accept |-> 0, corr |-> 0]
    IN  IF GetVendorPolicy(db, text.name) = {}
        THEN [db EXCEPT !.policies = With(@, db.made + 1, Row(none)), !.made = @ + 1]
        ELSE [db EXCEPT !.policies = [p \in DOMAIN @ |->
                 IF @[p].vendor = text.name THEN Row(@[p]) ELSE @[p]]]

IncrementVendorCorrection(db, name) ==
    LET Row(old) == [old EXCEPT !.corr = @ + 1, !.usage = @ + 1,
                                !.conf = <<old.accept, old.accept + old.corr + 1>>]
    IN  [db EXCEPT !.policies = [p \in DOMAIN @ |->
            IF @[p].vendor = name THEN Row(@[p]) ELSE @[p]]]

IncrementVendorAcceptance(db, name) ==
    LET Row(old) == [old EXCEPT !.accept = @ + 1, !.usage = @ + 1,
                                !.conf = <<old.accept + 1, old.accept + old.corr + 1>>]
    IN  [db EXCEPT !.policies = [p \in DOMAIN @ |->
            IF @[p].vendor = name THEN Row(@[p]) ELSE @[p]]]

UpdateVendorDefaults(db, name, category) ==
    [db EXCEPT !.policies = [p \in DOMAIN @ |->
        IF @[p].vendor = name /\ category # NoText THEN [@[p] EXCEPT !.category = category] ELSE @[p]]]

DeleteVendorPolicy(db, p) ==
    [db EXCEPT !.policies = Without(@, {p}), !.dropped = @ \/ p \in DOMAIN db.policies]

ListVendorPolicies(db) == DOMAIN db.policies

ListRuleSuggestions(db, min) ==
    {p \in DOMAIN db.policies : /\ db.policies[p].corr >= min
                                /\ 10 * db.policies[p].conf[1] < 7 * db.policies[p].conf[2]}

TagNamed(db, name) == {t \in DOMAIN db.tags : db.tags[t].name = name}

(* The unique index on the names of a company's tags. *)
CanStoreTag(db, t, name) == TagNamed(db, name) \subseteq {t}

CreateTag(db, tag) == [db EXCEPT !.tags = With(@, db.made + 1, tag), !.made = @ + 1]

UpdateTag(db, t, tag) == [db EXCEPT !.tags[t] = tag]

(* Mutant: the links of a tag stay when it goes. *)
DeleteTagOnly(db, t) == [db EXCEPT !.tags = Without(@, {t})]

(* transaction_tags cascades. *)
DeleteTag(db, t) ==
    [db EXCEPT !.tags = Without(@, {t}), !.links = {l \in @ : l[2] # t}]

ListTagsByCompany(db, project) == {t \in DOMAIN db.tags : project => db.tags[t].project}

CountTagsByCompany(db, project) == Cardinality(ListTagsByCompany(db, project))

ListProjectTagsByCompany(db) == {db.tags[t].name : t \in ListTagsByCompany(db, TRUE)}

ListTagsForTransaction(db, x) == {l[2] : l \in {k \in db.links : k[1] = x}}

DeleteAllTransactionTags(db, x) == [db EXCEPT !.links = {l \in @ : l[1] # x}]

CanAddTransactionTag(db, t) == t \in DOMAIN db.tags  \* the foreign key

AddTransactionTag(db, x, t) == [db EXCEPT !.links = @ \cup {<<x, t>>}]

(* A plain tag of that name is an arbiter of the conflict as well, and becomes
   a project. *)
UpsertProjectTag(db, name) ==
    IF TagNamed(db, name) = {} THEN CreateTag(db, [name |-> name, project |-> TRUE])
    ELSE [db EXCEPT !.tags = [t \in DOMAIN @ |->
             IF @[t].name = name THEN [@[t] EXCEPT !.project = TRUE] ELSE @[t]]]

GetUserPreferenceByCompanyAndType(db) == db.pref

UpsertUserPreference(db, pref) == [db EXCEPT !.pref = pref]

DeleteUserPreference(db) == [db EXCEPT !.pref = NoPref, !.kept = {}]

ListUserPreferencesByCompany(db) == {db.pref} \ {NoPref}

CreateKnowledgeChunk(db, chunk) == [db EXCEPT !.chunks = Append(@, chunk)]

GetChunksWithoutEmbedding(db) == {k \in DOMAIN db.chunks : ~db.chunks[k].embedded}

UpdateChunkEmbedding(db, k) == [db EXCEPT !.chunks[k].embedded = TRUE]

CountKnowledgeChunks(db) == Len(db.chunks)

CountKnowledgeChunksWithEmbedding(db) == Len(db.chunks) - Cardinality(GetChunksWithoutEmbedding(db))

CountKnowledgeChunksByCategory(db) ==
    [cat \in {db.chunks[k].category : k \in DOMAIN db.chunks} |->
        Cardinality({k \in DOMAIN db.chunks : db.chunks[k].category = cat})]

(* Any `limit` of the chunks that qualify: the embeddings rank them, those
   without one come last. *)
Nearest(db, found, limit) ==
    LET n == Min({limit, Cardinality(found)})
        ranked == found \ GetChunksWithoutEmbedding(db)
    IN  {s \in kSubset(n, found) : ranked \subseteq s \/ s \subseteq ranked}

SearchSimilarChunksByCategory(db, category, j, limit) ==
    Nearest(db, {k \in DOMAIN db.chunks : db.chunks[k].category = category
                                            /\ db.chunks[k].jurisdiction = j}, limit)

SearchSimilarChunks(db, j, limit) ==
    Nearest(db, {k \in DOMAIN db.chunks : db.chunks[k].jurisdiction = j}, limit)

(* The newest, of any jurisdiction. *)
ListKnowledgeByCategory(db, category, limit) ==
    Newest({k \in DOMAIN db.chunks : db.chunks[k].category = category}, limit)

ListAllKnowledgeChunks(db, limit) == Newest(DOMAIN db.chunks, limit)

-----------------------------------------------------------------------------
(* What the handlers make of the outcomes. *)
CorrectionResponses == [Done |-> 201, Failed |-> 500]
RuleResponses == [Done |-> 200, NotFound |-> 404]
PolicyResponses == [Done |-> 200, NotFound |-> 404]
TagResponses == [Created |-> 201, Done |-> 200, Failed |-> 500]
PreferenceResponses == [Done |-> 200, NotFound |-> 404]
ChunkResponses == [Done |-> 201]

(* Two reads, each a statement of its own, shown in one answer. *)
ReadFirst(c, op, value) ==
    /\ Reads /\ Begin(c, [op |-> op, at |-> "second", first |-> value])

ReadSecond(c, op, value) ==
    /\ At(c, op, "second") /\ Reads
    /\ Continue(c, [op |-> op, at |-> "answered", first |-> calls[c].first, second |-> value])

-----------------------------------------------------------------------------
(* Corrections.  Patterns that were corrected often enough, among the
   corrections looked at, become candidates. *)
Alike(corrections, looked, pattern) == Cardinality({k \in looked : corrections[k] = pattern})

BuildCandidate(corrections, looked, pattern) ==
    [on |-> NoText, field |-> pattern.field, value |-> pattern.value, kind |-> "generic",
     source |-> Alike(corrections, looked, pattern), active |-> TRUE]

DetectPatterns(corrections, looked) ==
    {BuildCandidate(corrections, looked, corrections[k]) :
        k \in {i \in looked : Alike(corrections, looked, corrections[i]) >= RuleThreshold}}

AnalyzeCorrections(db) ==
    DetectPatterns(db.corrections, ListCorrectionsByCompany(db, MaxAnalyzed))

RecordCorrection(c) ==
    /\ Free({"corrections"}, c)
    /\ \E pattern \in Patterns :
           \/ /\ Store(CreateCorrection(rows, pattern))
              /\ Begin(c, [op |-> "correct", at |-> "count"])
           \/ Reads /\ AnswerAtOnce(c, "correct", CorrectionResponses.Failed)

(* Corrections of column mappings are recorded without looking for patterns. *)
RecordMappingCorrection(c) ==
    /\ Free({"corrections"}, c)
    /\ \E pattern \in Patterns : Store(CreateCorrection(rows, pattern))
    /\ AnswerAtOnce(c, "mapping", 200)

CorrectionCounts(c) ==
    LET total == CountCorrectionsByCompany(rows)
    IN  /\ At(c, "correct", "count") /\ Reads
        /\ \/ Answer(c, CorrectionResponses.Done)  \* the statement fails
           \/ /\ total >= AnalyzeThreshold
              /\ Continue(c, [op |-> "correct", at |-> "cover", total |-> total])

(* What the active rules were made of counts as learned. *)
Covered(db) ==
    AddAll([r \in DOMAIN db.rules |-> db.rules[r].source], ListActiveCorrectionRulesByCompany(db))

CorrectionCovers(c) ==
    /\ At(c, "correct", "cover")
    /\ \/ /\ calls[c].total - Covered(rows) < AnalyzeNewMin
          /\ Reads /\ Answer(c, CorrectionResponses.Done)
       \/ /\ calls[c].total - Covered(rows) >= AnalyzeNewMin
          /\ Reads /\ Continue(c, [op |-> "correct", at |-> "analyze"])
       \/ /\ Store([rows EXCEPT !.blind = TRUE])  \* the list fails and counts as empty
          /\ Continue(c, [op |-> "correct", at |-> "analyze"])

CorrectionAnalyzes(c) ==
    LET candidates == AnalyzeCorrections(rows)
    IN  /\ At(c, "correct", "analyze") /\ Reads
        /\ IF candidates = {}
           THEN Answer(c, CorrectionResponses.Done)
           ELSE Continue(c, [op |-> "correct", at |-> "persist", rest |-> candidates, kept |-> 0])

(* One rule after the other, in any order; one that fails is left out.  (Only
   candidates with confidence 0.80 are kept: three alike have 0.85.) *)
PersistCandidateRule(c, op) ==
    /\ At(c, op, "persist")
    /\ \E rule \in calls[c].rest :
           \/ /\ Store(CreateCorrectionRule(rows, rule))
              /\ Continue(c, [calls[c] EXCEPT !.rest = @ \ {rule}, !.kept = @ + 1])
           \/ Reads /\ Continue(c, [calls[c] EXCEPT !.rest = @ \ {rule}])

CorrectionPersists(c) == PersistCandidateRule(c, "correct")

CorrectionAnswers(c) ==
    /\ At(c, "correct", "persist") /\ calls[c].rest = {}
    /\ Store([rows EXCEPT !.analyses = @ + (IF calls[c].kept = 0 THEN 0 ELSE 1)])
    /\ Answer(c, CorrectionResponses.Done)

(* The client has candidates made rules: those of an analysis, or any others, for
   nothing is looked at. *)
SentRule(candidate) ==
    [on |-> candidate.on, field |-> candidate.field, value |-> candidate.value,
     kind |-> "client", source |-> candidate.source, active |-> TRUE]

PersistRules(c) ==
    /\ Free({"corrections"}, c)
    /\ \E sent \in SUBSET SentCandidates :
           /\ Store([rows EXCEPT !.blind = TRUE])
           /\ Begin(c, [op |-> "persist", at |-> "persist", kept |-> 0,
                        rest |-> {SentRule(candidate) : candidate \in sent}])

RulesPersist(c) == PersistCandidateRule(c, "persist")

RulesPersisted(c) ==
    /\ At(c, "persist", "persist") /\ calls[c].rest = {}
    /\ Reads /\ Answer(c, CorrectionResponses.Done)

(* A rule is switched on or off, and the rest of it written as it was read. *)
UpdateRule(c) ==
    /\ Free({"corrections"}, c)
    /\ \E r \in 1..Len(rows.rules) + 1, active \in BOOLEAN :
           /\ Reads
           /\ IF GetCorrectionRuleByID(rows, r) = {}
              THEN AnswerAtOnce(c, "rule", RuleResponses.NotFound)
              ELSE Begin(c, [op |-> "rule", at |-> "write", id |-> r,
                             rule |-> [rows.rules[r] EXCEPT !.active = active]])

UpdateRuleWrites(c) ==
    /\ At(c, "rule", "write")
    /\ Store([UpdateCorrectionRule(rows, calls[c].id, calls[c].rule) EXCEPT !.blind = TRUE])
    /\ Answer(c, RuleResponses.Done)

(* A transaction's category is overridden in its session: the rule for its
   description is found, and strengthened or created; if the lookup fails,
   created. *)
OverrideTransaction(c) ==
    /\ Free({"corrections"}, c)
    /\ \E value \in {p.value : p \in Patterns} :
           LET found == FindCorrectionRuleByCompanyAndField(rows, "category", "desc")
               rule == [on |-> "desc", field |-> "category", value |-> value, kind |-> "override",
                        source |-> 1, active |-> TRUE]
           IN  \/ /\ found = {} /\ Reads
                  /\ Begin(c, [op |-> "override", at |-> "write", id |-> 0, rule |-> rule])
               \/ /\ found # {} /\ Store([rows EXCEPT !.blind = TRUE])
                  /\ Begin(c, [op |-> "override", at |-> "write", id |-> 0, rule |-> rule])
               \/ \E r \in found :
                     /\ Reads
                     /\ Begin(c, [op |-> "override", at |-> "write", id |-> r,
                                  rule |-> [rows.rules[r] EXCEPT !.value = value,
                                                                 !.source = @ + 1]])

OverrideWrites(c) ==
    /\ At(c, "override", "write")
    /\ \/ Store(IF calls[c].id = 0 THEN CreateCorrectionRule(rows, calls[c].rule)
                                   ELSE UpdateCorrectionRule(rows, calls[c].id, calls[c].rule))
       \/ Reads
    /\ Answer(c, 200)

(* The statistics and lists. *)
ListCorrections(c) ==
    /\ Free({"corrections"}, c)
    /\ ReadFirst(c, "list", Cardinality(ListCorrectionsByCompany(rows, MaxAnalyzed)))

ListCorrectionsCounts(c) ==
    At(c, "list", "second") /\ ReadSecond(c, "list", CountCorrectionsByCompany(rows))

GetCorrectionStats(c) ==
    /\ Free({"corrections"}, c)
    /\ ReadFirst(c, "stats", CountCorrectionsByCompany(rows))

GetCorrectionStatsLists(c) ==
    /\ At(c, "stats", "second")
    /\ ReadSecond(c, "stats", Cardinality(ListCorrectionsByCompany(rows, MaxAnalyzed)))

GetLearningStats(c) ==
    /\ Free({"corrections"}, c)
    /\ ReadFirst(c, "learned", CountCorrectionsByCompany(rows))

GetLearningStatsRules(c) ==
    /\ At(c, "learned", "second")
    /\ ReadSecond(c, "learned", Cardinality(ListActiveCorrectionRulesByCompany(rows)))

GetEntityCorrections(c) ==
    /\ Free({"corrections"}, c)
    /\ \E p \in Patterns :
           /\ ListCorrectionsByEntity(rows, p.field) # {}
           /\ Reads /\ AnswerAtOnce(c, "entity", 200)

-----------------------------------------------------------------------------
(* Vendor memory. *)
RecordAcceptance(c) ==
    /\ Free({"policies"}, c)
    /\ \E text \in VendorTexts, category \in {NoText, "goods"} :
           \/ Store(UpsertVendorPolicy(rows, text, category, 1, <<1, 1>>))
           \/ Reads
    /\ AnswerAtOnce(c, "accept", 200)

(* A correction is two statements, and either may fail. *)
RecordVendorCorrection(c) ==
    /\ Free({"policies"}, c)
    /\ \E text \in VendorTexts :
           \/ /\ Store(UpsertVendorPolicy(rows, text, "services", 0, <<1, 2>>))
              /\ Begin(c, [op |-> "corrected", at |-> "increment", name |-> text.name])
           \/ Reads /\ AnswerAtOnce(c, "corrected", 500)

VendorCorrectionIncrements(c) ==
    /\ At(c, "corrected", "increment")
    /\ \/ Store(IncrementVendorCorrection(rows, calls[c].name)) /\ Answer(c, 200)
       \/ /\ Store([rows EXCEPT !.lost = Append(@, calls[c].name)])
          /\ Answer(c, 500)

(* Exact name, alias, then the only one that looks like it. *)
MatchVendor(c) ==
    /\ Free({"policies"}, c)
    /\ \E text \in VendorTexts :
           /\ Reads
           /\ \/ /\ GetVendorPolicy(rows, text.name) = {}
                 /\ Begin(c, [op |-> "match", at |-> "alias", text |-> text])
              \/ \E p \in GetVendorPolicy(rows, text.name) :
                    Begin(c, [op |-> "match", at |-> "answered", text |-> text, policy |-> p])

MatchVendorAlias(c) ==
    LET found == GetVendorPolicyByAlias(rows, calls[c].text.raw)
    IN  /\ At(c, "match", "alias") /\ Reads
        /\ \/ found = {} /\ Continue(c, [calls[c] EXCEPT !.at = "search"])
           \/ \E p \in found :
                 Continue(c, [op |-> "match", at |-> "answered", text |-> calls[c].text,
                              policy |-> p])

MatchVendorSearch(c) ==
    LET found == SearchVendorByName(rows, calls[c].text)
    IN  /\ At(c, "match", "search") /\ Reads
        /\ Continue(c, [op |-> "match", at |-> "answered", text |-> calls[c].text,
                        policy |-> IF Cardinality(found) = 1 THEN Max(found) ELSE 0])

(* The handlers name a policy by its id, and its vendor from then on. *)
PolicyAsked(c, op) ==
    /\ Free({"policies"}, c)
    /\ \E p \in 1..rows.made :
           /\ Reads
           /\ IF GetVendorPolicyByID(rows, p) = {}
              THEN AnswerAtOnce(c, op, PolicyResponses.NotFound)
              ELSE Begin(c, [op |-> op, at |-> "write", name |-> rows.policies[p].vendor])

UpdatePolicy(c) == PolicyAsked(c, "defaults")

UpdatePolicyWrites(c) ==
    /\ At(c, "defaults", "write")
    /\ \E category \in {NoText, "capital"} : Store(UpdateVendorDefaults(rows, calls[c].name, category))
    /\ Answer(c, PolicyResponses.Done)

PromotePolicy(c) == PolicyAsked(c, "promote")

PromoteRule(c) ==
    /\ At(c, "promote", "write")
    /\ Store(IncrementVendorAcceptance(rows, calls[c].name))
    /\ Answer(c, PolicyResponses.Done)

(* The button of the bot's suggestion, sent after a receipt was confirmed. *)
SuggestRules(c) ==
    /\ Free({"policies"}, c)
    /\ \E p \in ListRuleSuggestions(rows, MinCorrections) :
           /\ Reads
           /\ Begin(c, [op |-> "suggest", at |-> "sent", name |-> rows.policies[p].vendor])

LearnAccepted(c) ==
    /\ At(c, "suggest", "sent")
    /\ Store(IncrementVendorAcceptance(rows, calls[c].name)) /\ Answer(c, 200)

LearnIgnored(c) == At(c, "suggest", "sent") /\ Reads /\ Answer(c, 200)

DeletePolicy(c) ==
    /\ Free({"policies"}, c)
    /\ \E p \in 1..rows.made : Store(DeleteVendorPolicy(rows, p))
    /\ AnswerAtOnce(c, "drop", PolicyResponses.Done)

ListPolicies(c) ==
    /\ Free({"policies"}, c)
    /\ ListVendorPolicies(rows) # {}
    /\ Reads /\ AnswerAtOnce(c, "policies", 200)

-----------------------------------------------------------------------------
(* Tags. *)
TagCreate(c) ==
    /\ Free({"tags"}, c)
    /\ \E name \in TagNames, project \in BOOLEAN :
           IF CanStoreTag(rows, 0, name)
           THEN /\ Store(CreateTag(rows, [name |-> name, project |-> project]))
                /\ AnswerAtOnce(c, "tag", TagResponses.Created)
           ELSE Reads /\ AnswerAtOnce(c, "tag", TagResponses.Failed)

TagUpdate(c) ==
    /\ Free({"tags"}, c)
    /\ \E t \in 1..rows.made, name \in TagNames, project \in BOOLEAN :
           IF t \in DOMAIN rows.tags /\ CanStoreTag(rows, t, name)
           THEN /\ Store(UpdateTag(rows, t, [name |-> name, project |-> project]))
                /\ AnswerAtOnce(c, "retag", TagResponses.Done)
           ELSE Reads /\ AnswerAtOnce(c, "retag", TagResponses.Failed)

TagDelete(c) ==
    /\ Free({"tags"}, c)
    /\ \E t \in 1..rows.made : Store(DeleteTag(rows, t))
    /\ AnswerAtOnce(c, "untag", TagResponses.Done)

TagList(c) ==
    /\ Free({"tags"}, c)
    /\ \E project \in BOOLEAN :
           /\ Reads
           /\ Begin(c, [op |-> "tags", at |-> "count", project |-> project,
                        page |-> ListTagsByCompany(rows, project)])

TagListCounts(c) ==
    /\ At(c, "tags", "count") /\ Reads
    /\ Continue(c, [op |-> "tags", at |-> "answered", page |-> calls[c].page,
                    total |-> CountTagsByCompany(rows, calls[c].project)])

(* All tags of a transaction are replaced: cleared, then added one by one. *)
SetTransactionTags(c) ==
    /\ Free({"tags"}, c)
    /\ \E x \in Transactions, asked \in SUBSET (1..rows.made) :
           /\ Store(DeleteAllTransactionTags(rows, x))
           /\ Begin(c, [op |-> "settags", at |-> "add", txn |-> x, asked |-> asked, rest |-> asked])

SetTransactionTagsAdds(c) ==
    LET t == Min(calls[c].rest)
    IN  /\ At(c, "settags", "add") /\ calls[c].rest # {}
        /\ IF CanAddTransactionTag(rows, t)
           THEN /\ Store(AddTransactionTag(rows, calls[c].txn, t))
                /\ Continue(c, [calls[c] EXCEPT !.rest = @ \ {t}])
           ELSE Reads /\ Answer(c, TagResponses.Failed)

SetTransactionTagsLists(c) ==
    /\ At(c, "settags", "add") /\ calls[c].rest = {} /\ Reads
    /\ Continue(c, [op |-> "settags", at |-> "answered", asked |-> calls[c].asked,
                    listed |-> ListTagsForTransaction(rows, calls[c].txn)])

(* The bot links the project of a receipt or an exchange by its name. *)
LinkProjectTag(c) ==
    /\ Free({"tags"}, c)
    /\ \E x \in Transactions, name \in TagNames :
           LET db == UpsertProjectTag(rows, name)
           IN  /\ Store(db)
               /\ Begin(c, [op |-> "project", at |-> "link", txn |-> x, name |-> name,
                            tag |-> Max(TagNamed(db, name))])

LinkProjectTagAdds(c) ==
    /\ At(c, "project", "link")
    /\ IF CanAddTransactionTag(rows, calls[c].tag)
       THEN /\ Store(AddTransactionTag(rows, calls[c].txn, calls[c].tag))
            /\ Continue(c, [calls[c] EXCEPT !.at = "answered"])
       ELSE Reads /\ Answer(c, TagResponses.Failed)

(* The bot, as it starts; a name that fails is left out. *)
SeedProjectTags(c) ==
    /\ Free({"tags"}, c)
    /\ Reads /\ Begin(c, [op |-> "seed", at |-> "upsert", rest |-> TagNames])

SeedProjectTag(c) ==
    /\ At(c, "seed", "upsert")
    /\ \E name \in calls[c].rest :
           /\ Store(UpsertProjectTag(rows, name)) \/ Reads
           /\ Continue(c, [calls[c] EXCEPT !.rest = @ \ {name}])

SeedProjectTagsEnds(c) ==
    /\ At(c, "seed", "upsert") /\ calls[c].rest = {}
    /\ Reads
    /\ Continue(c, [op |-> "seed", at |-> "answered", names |-> ListProjectTagsByCompany(rows)])

-----------------------------------------------------------------------------
(* Preferences: an update is merged into what was read, into nothing when the
   read fails. *)
UpsertPreference(c) ==
    /\ Free({"preferences"}, c)
    /\ \E k \in PrefKeys, v \in 1..2, failed \in BOOLEAN :
           /\ Store([rows EXCEPT !.blind = @ \/ failed])
           /\ Begin(c, [op |-> "prefer", at |-> "write", key |-> k,
                        merged |-> With(IF failed THEN NoPref
                                        ELSE GetUserPreferenceByCompanyAndType(rows), k, v)])

UpsertPreferenceWrites(c) ==
    /\ At(c, "prefer", "write")
    /\ Store(UpsertUserPreference(rows, calls[c].merged))
    /\ Continue(c, [op |-> "prefer", at |-> "reread", key |-> calls[c].key])

UpsertPreferenceRereads(c) ==
    /\ At(c, "prefer", "reread")
    /\ IF GetUserPreferenceByCompanyAndType(rows) = NoPref
       THEN Reads /\ Answer(c, 500)
       ELSE /\ Store([rows EXCEPT !.kept = @ \cup {calls[c].key}])
            /\ Answer(c, PreferenceResponses.Done)

GetPreference(c) ==
    /\ Free({"preferences"}, c)
    /\ Reads
    /\ AnswerAtOnce(c, "preference",
           IF ListUserPreferencesByCompany(rows) = {} THEN PreferenceResponses.NotFound
           ELSE PreferenceResponses.Done)

DeletePreference(c) ==
    /\ Free({"preferences"}, c)
    /\ Store(DeleteUserPreference(rows)) /\ AnswerAtOnce(c, "unprefer", PreferenceResponses.Done)

-----------------------------------------------------------------------------
(* Knowledge.  A chunk is added for the Philippines, with an embedding if the
   model gives one. *)
AddChunk(c) ==
    /\ Free({"knowledge"}, c)
    /\ \E chunk \in Chunks, embedded \in BOOLEAN :
           /\ chunk.jurisdiction = "PH"
           /\ Store(CreateKnowledgeChunk(rows,
                     [category |-> chunk.category, jurisdiction |-> chunk.jurisdiction,
                      embedded |-> embedded]))
    /\ AnswerAtOnce(c, "chunk", ChunkResponses.Done)

(* A question, with a category or none.  `whole`: no statement has failed. *)
RetrieveRelevant(c) ==
    /\ Free({"knowledge"}, c)
    /\ \E category \in {NoText, "vat"}, j \in {"PH", "SG"}, embeds \in BOOLEAN :
           /\ Reads
           /\ Begin(c, [op |-> "ask", category |-> category, j |-> j, whole |-> embeds,
                        there |-> {k \in DOMAIN rows.chunks : rows.chunks[k].jurisdiction = j},
                        at |-> IF ~embeds THEN "fallback"
                               ELSE IF category = NoText THEN "similar" ELSE "filtered"])

Retrieved(c, found) ==
    Continue(c, [op |-> "ask", at |-> "answered", j |-> calls[c].j, whole |-> calls[c].whole,
                 there |-> calls[c].there, found |-> found])

RetrieveFiltered(c) ==
    /\ At(c, "ask", "filtered") /\ Reads
    /\ \/ Continue(c, [calls[c] EXCEPT !.at = "similar", !.whole = FALSE])
       \/ \E found \in SearchSimilarChunksByCategory(rows, calls[c].category, calls[c].j,
                                                     MaxRetrieved) :
             IF found = {} THEN Continue(c, [calls[c] EXCEPT !.at = "similar"])
                           ELSE Retrieved(c, found)

RetrieveSimilar(c) ==
    /\ At(c, "ask", "similar") /\ Reads
    /\ \/ Continue(c, [calls[c] EXCEPT !.at = "fallback", !.whole = FALSE])
       \/ \E found \in SearchSimilarChunks(rows, calls[c].j, MaxRetrieved) :
             IF found = {} THEN Continue(c, [calls[c] EXCEPT !.at = "fallback"])
                           ELSE Retrieved(c, found)

(* The lists of the fallback, which know no jurisdiction. *)
RetrieveFallback(c) ==
    /\ At(c, "ask", "fallback") /\ Reads
    /\ IF calls[c].category # NoText
       THEN \/ Retrieved(c, ListKnowledgeByCategory(rows, calls[c].category, MaxRetrieved))
            \/ Continue(c, [calls[c] EXCEPT !.category = NoText, !.whole = FALSE])
       ELSE Retrieved(c, ListAllKnowledgeChunks(rows, MaxRetrieved))

GetStats(c) ==
    /\ Free({"knowledge"}, c)
    /\ Reads
    /\ Begin(c, [op |-> "base", at |-> "embedded", total |-> CountKnowledgeChunks(rows)])

GetStatsEmbedded(c) ==
    /\ At(c, "base", "embedded") /\ Reads
    /\ Continue(c, [op |-> "base", at |-> "categories", total |-> calls[c].total,
                    embedded |-> CountKnowledgeChunksWithEmbedding(rows)])

GetStatsCategories(c) ==
    LET counts == CountKnowledgeChunksByCategory(rows)
    IN  /\ At(c, "base", "categories") /\ Reads
        /\ Continue(c, [op |-> "base", at |-> "answered", total |-> calls[c].total,
                        embedded |-> calls[c].embedded, sum |-> AddAll(counts, DOMAIN counts)])

(* cmd/backfill-embeddings: those without an embedding, one after the other. *)
Backfill(c) ==
    /\ Free({"knowledge"}, c)
    /\ Reads
    /\ Begin(c, [op |-> "backfill", at |-> "embed", rest |-> GetChunksWithoutEmbedding(rows)])

BackfillEmbeds(c) ==
    /\ At(c, "backfill", "embed") /\ calls[c].rest # {}
    /\ LET k == Min(calls[c].rest)
       IN  /\ Store(UpdateChunkEmbedding(rows, k)) \/ Reads
           /\ Continue(c, [calls[c] EXCEPT !.rest = @ \ {k}])

BackfillEnds(c) == At(c, "backfill", "embed") /\ calls[c].rest = {} /\ Reads /\ Answer(c, 0)

-----------------------------------------------------------------------------
(* Classification of transactions: rules, learned rules, vendor memory, and the
   language model for the rest. *)
Result(vat, category, source) == [vat |-> vat, category |-> category, source |-> source]

DefaultVAT(j) == VATTypes[j][1]

ApplyRuleBasedClassification(tx, j) ==
    LET category == IF tx.purchase THEN "goods" ELSE "sale"
        government == IF "government" \in ToSet(VATTypes[j]) THEN "government" ELSE DefaultVAT(j)
    IN  IF "government" \in tx.words THEN {Result(government, category, "rule")}
        ELSE IF "export" \in tx.words THEN {Result("zero_rated", category, "rule")}
        ELSE IF "exempt" \in tx.words THEN {Result("exempt", "goods", "rule")}
        ELSE {}

(* The first of the rules about the description, `category` or VAT type. *)
ApplyLearnedRules(tx, rules) ==
    LET fit == {i \in DOMAIN rules : rules[i].on = tx.desc}
    IN  {IF rules[i].field = "category" THEN Result(tx.vat, rules[i].value, "learned")
         ELSE Result(rules[i].value, NoText, "learned") :
            i \in {k \in fit : \A m \in fit : k <= m}}

ApplyVendorMemory(tx) ==
    IF tx.desc \in DOMAIN KnownVendors
    THEN {Result(IF tx.vat = NoText THEN "vatable" ELSE tx.vat, KnownVendors[tx.desc], "vendor")}
    ELSE {}

(* A vendor whose lookup fails is not known. *)
ClassifyWithoutModel(tx, j, rules, missed) ==
    IF ApplyRuleBasedClassification(tx, j) # {} THEN ApplyRuleBasedClassification(tx, j)
    ELSE IF ApplyLearnedRules(tx, rules) # {} THEN ApplyLearnedRules(tx, rules)
    ELSE IF missed THEN {} ELSE ApplyVendorMemory(tx)

(* One answer of the model for a transaction, put right. *)
AcceptAnswer(tx, answer, j) ==
    LET category == IF answer.category = "nonsense" THEN "goods" ELSE answer.category
    IN  Result(IF answer.vat \in ToSet(VATTypes[j]) THEN answer.vat ELSE DefaultVAT(j),
               IF tx.purchase /\ category = "sale" THEN "goods" ELSE category, "llm")

(* The model answers for some of the positions it was given, and perhaps for one
   it was not. *)
ModelAnswers(n) ==
    UNION {[given -> [vat : {"exempt", "nonsense"}, category : {"sale", "nonsense"}]] :
              given \in SUBSET (1..n + 1)}

(* What the transactions at some places of the list, in order, are answered. *)
ClassifyBatch(batch, taken, answers, j) ==
    [i \in taken |->
        LET k == Cardinality({n \in taken : n <= i})
        IN  IF k \in DOMAIN answers THEN AcceptAnswer(batch[i], answers[k], j)
            ELSE Result(DefaultVAT(j), "goods", "default")]

(* The rules that were read, and the places at which a vendor's lookup failed. *)
ClassifyTransactions(c) ==
    /\ Free({"classify"}, c) /\ Reads
    /\ \E batch \in Batches, j \in DOMAIN VATTypes, rules \in {ActiveRules, <<>>} :
         \E missed \in SUBSET {i \in DOMAIN batch : ApplyVendorMemory(batch[i]) # {}} :
           LET own == [i \in DOMAIN batch |->
                         ClassifyWithoutModel(batch[i], j, rules, i \in missed)]
               known == {i \in DOMAIN batch : own[i] # {}}
           IN  Begin(c, [op |-> "classes", at |-> "model", batch |-> batch, j |-> j,
                         rules |-> rules, missed |-> missed, rest |-> DOMAIN batch \ known,
                         results |-> [i \in known |-> CHOOSE r \in own[i] : TRUE]])

(* The first of the rest, as many as the model is given at once. *)
NextBatch(rest) == {i \in rest : Cardinality({k \in rest : k < i}) < BatchSize}

Joined(results, more) ==
    [i \in DOMAIN results \cup DOMAIN more |->
        IF i \in DOMAIN more THEN more[i] ELSE results[i]]

(* The model fails, or answers. *)
ClassifyBatches(c) ==
    LET call == calls[c]
        taken == NextBatch(call.rest)
        Take(more) == Continue(c, [call EXCEPT !.rest = @ \ taken,
                                               !.results = Joined(@, more)])
    IN  /\ At(c, "classes", "model") /\ call.rest # {} /\ Reads
        /\ \/ Take([i \in taken |-> Result("vatable", "goods", "default")])
           \/ \E answers \in ModelAnswers(Cardinality(taken)) :
                 Take(ClassifyBatch(call.batch, taken, answers, call.j))

ClassifyEnds(c) ==
    /\ At(c, "classes", "model") /\ calls[c].rest = {} /\ Reads
    /\ Continue(c, [calls[c] EXCEPT !.at = "answered"])

-----------------------------------------------------------------------------
CorrectionsNext(c) ==
    \/ RecordCorrection(c) \/ RecordMappingCorrection(c) \/ CorrectionCounts(c)
    \/ CorrectionCovers(c) \/ CorrectionAnalyzes(c) \/ CorrectionPersists(c)
    \/ CorrectionAnswers(c) \/ PersistRules(c) \/ RulesPersist(c) \/ RulesPersisted(c)
    \/ UpdateRule(c) \/ UpdateRuleWrites(c) \/ OverrideTransaction(c) \/ OverrideWrites(c)
    \/ ListCorrections(c) \/ ListCorrectionsCounts(c)
    \/ GetCorrectionStats(c) \/ GetCorrectionStatsLists(c)
    \/ GetLearningStats(c) \/ GetLearningStatsRules(c) \/ GetEntityCorrections(c)

PoliciesNext(c) ==
    \/ RecordAcceptance(c) \/ RecordVendorCorrection(c) \/ VendorCorrectionIncrements(c)
    \/ MatchVendor(c) \/ MatchVendorAlias(c) \/ MatchVendorSearch(c)
    \/ UpdatePolicy(c) \/ UpdatePolicyWrites(c) \/ PromotePolicy(c) \/ PromoteRule(c)
    \/ SuggestRules(c) \/ LearnAccepted(c) \/ LearnIgnored(c) \/ DeletePolicy(c)
    \/ ListPolicies(c)

TagsNext(c) ==
    \/ TagCreate(c) \/ TagUpdate(c) \/ TagDelete(c) \/ TagList(c) \/ TagListCounts(c)
    \/ SetTransactionTags(c) \/ SetTransactionTagsAdds(c) \/ SetTransactionTagsLists(c)
    \/ LinkProjectTag(c) \/ LinkProjectTagAdds(c)
    \/ SeedProjectTags(c) \/ SeedProjectTag(c) \/ SeedProjectTagsEnds(c)

PreferencesNext(c) ==
    \/ UpsertPreference(c) \/ UpsertPreferenceWrites(c) \/ UpsertPreferenceRereads(c)
    \/ GetPreference(c) \/ DeletePreference(c)

KnowledgeNext(c) ==
    \/ AddChunk(c) \/ RetrieveRelevant(c) \/ RetrieveFiltered(c) \/ RetrieveSimilar(c)
    \/ RetrieveFallback(c) \/ GetStats(c) \/ GetStatsEmbedded(c) \/ GetStatsCategories(c)
    \/ Backfill(c) \/ BackfillEmbeds(c) \/ BackfillEnds(c)

ClassifyNext(c) == ClassifyTransactions(c) \/ ClassifyBatches(c) \/ ClassifyEnds(c)

LearningNext ==
    \E c \in Serving(LearningParts) :
        \/ CorrectionsNext(c) \/ PoliciesNext(c) \/ TagsNext(c)
        \/ PreferencesNext(c) \/ KnowledgeNext(c) \/ ClassifyNext(c)

-----------------------------------------------------------------------------
(* A rule the analysis made of itself rests on as many corrections as it says;
   what is learned by itself is held back until as many new ones have come
   (correction_service.go, 184-198), though a pattern may be learned again; and
   a description has one active rule, unless rules were switched by hand or
   sent by a client (correction_handler.go, 159), or two requests raced, or the
   list of the rules or an override's lookup failed (190; session_service.go,
   936: their errors count as nothing found). *)
RulesBacked ==
    /\ \A r \in DOMAIN rows.rules :
           rows.rules[r].kind = "generic" =>
               rows.rules[r].source \in RuleThreshold..Alike(rows.corrections,
                   DOMAIN rows.corrections,
                   [field |-> rows.rules[r].field, value |-> rows.rules[r].value])
    /\ (Alone /\ ~rows.blind) =>
           /\ AnalyzeNewMin * rows.analyses <= Len(rows.corrections)
           /\ Cardinality(FindCorrectionRuleByCompanyAndField(rows, "category", "desc")) <= 1

(* Every use of a vendor is an acceptance or a correction, and a correction
   counts twice, once in each of its statements (vendor_memory_service.go, 166
   and 185; vendor_policies.sql). *)
UsageExplained ==
    ~rows.dropped =>
        \A p \in DOMAIN rows.policies :
            LET policy == rows.policies[p]
                underway ==
                    {c \in Waiting("corrected", "increment") : calls[c].name = policy.vendor}
                lost == {i \in DOMAIN rows.lost : rows.lost[i] = policy.vendor}
            IN  /\ policy.usage = policy.accept + 2 * policy.corr
                                    + Cardinality(underway) + Cardinality(lost)
                /\ policy.conf \in {<<1, 1>>, <<1, 2>>}
                       \/ policy.conf = <<policy.accept, policy.accept + policy.corr>>

(* Links name tags that are there.  Alone, a request leaves a transaction with
   the tags it asked for, and a project's transaction with a project of that
   name (tag_service.go, 128 and 189: no transaction around the statements). *)
TagsAsAsked ==
    /\ \A l \in rows.links : l[2] \in DOMAIN rows.tags
    /\ Alone => \A c \in Callers :
           /\ (calls[c].op = "settags" /\ "listed" \in DOMAIN calls[c])
                  => calls[c].listed = calls[c].asked
           /\ (At(c, "project", "answered") /\ "tag" \in DOMAIN calls[c])
                  => /\ <<calls[c].txn, calls[c].tag>> \in rows.links
                     /\ calls[c].name \in ListProjectTagsByCompany(rows)

(* Alone, no answered preference is lost in a later merge whose read did not
   fail (memory_service.go, 47-75). *)
PreferencesKept == (Alone /\ ~rows.blind) => rows.kept \subseteq DOMAIN rows.pref

(* A question is answered from its own jurisdiction if that has anything and
   no statement failed on the way, and the statistics add up for who reads
   alone (knowledge_service.go, 101-179 and 302). *)
AnswersFit ==
    \A c \in Callers :
        /\ (At(c, "ask", "answered") /\ calls[c].whole /\ calls[c].there # {})
               => /\ calls[c].found # {}
                  /\ \A k \in calls[c].found : rows.chunks[k].jurisdiction = calls[c].j
        /\ (Alone /\ calls[c].op = "base" /\ calls[c].at = "answered")
               => calls[c].total = calls[c].sum /\ calls[c].embedded <= calls[c].total

(* Each transaction gets an answer, its own and not its neighbour's, although
   only some of a list go to the model, in batches, each of which may fail or be
   answered in part; a purchase becomes a sale by a learned rule or a vendor's
   default only (classifier_service.go, 95-190 and 396). *)
ClassesFit ==
    \A c \in Callers : At(c, "classes", "answered") =>
        \A i \in DOMAIN calls[c].batch :
            LET call == calls[c]
                tx == call.batch[i]
                r == call.results[i]
                own == ClassifyWithoutModel(tx, call.j, call.rules, i \in call.missed)
            IN  /\ i \in DOMAIN call.results /\ (own # {} => r \in own)
                /\ (tx.purchase /\ r.source \notin {"learned", "vendor"}) => r.category # "sale"
                /\ r.source = "llm" => r.vat \in ToSet(VATTypes[call.j])

(* The rows a behaviour of a part starts from. *)
CorrectionsStart(db) ==
    /\ DOMAIN db = {"corrections", "rules", "analyses", "blind"}
    /\ db.corrections \in Seq(Patterns) /\ db.rules = <<>>
    /\ db.analyses = 0 /\ db.blind = FALSE

PoliciesStart(db) ==
    /\ DOMAIN db = {"policies", "made", "lost", "dropped"}
    /\ db.made \in Nat /\ DOMAIN db.policies \subseteq 1..db.made
    /\ db.lost = <<>> /\ db.dropped = FALSE
    /\ \A p \in DOMAIN db.policies :
         LET policy == db.policies[p]
         IN  /\ DOMAIN policy = {"vendor", "aliases", "category", "usage", "accept", "corr", "conf"}
             /\ policy.accept \in Nat /\ policy.corr \in Nat
             /\ policy.usage = policy.accept + 2 * policy.corr
             /\ policy.conf = <<policy.accept, policy.accept + policy.corr>>

TagsStart(db) ==
    /\ DOMAIN db = {"tags", "links", "made"}
    /\ db.made \in Nat /\ DOMAIN db.tags \subseteq 1..db.made
    /\ \A t \in DOMAIN db.tags : DOMAIN db.tags[t] = {"name", "project"}
    /\ \A l \in db.links : l[2] \in DOMAIN db.tags

PreferencesStart(db) ==
    DOMAIN db = {"pref", "kept", "blind"} /\ db.kept = {} /\ db.blind = FALSE

KnowledgeStart(db) ==
    /\ DOMAIN db = {"chunks"}
    /\ db.chunks \in Seq([category : STRING, jurisdiction : STRING, embedded : BOOLEAN])

LearningInit ==
    /\ part \in LearningParts /\ RequestsInit
    /\ part = "corrections" => CorrectionsStart(rows)
    /\ part = "policies" => PoliciesStart(rows)
    /\ part = "tags" => TagsStart(rows)
    /\ part = "preferences" => PreferencesStart(rows)
    /\ part = "knowledge" => KnowledgeStart(rows)

LearningSpec == LearningInit /\ [][LearningNext]_requestVars

LearningSound ==
    /\ part = "corrections" => RulesBacked
    /\ part = "policies" => UsageExplained
    /\ part = "tags" => TagsAsAsked
    /\ part = "preferences" => PreferencesKept
    /\ part = "knowledge" => AnswersFit
    /\ part = "classify" => ClassesFit
=============================================================================
