------------------------------ MODULE Identity ------------------------------
(***************************************************************************)
(* Users, organizations, companies and the Telegram accounts linked to     *)
(* them: service/auth_service.go, org_service.go, company_service.go,      *)
(* their handlers, handler/middleware/{auth,rbac}.go and bot/link.go.      *)
(*                                                                         *)
(* Ids are positions in the order of creation.  Passwords are right,       *)
(* tokens are well signed and do not expire; the access token of a pair is *)
(* never revoked, because only the refresh token's id is ever recorded.    *)
(***************************************************************************)
EXTENDS Requests

CONSTANTS
    Emails, Slugs, TelegramIds,
    MaxCompanies, MaxUsers  \* the limits an organization is created with: 5 and 10

ASSUME IdentityAssumption ==
    /\ Emails \subseteq STRING /\ Slugs \subseteq STRING
    /\ MaxCompanies \in Nat /\ MaxUsers \in Nat \ {0}

IdentityParts == {"users", "orgs", "telegram"}

OrgLevel == [org_owner |-> 3, org_admin |-> 2, org_member |-> 1]

(* The tables: users [email, active, key, tg], orgs [slug], companies [org]
   (0: under none; `counted`: when it was created the companies of the
   organization had been counted), the set orgMembers, members (company_members) in the order
   of joined_at, links (link_tokens), telegram: who each account is linked to,
   pairs: the token pairs issued, revoked: the ids of refresh tokens. *)
User(email, tg) == [email |-> email, active |-> TRUE, key |-> 0, tg |-> tg]

Ids(table) == DOMAIN table

CompanyRoles == {"company_admin", "member", "viewer"}
UserRows == [email : STRING, active : BOOLEAN, key : Nat, tg : {"", "nick"}]
OrgRows == [slug : STRING]
CompanyRows == [org : Nat, tin : Nat, counted : BOOLEAN]
OrgMemberRows == [org : Nat, user : Nat, role : DOMAIN OrgLevel]
MemberRows == [company : Nat, user : Nat, role : CompanyRoles]
LinkRows == [user : Nat, company : Nat, used : BOOLEAN]

IdentityTables ==
    [users : Seq(UserRows), orgs : Seq(OrgRows), companies : Seq(CompanyRows),
     orgMembers : SUBSET OrgMemberRows, members : Seq(MemberRows), links : Seq(LinkRows),
     keys : Nat, revoked : SUBSET Nat, telegram : [TelegramIds -> [user : Nat, company : Nat]],
     pairs : Seq(MemberRows)]

-----------------------------------------------------------------------------
(* Queries. *)
GetUserByEmail(db, email) == {u \in Ids(db.users) : db.users[u].email = email}

(* The unique indexes on users.email and users.telegram_username. *)
CanCreateUser(db, user) ==
    \A u \in Ids(db.users) :
        /\ db.users[u].email # user.email
        /\ user.tg # "" => db.users[u].tg # user.tg

CreateUser(db, user) == [db EXCEPT !.users = Append(@, user)]

GetUserByAPIKey(db, key) == {u \in Ids(db.users) : db.users[u].key = key /\ db.users[u].active}

(* The first membership of the active user with that name. *)
GetUserByTelegramUsername(db, name) ==
    LET found == {i \in DOMAIN db.members : /\ db.users[db.members[i].user].tg = name
                                            /\ db.users[db.members[i].user].active}
    IN  IF name = "" \/ found = {} THEN {} ELSE {db.members[Min(found)]}

SetAPIKey(db, u) ==
    [db EXCEPT !.keys = @ + 1, !.users[u].key = db.keys + 1]

CreateCompany(db, org, counted) ==
    [db EXCEPT !.companies = Append(@, [org |-> org, tin |-> 0, counted |-> counted])]

AddCompanyMember(db, company, u, role) ==
    IF \E m \in ToSet(db.members) : m.company = company /\ m.user = u
    THEN db
    ELSE [db EXCEPT !.members = Append(@, [company |-> company, user |-> u, role |-> role])]

OrgRoles(db, org, u) == {m.role : m \in {n \in db.orgMembers : n.org = org /\ n.user = u}}

GetOrgMemberRole(db, org, u) ==
    IF OrgRoles(db, org, u) = {} THEN "none" ELSE CHOOSE r \in OrgRoles(db, org, u) : TRUE

(* A role in the company itself, or the one the organization's role gives. *)
GetEffectiveRole(db, company, u) ==
    LET own == {m \in ToSet(db.members) : m.company = company /\ m.user = u}
        org == GetOrgMemberRole(db, db.companies[company].org, u)
    IN  IF own # {} THEN (CHOOSE m \in own : TRUE).role
        ELSE IF org \in {"org_owner", "org_admin"} THEN "company_admin"
        ELSE IF org = "org_member" THEN "viewer" ELSE "none"

(* The companies of ListCompaniesByUser; the first of them is the newest. *)
CompaniesOf(db, u) ==
    {co \in Ids(db.companies) :
        \/ \E m \in ToSet(db.members) : m.company = co /\ m.user = u
        \/ OrgRoles(db, db.companies[co].org, u) # {}}

(* Mutant: the newest company the user can see, by whatever role. *)
NewestCompanyByUser(db, u) == Max({0} \cup CompaniesOf(db, u))

(* The company whose membership is the oldest. *)
GetFirstCompanyByUser(db, u) ==
    LET found == {i \in DOMAIN db.members : db.members[i].user = u}
    IN  IF found = {} THEN 0 ELSE db.members[Min(found)].company

CompaniesByOrg(db, org) == {co \in Ids(db.companies) : db.companies[co].org = org}

UpdateCompany(db, company, tin) == [db EXCEPT !.companies[company].tin = tin]

GetOrganizationBySlug(db, slug) == {o \in Ids(db.orgs) : db.orgs[o].slug = slug}

CreateOrganization(db, slug) == [db EXCEPT !.orgs = Append(@, [slug |-> slug])]

UpdateOrganization(db, org, slug) == [db EXCEPT !.orgs[org].slug = slug]

ListOrgMembers(db, org) == {m \in db.orgMembers : m.org = org}

AddOrgMember(db, org, u, role) ==
    IF OrgRoles(db, org, u) # {}
    THEN db
    ELSE [db EXCEPT !.orgMembers = @ \cup {[org |-> org, user |-> u, role |-> role]}]

RemoveOrgMember(db, org, u) ==
    [db EXCEPT !.orgMembers = {m \in @ : ~(m.org = org /\ m.user = u)}]

UpdateOrgMemberRole(db, org, u, role) ==
    [db EXCEPT !.orgMembers =
        {IF m.org = org /\ m.user = u THEN [m EXCEPT !.role = role] ELSE m : m \in @}]

UpsertTelegramUser(db, t, u, company) ==
    [db EXCEPT !.telegram[t] = [user |-> u, company |-> company]]

CreateLinkToken(db, u, company) ==
    [db EXCEPT !.links = Append(@, [user |-> u, company |-> company, used |-> FALSE])]

GetValidLinkToken(db, l) == {k \in Ids(db.links) : k = l /\ ~db.links[k].used}

MarkLinkTokenUsed(db, l) == [db EXCEPT !.links[l].used = TRUE]

IsTokenRevoked(db, pair) == pair \in db.revoked

CreateRevokedToken(db, pair) == [db EXCEPT !.revoked = @ \cup {pair}]

(* generateTokenPair. *)
IssuePair(db, u, company, role) ==
    [db EXCEPT !.pairs = Append(@, [user |-> u, company |-> company, role |-> role])]

-----------------------------------------------------------------------------
(* What the middleware lets through: the holder of a pair, or of an API key,
   which stands for its user in the newest company, as an administrator. *)
ResolveAPIKey(db, key) ==
    {[user |-> u, company |-> Max(CompaniesOf(db, u)), role |-> "company_admin"] :
        u \in {v \in GetUserByAPIKey(db, key) : CompaniesOf(db, v) # {}}}

Authenticated(db) == ToSet(db.pairs) \cup UNION {ResolveAPIKey(db, k) : k \in 1..db.keys}

RequireOrgRole(db, claims, org, min) ==
    LET role == GetOrgMemberRole(db, org, claims.user)
    IN  role # "none" /\ OrgLevel[role] >= OrgLevel[min]

-----------------------------------------------------------------------------
(* What the handlers make of the outcomes of the services. *)
RegisterResponses == [Done |-> 201, EmailTaken |-> 409, Failed |-> 500]
CreateMemberResponses ==
    [Done |-> 201, EmailTaken |-> 409, TelegramUsernameTaken |-> 409, Failed |-> 500]
LoginResponses == [Done |-> 200, UserInactive |-> 401, CompanyNotFound |-> 500]
RefreshResponses == [Done |-> 200, TokenRevoked |-> 401]
SwitchResponses == [Done |-> 200, NoAccess |-> 403]
SSOResponses == [Done |-> 200, NoLink |-> 404, Failed |-> 401]
InviteResponses == [Done |-> 201, NotFound |-> 404]
OrgCreateResponses == [Done |-> 201, SlugTaken |-> 500]
OrgUpdateResponses == [Done |-> 200, SlugTaken |-> 500]
OrgMemberResponses == [Done |-> 201, LimitUsers |-> 500]
OrgRoleResponses == [Done |-> 200]
OrgRemoveResponses == [Done |-> 200]
CompanyResponses == [Done |-> 201, LimitReached |-> 500]
CompanyUpdateResponses == [Done |-> 200]

(* An answer that names what was made. *)
Made(op, status, user, company) ==
    [op |-> op, at |-> "answered", status |-> status, user |-> user, company |-> company]

-----------------------------------------------------------------------------
(* Registration: a company of its own, the user, the membership. *)
Register(c) ==
    /\ Free({"users"}, c)
    /\ \E e \in Emails : \E found \in Found(GetUserByEmail(rows, e)) :
           /\ Reads
           /\ IF found # {}
              THEN AnswerAtOnce(c, "register", RegisterResponses.EmailTaken)
              ELSE Begin(c, [op |-> "register", at |-> "company", email |-> e])

RegisterCompany(c) ==
    /\ At(c, "register", "company")
    /\ Store(CreateCompany(rows, 0, TRUE))
    /\ Continue(c, [op |-> "register", at |-> "user", email |-> calls[c].email,
                    company |-> Len(rows.companies) + 1])

RegisterUser(c) ==
    LET user == User(calls[c].email, "")
    IN  /\ At(c, "register", "user")
        /\ IF CanCreateUser(rows, user)
           THEN /\ Store(CreateUser(rows, user))
                /\ Continue(c, [op |-> "register", at |-> "member",
                                user |-> Len(rows.users) + 1, company |-> calls[c].company])
           ELSE Reads /\ Answer(c, RegisterResponses.Failed)

RegisterMember(c) ==
    /\ At(c, "register", "member")
    /\ Store(AddCompanyMember(rows, calls[c].company, calls[c].user, "company_admin"))
    /\ Continue(c, Made("register", RegisterResponses.Done, calls[c].user, calls[c].company))

(* An administrator creates a member of the company of the claims. *)
CreateMember(c) ==
    /\ Free({"telegram"}, c)
    /\ \E e \in Emails, tg \in {"", "nick"}, claims \in Authenticated(rows) :
       \E found \in Found(GetUserByEmail(rows, e)),
          named \in Found(GetUserByTelegramUsername(rows, tg)) :
           /\ Reads
           /\ IF found # {}
              THEN AnswerAtOnce(c, "create", CreateMemberResponses.EmailTaken)
              ELSE IF named # {}
              THEN AnswerAtOnce(c, "create", CreateMemberResponses.TelegramUsernameTaken)
              ELSE Begin(c, [op |-> "create", at |-> "user", user |-> User(e, tg),
                             company |-> claims.company])

CreateMemberUser(c) ==
    /\ At(c, "create", "user")
    /\ IF CanCreateUser(rows, calls[c].user)
       THEN /\ Store(CreateUser(rows, calls[c].user))
            /\ Continue(c, [calls[c] EXCEPT !.at = "member", !.user = Len(rows.users) + 1])
       ELSE Reads /\ Answer(c, CreateMemberResponses.Failed)

CreateMemberRole(c) ==
    /\ At(c, "create", "member")
    /\ Store(AddCompanyMember(rows, calls[c].company, calls[c].user, "member"))
    /\ Continue(c, [calls[c] EXCEPT !.at = "key"])

CreateMemberKey(c) ==
    /\ At(c, "create", "key")
    /\ Store(SetAPIKey(rows, calls[c].user))
    /\ Continue(c, [calls[c] EXCEPT !.at = "link"])

(* The deep link is left out of the answer if its token cannot be stored. *)
CreateMemberLink(c) ==
    /\ At(c, "create", "link")
    /\ \/ Store(CreateLinkToken(rows, calls[c].user, calls[c].company))
       \/ Reads
    /\ Continue(c, Made("create", CreateMemberResponses.Done, calls[c].user, calls[c].company))

(* A member invited by email has to be a user already. *)
InviteMember(c) ==
    /\ Free({"users"}, c)
    /\ \E e \in Emails, claims \in Authenticated(rows) :
           /\ Reads
           /\ \/ /\ GetUserByEmail(rows, e) = {}
                 /\ AnswerAtOnce(c, "invite", InviteResponses.NotFound)
              \/ \E u \in GetUserByEmail(rows, e) :
                    Begin(c, [op |-> "invite", at |-> "member", user |-> u,
                              company |-> claims.company])

InviteAdds(c) ==
    /\ At(c, "invite", "member")
    /\ Store(AddCompanyMember(rows, calls[c].company, calls[c].user, "viewer"))
    /\ Continue(c, Made("invite", InviteResponses.Done, calls[c].user, calls[c].company))

-----------------------------------------------------------------------------
(* Sessions: a login opens the newest company the user has access to. *)
Login(c) ==
    /\ Free({"users", "orgs"}, c)
    /\ \E u \in Ids(rows.users) :
           /\ Reads
           /\ IF ~rows.users[u].active
              THEN AnswerAtOnce(c, "login", LoginResponses.UserInactive)
              ELSE IF CompaniesOf(rows, u) = {}
              THEN AnswerAtOnce(c, "login", LoginResponses.CompanyNotFound)
              ELSE Begin(c, [op |-> "login", at |-> "role", user |-> u,
                             company |-> Max(CompaniesOf(rows, u))])

(* Who has lost access by now, or whose role cannot be read, is taken for an
   administrator. *)
LoginRole(c) ==
    /\ At(c, "login", "role")
    /\ \E role \in {GetEffectiveRole(rows, calls[c].company, calls[c].user), "none"} :
           Store(IssuePair(rows, calls[c].user, calls[c].company,
                           IF role = "none" THEN "company_admin" ELSE role))
    /\ Answer(c, LoginResponses.Done)

(* A refresh whose look at the revoked tokens fails goes on as if there were
   none.  `late`: the token was revoked before the request came. *)
RefreshToken(c) ==
    /\ Free({"users"}, c)
    /\ \E pair \in Ids(rows.pairs), looked \in BOOLEAN :
           /\ Reads
           /\ IF looked /\ IsTokenRevoked(rows, pair)
              THEN AnswerAtOnce(c, "refresh", RefreshResponses.TokenRevoked)
              ELSE Begin(c, [op |-> "refresh", at |-> "revoke", pair |-> pair,
                             late |-> IsTokenRevoked(rows, pair), looked |-> looked])

(* The error of this insert is ignored as well. *)
RefreshRevokes(c) ==
    /\ At(c, "refresh", "revoke")
    /\ Store(CreateRevokedToken(rows, calls[c].pair)) \/ Reads
    /\ Continue(c, [calls[c] EXCEPT !.at = "issue"])

RefreshIssues(c) ==
    LET claims == rows.pairs[calls[c].pair]
    IN  /\ At(c, "refresh", "issue")
        /\ Store(IssuePair(rows, claims.user, claims.company, claims.role))
        /\ Continue(c, [op |-> "refresh", at |-> "answered", status |-> RefreshResponses.Done,
                        late |-> calls[c].late, looked |-> calls[c].looked])

Logout(c) ==
    /\ Free({"users"}, c)
    /\ \E pair \in Ids(rows.pairs) :
           /\ Store(CreateRevokedToken(rows, pair)) \/ Reads
           /\ AnswerAtOnce(c, "logout", 200)

SwitchCompany(c) ==
    /\ Free({"orgs"}, c)
    /\ \E claims \in Authenticated(rows), company \in Ids(rows.companies) :
           LET role == GetEffectiveRole(rows, company, claims.user)
           IN  /\ IF role = "none"
                  THEN Reads /\ AnswerAtOnce(c, "switch", SwitchResponses.NoAccess)
                  ELSE /\ Store(IssuePair(rows, claims.user, company, role))
                       /\ AnswerAtOnce(c, "switch", SwitchResponses.Done)

GenerateAPIKey(c) ==
    /\ Free({"telegram"}, c)
    /\ \E claims \in Authenticated(rows) :
           /\ Store(SetAPIKey(rows, claims.user))
           /\ AnswerAtOnce(c, "key", 200)

(* Single sign-on of the HR system: the company is the one linked to the
   sender's; a user it does not find is created as a member of it. *)
SSOLogin(c) ==
    /\ Free({"users"}, c)
    /\ \E e \in Emails, linked \in BOOLEAN : \E found \in Found(GetUserByEmail(rows, e)) :
           /\ Reads
           /\ \/ ~linked /\ AnswerAtOnce(c, "sso", SSOResponses.NoLink)
              \/ /\ linked /\ found = {}
                 /\ Begin(c, [op |-> "sso", at |-> "user", email |-> e])
              \/ \E u \in found :
                    linked /\ Begin(c, [op |-> "sso", at |-> "issue", user |-> u])

SSOUser(c) ==
    LET user == User(calls[c].email, "")
    IN  /\ At(c, "sso", "user")
        /\ IF CanCreateUser(rows, user)
           THEN /\ Store(CreateUser(rows, user))
                /\ Continue(c, [op |-> "sso", at |-> "member", user |-> Len(rows.users) + 1])
           ELSE Reads /\ Answer(c, SSOResponses.Failed)

(* The error of this insert is ignored. *)
SSOMember(c) ==
    /\ At(c, "sso", "member")
    /\ Store(AddCompanyMember(rows, 1, calls[c].user, "member")) \/ Reads
    /\ Continue(c, [calls[c] EXCEPT !.at = "issue"])

SSOIssues(c) ==
    /\ At(c, "sso", "issue")
    /\ \E role \in {GetEffectiveRole(rows, 1, calls[c].user), "none"} :
           Store(IssuePair(rows, calls[c].user, 1, IF role = "none" THEN "member" ELSE role))
    /\ Answer(c, SSOResponses.Done)

-----------------------------------------------------------------------------
(* Organizations. *)
OrgCreate(c) ==
    /\ Free({"orgs"}, c)
    /\ \E claims \in Authenticated(rows), slug \in Slugs :
       \E found \in Found(GetOrganizationBySlug(rows, slug)) :
           /\ Reads
           /\ IF found # {}
              THEN AnswerAtOnce(c, "org", OrgCreateResponses.SlugTaken)
              ELSE Begin(c, [op |-> "org", at |-> "insert", slug |-> slug, user |-> claims.user])

OrgInsert(c) ==
    /\ At(c, "org", "insert")
    /\ IF GetOrganizationBySlug(rows, calls[c].slug) # {}  \* the unique index
       THEN Reads /\ Answer(c, OrgCreateResponses.SlugTaken)
       ELSE /\ Store(CreateOrganization(rows, calls[c].slug))
            /\ Continue(c, [op |-> "org", at |-> "owner", user |-> calls[c].user,
                            org |-> Len(rows.orgs) + 1])

OrgOwner(c) ==
    /\ At(c, "org", "owner")
    /\ Store(AddOrgMember(rows, calls[c].org, calls[c].user, "org_owner"))
    /\ Answer(c, OrgCreateResponses.Done)

(* A change of slug: read the row, look for another one's, write. *)
OrgUpdate(c) ==
    /\ Free({"orgs"}, c)
    /\ \E claims \in Authenticated(rows), org \in Ids(rows.orgs), slug \in Slugs :
       \E found \in Found(GetOrganizationBySlug(rows, slug)) :
           /\ Reads
           /\ RequireOrgRole(rows, claims, org, "org_admin")
           /\ IF found \ {org} # {}
              THEN AnswerAtOnce(c, "reslug", OrgUpdateResponses.SlugTaken)
              ELSE Begin(c, [op |-> "reslug", at |-> "write", org |-> org, slug |-> slug])

OrgUpdateWrites(c) ==
    /\ At(c, "reslug", "write")
    /\ IF GetOrganizationBySlug(rows, calls[c].slug) \ {calls[c].org} # {}
       THEN Reads /\ Answer(c, OrgUpdateResponses.SlugTaken)
       ELSE /\ Store(UpdateOrganization(rows, calls[c].org, calls[c].slug))
            /\ Answer(c, OrgUpdateResponses.Done)

OrgAddMember(c) ==
    /\ Free({"orgs"}, c)
    /\ \E claims \in Authenticated(rows), org \in Ids(rows.orgs), u \in Ids(rows.users) :
           /\ Reads
           /\ RequireOrgRole(rows, claims, org, "org_admin")
           /\ IF Cardinality(ListOrgMembers(rows, org)) >= MaxUsers
              THEN AnswerAtOnce(c, "join", OrgMemberResponses.LimitUsers)
              ELSE \E role \in {"org_admin", "org_member"} :
                       Begin(c, [op |-> "join", at |-> "insert", org |-> org, user |-> u,
                                 role |-> role])

OrgAddMemberInserts(c) ==
    /\ At(c, "join", "insert")
    /\ Store(AddOrgMember(rows, calls[c].org, calls[c].user, calls[c].role))
    /\ Answer(c, OrgMemberResponses.Done)

OrgUpdateMemberRole(c) ==
    /\ Free({"orgs"}, c)
    /\ \E claims \in Authenticated(rows), org \in Ids(rows.orgs), u \in Ids(rows.users) :
           /\ RequireOrgRole(rows, claims, org, "org_admin")
           /\ Store(UpdateOrgMemberRole(rows, org, u, "org_member"))
           /\ AnswerAtOnce(c, "role", OrgRoleResponses.Done)

OrgRemoveMember(c) ==
    /\ Free({"orgs"}, c)
    /\ \E claims \in Authenticated(rows), org \in Ids(rows.orgs), u \in Ids(rows.users) :
           /\ RequireOrgRole(rows, claims, org, "org_admin")
           /\ Store(RemoveOrgMember(rows, org, u))
           /\ AnswerAtOnce(c, "leave", OrgRemoveResponses.Done)

(* A company under an organization; its creator's role there reaches it.  A
   count that fails is a count of none. *)
CompanyCreate(c) ==
    /\ Free({"orgs"}, c)
    /\ \E claims \in Authenticated(rows), org \in Ids(rows.orgs), counted \in BOOLEAN :
           /\ Reads
           /\ RequireOrgRole(rows, claims, org, "org_admin")
           /\ IF (IF counted THEN Cardinality(CompaniesByOrg(rows, org)) ELSE 0) >= MaxCompanies
              THEN AnswerAtOnce(c, "company", CompanyResponses.LimitReached)
              ELSE Begin(c, [op |-> "company", at |-> "insert", org |-> org, counted |-> counted])

CompanyInsert(c) ==
    /\ At(c, "company", "insert")
    /\ Store(CreateCompany(rows, calls[c].org, calls[c].counted))
    /\ Answer(c, CompanyResponses.Done)

(* An update writes the whole row; what it leaves out it writes as it read. *)
CompanyUpdate(c) ==
    /\ Free({"orgs"}, c)
    /\ \E company \in Ids(rows.companies), tin \in {0, 1} :
           /\ Reads
           /\ Begin(c, [op |-> "update", at |-> "write", company |-> company,
                        tin |-> IF tin = 0 THEN rows.companies[company].tin ELSE tin])

CompanyUpdateWrites(c) ==
    /\ At(c, "update", "write")
    /\ Store(UpdateCompany(rows, calls[c].company, calls[c].tin))
    /\ Answer(c, CompanyUpdateResponses.Done)

-----------------------------------------------------------------------------
(* Telegram accounts: linked by a one-time token, an API key or a name. *)
DeepLink(c) ==
    /\ Free({"telegram"}, c)
    /\ \E t \in TelegramIds, l \in Ids(rows.links) :
           /\ Reads
           /\ IF GetValidLinkToken(rows, l) = {}
              THEN AnswerAtOnce(c, "start", 404)
              ELSE Begin(c, [op |-> "start", at |-> "mark", link |-> l, telegram |-> t])

(* The error of this update is ignored. *)
DeepLinkMarks(c) ==
    /\ At(c, "start", "mark")
    /\ Store(MarkLinkTokenUsed(rows, calls[c].link)) \/ Reads
    /\ Continue(c, [calls[c] EXCEPT !.at = "link"])

DeepLinks(c) ==
    LET l == rows.links[calls[c].link]
    IN  /\ At(c, "start", "link")
        /\ Store(UpsertTelegramUser(rows, calls[c].telegram, l.user, l.company))
        /\ Answer(c, 200)

LinkByKey(c) ==
    /\ Free({"telegram"}, c)
    /\ \E t \in TelegramIds, key \in 1..rows.keys, u \in Ids(rows.users) :
           LET company == GetFirstCompanyByUser(rows, u)
           IN  /\ Reads
               /\ u \in GetUserByAPIKey(rows, key)
               /\ IF company = 0
                  THEN AnswerAtOnce(c, "link", 404)
                  ELSE Begin(c, [op |-> "link", at |-> "upsert", telegram |-> t, user |-> u,
                                 company |-> company])

(* An account that is not linked yet and has the name of a user is linked to
   the user's oldest membership. *)
AutoLink(c) ==
    /\ Free({"telegram"}, c)
    /\ \E t \in TelegramIds : \E m \in GetUserByTelegramUsername(rows, "nick") :
           /\ Reads
           /\ rows.telegram[t].user = 0
           /\ Begin(c, [op |-> "link", at |-> "upsert", telegram |-> t, user |-> m.user,
                        company |-> m.company])

LinkUpserts(c) ==
    /\ At(c, "link", "upsert")
    /\ Store(UpsertTelegramUser(rows, calls[c].telegram, calls[c].user, calls[c].company))
    /\ Answer(c, 200)

(* A statement of a request fails and the handler gives up; the requests that
   look past an error have a step of their own for it. *)
IdentityFails(c) ==
    /\ part \in IdentityParts /\ Open(c)
    /\ calls[c].at \in {"company", "user", "member", "key", "insert", "owner", "write", "upsert"}
    /\ ~(calls[c].op = "sso" /\ calls[c].at = "member")
    /\ Reads /\ Answer(c, 500)

IdentityNext ==
    \E c \in Serving(IdentityParts) :
        \/ Register(c) \/ RegisterCompany(c) \/ RegisterUser(c) \/ RegisterMember(c)
        \/ CreateMember(c) \/ CreateMemberUser(c) \/ CreateMemberRole(c)
        \/ CreateMemberKey(c) \/ CreateMemberLink(c) \/ InviteMember(c) \/ InviteAdds(c)
        \/ Login(c) \/ LoginRole(c) \/ RefreshToken(c) \/ RefreshRevokes(c) \/ RefreshIssues(c)
        \/ Logout(c) \/ SwitchCompany(c) \/ GenerateAPIKey(c)
        \/ SSOLogin(c) \/ SSOUser(c) \/ SSOMember(c) \/ SSOIssues(c)
        \/ OrgCreate(c) \/ OrgInsert(c) \/ OrgOwner(c) \/ OrgUpdate(c) \/ OrgUpdateWrites(c)
        \/ OrgAddMember(c) \/ OrgAddMemberInserts(c)
        \/ OrgUpdateMemberRole(c) \/ OrgRemoveMember(c)
        \/ CompanyCreate(c) \/ CompanyInsert(c) \/ CompanyUpdate(c) \/ CompanyUpdateWrites(c)
        \/ DeepLink(c) \/ DeepLinkMarks(c) \/ DeepLinks(c)
        \/ LinkByKey(c) \/ AutoLink(c) \/ LinkUpserts(c) \/ IdentityFails(c)

-----------------------------------------------------------------------------
HasMember(db, u, company) == \E m \in ToSet(db.members) : m.user = u /\ m.company = company

(* The companies of an organization that were created with a count. *)
CompaniesCounted(db, org) == {co \in CompaniesByOrg(db, org) : db.companies[co].counted}

(* Whom a link token and a Telegram account stand for. *)
LinksNameMembers(db) == \A l \in Ids(db.links) :
                            HasMember(db, db.links[l].user, db.links[l].company)
AccountsNameMembers(db) ==
    \A t \in TelegramIds : db.telegram[t].user # 0 =>
        HasMember(db, db.telegram[t].user, db.telegram[t].company)

(* Tables to begin with: within the limits, and with no link to a stranger. *)
IdentityStart(db) ==
    /\ db \in IdentityTables /\ IsFiniteSet(db.orgMembers)
    /\ LinksNameMembers(db) /\ AccountsNameMembers(db)
    /\ \A m \in db.orgMembers : m.org \in Ids(db.orgs)
    /\ \A co \in Ids(db.companies) : db.companies[co].org \in Ids(db.orgs) \cup {0}
    /\ \A o \in Ids(db.orgs) : /\ Cardinality(CompaniesCounted(db, o)) <= MaxCompanies
                              /\ Cardinality(ListOrgMembers(db, o)) <= MaxUsers

IdentityInit == part \in IdentityParts /\ IdentityStart(rows) /\ RequestsInit

IdentitySpec == IdentityInit /\ [][IdentityNext]_requestVars

IsMember(u, company) == HasMember(rows, u, company)

(* Whoever was told that a user was registered, created or invited finds the
   user a member of the company, although the rows are written one by one and
   another request may take the email in between (auth_service.go, 63 and 142). *)
AnsweredIsMember ==
    \A c \in Callers :
        calls[c].op \in {"register", "create", "invite"} /\ calls[c].at = "answered"
            /\ calls[c].status = 201
        => IsMember(calls[c].user, calls[c].company)

(* The limits of an organization, read before the insert, are passed by at
   most one company or member per further request (org_service.go, 138;
   company_service.go, 40), and by the companies whose count failed. *)
LimitsBounded ==
    \A o \in Ids(rows.orgs) :
        /\ Cardinality(CompaniesCounted(rows, o)) <= MaxCompanies + Cardinality(Callers) - 1
        /\ Cardinality(ListOrgMembers(rows, o)) <= MaxUsers + Cardinality(Callers) - 1

(* A refresh token that was revoked before the request came yields no pair,
   unless the look at the revoked tokens failed (auth_service.go, 281). *)
RevokedYieldsNothing ==
    \A c \in Callers :
        calls[c].op = "refresh" /\ calls[c].at = "answered" /\ calls[c].status = 200
            /\ calls[c].late
        => ~calls[c].looked

(* A Telegram account acts for a user in a company the user is a member of,
   whichever of the three ways linked it (bot/link.go, 45, 94 and 155). *)
LinkedIsMember == AccountsNameMembers(rows)

IdentitySound ==
    part \in IdentityParts =>
        AnsweredIsMember /\ LimitsBounded /\ RevokedYieldsNothing /\ LinkedIsMember
=============================================================================
