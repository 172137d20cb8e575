----------------------------- MODULE RequestAuth -----------------------------
(* Who a request is taken for, and whether it reaches its handler: project   *)
(* users and integrations on the routes of records and on pages, management  *)
(* users on the panel and on the records of account containers.              *)
(*                                                                           *)
(* A token is [scope, project, tenant, user, role, use]: scope "project" of a*)
(* project user, "tenant" and "managed" of a management user for his tenant  *)
(* and for one project, "integration"; a forged or expired one has scope     *)
(* "none". A request is [kind, method, tenant, project, header, cookie,      *)
(* panel, wide, trusted] and what its kind calls; header, cookie (of the     *)
(* project), panel and wide (of the management sessions of the project and of*)
(* the tenant) hold a token or NoToken, the header also Malformed; trusted   *)
(* says that its Origin is on the list. A record request names its container *)
(* in its query or, for the routes of embedded arrays, in its path ("": not).*)
(* The permissions of a management user come from five documents read one    *)
(* after another, while any of them may change.                              *)
EXTENDS FiniteSets, Sequences, Naturals

CONSTANTS
  NoToken, Malformed,
  Demands,      \* what may be asked
  Schemas,       \* name :> [accounts, settings: place :> flags and roles]
  Integrations,  \* user of an integration token :> its stored credential
  Callers,       \* the requests under way
  Home,          \* the project the management user belongs to
  Granted,       \* document :> what it says of him at the start
  MaxWithdrawn   \* how many of them are withdrawn

VARIABLES
  facts,         \* of the management user: which documents speak for him
  gate           \* caller :> his request on its way to the handler

authVars == <<facts, gate>>

Nobody == [kind |-> "anonymous", user |-> "", role |-> ""]
Caller(kind, token) == [kind |-> kind, user |-> token.user, role |-> token.role]

\* The outcomes of the checks: the handler, an error, or the permission still
\* to be looked up, for an operation that is enabled or not.
Pass(who) == [to |-> "handler", who |-> who]
Stop(status) == [to |-> "error", status |-> status]
Seek(token, permission, project, enabled) ==
  [to |-> "lookup", who |-> Caller("management", token), permission |-> permission,
   project |-> project, enabled |-> enabled]

SafeMethod(method) == method \in {"GET", "HEAD", "OPTIONS"}

ReadRoutes ==
  {"GetAllDynamicModelItems", "GetDynamicModelItem", "GetAllDynamicModelItemsWithPagination",
   "HandleSearchDynamicModelItem", "HandleFilterDynamicModelItem", "GetItemsForSelection",
   "ExportDynamicModelItems"}

-----------------------------------------------------------------------------
(* Credentials.                                                              *)

\* The first of the cookies that is there.
FirstOf(cookies) ==
  LET there == {i \in DOMAIN cookies : cookies[i] # NoToken}
  IN {[token |-> cookies[i], by |-> "cookie"] :
        i \in {j \in there : \A k \in there : j <= k}}

\* A header is taken or refused; no cookie is tried then.
ResolveCredential(req, cookies) ==
  IF req.header = NoToken THEN FirstOf(cookies)
  ELSE {[token |-> req.header, by |-> "bearer"]} \ {[token |-> Malformed, by |-> "bearer"]}

ResolveProject(req) == ResolveCredential(req, <<req.cookie>>)

\* Paths of the tenant know its own session only; elsewhere that of the project
\* comes first.
ResolveManagement(req) ==
  ResolveCredential(req, IF req.kind = "tenant" THEN <<req.wide>> ELSE <<req.panel, req.wide>>)

ProjectToken(token) == token.scope = "project" /\ token.use = "access"

TenantToken(token) == token.scope \in {"tenant", "managed"} /\ token.use = "access"

OfProject(token, req) == token.project = req.project /\ token.tenant = req.tenant

Untrusted(req, credential) ==
  credential.by = "cookie" /\ ~ SafeMethod(req.method) /\ ~ req.trusted

-----------------------------------------------------------------------------
(* The settings of what a request calls.                                     *)

IsPipeline(req) ==
  req.route = "GetPipeline" \/ (req.route = "GetTableSource" /\ req.source = "pipeline")
IsWorkflow(req) ==
  req.route = "ExecuteWorkflow" \/ (req.route = "GetTableSource" /\ req.source = "workflow")
IsRead(req) ==
  req.route \in ReadRoutes \/ (req.route = "GetTableSource" /\ req.source = "schema")

Place(req) ==
  CASE IsPipeline(req) -> <<"pipeline", req.name>>
    [] IsWorkflow(req) -> <<"workflow", req.name>>
    [] req.route = "ExecuteDynamicAPI" -> <<"api", req.name>>
    [] req.route = "GetTableSource" /\ req.source = "schema" ->
         <<"route", "GetAllDynamicModelItemsWithPagination">>
    [] OTHER -> <<"route", req.route>>

\* A pipeline or API nobody declared is not active.
Undeclared == [authenticated |-> FALSE, authorized |-> FALSE, active |-> FALSE, policy |-> FALSE, roles |-> {}]

\* The container the middleware judges by: the query comes before the path.
ConditionalSchemaName(req) == IF req.query # "" THEN req.query ELSE req.path

\* The container the handler works on: of the routes of embedded arrays the one
\* of the path, of all others that of the query.
WorkedOn(req) == IF req.path # "" THEN req.path ELSE req.query

SettingsIn(schema, req) ==
  LET all == Schemas[schema].settings
  IN IF Place(req) \in DOMAIN all THEN all[Place(req)] ELSE Undeclared

Settings(req) == SettingsIn(ConditionalSchemaName(req), req)

RequiresToken(s) == s.authenticated \/ s.authorized \/ s.policy \/ ~ s.active

-----------------------------------------------------------------------------
(* Project users and integrations.                                           *)

Authenticate(req, s) ==
  LET found == ResolveProject(req)
  IN IF found = {} THEN Stop(401)
     ELSE LET c == CHOOSE x \in found : TRUE
          IN CASE Untrusted(req, c) -> Stop(403)
               [] ~ Untrusted(req, c) /\ ~ ProjectToken(c.token) -> Stop(401)
               [] OTHER ->
                    IF OfProject(c.token, req) /\ s.active /\ (s.authorized => c.token.role \in s.roles)
                    THEN Pass(Caller("caller", c.token)) ELSE Stop(403)

Identified(usable) ==
  IF usable = {} THEN Pass(Nobody)
  ELSE Pass(Caller("caller", (CHOOSE c \in usable : TRUE).token))

(* Fault: an open route takes the user of another project at his word. *)
OptionalOfAnyProject(req) ==
  Identified({c \in ResolveProject(req) :
                ProjectToken(c.token) /\ (c.by = "cookie" => SafeMethod(req.method) /\ IsRead(req))})

\* An open route knows the caller by a token that fits; a cookie counts only
\* for a read.
OptionalIdentity(req) ==
  Identified({c \in ResolveProject(req) :
                /\ ProjectToken(c.token) /\ OfProject(c.token, req)
                /\ c.by = "cookie" => SafeMethod(req.method) /\ IsRead(req)})

Page(req) ==
  Identified({c \in ResolveProject(req) : ProjectToken(c.token) /\ OfProject(c.token, req)})

\* What is asked of an integration: the record route it calls under its own
\* name, a pipeline, workflow or API under its place.
Needed(req) ==
  [at |-> IF Place(req)[1] = "route" THEN <<"route", req.route>> ELSE Place(req),
   schema |-> ConditionalSchemaName(req), method |-> req.method]

Integration(req, s) ==
  IF ~ s.active THEN Stop(403)
  ELSE IF req.header.user \notin DOMAIN Integrations THEN Stop(401)
  ELSE LET stored == Integrations[req.header.user]
       IN CASE ~ OfProject(stored, req) -> Stop(403)
            [] OfProject(stored, req) /\ stored.ended -> Stop(401)
            [] OTHER ->
                 IF Needed(req) \in stored.permissions
                 THEN Pass([Nobody EXCEPT !.kind = "integration", !.user = req.header.user])
                 ELSE Stop(403)

-----------------------------------------------------------------------------
(* Management users.                                                         *)

OfProjects(permission) == permission \in {"project.config.read", "project.schema.write"}

ValidClaims(token) == (token.scope = "tenant") = (token.project = "")

\* The principal of a management request, or the error.
Principal(req) ==
  LET found == ResolveManagement(req)
  IN IF found = {} THEN Stop(401)
     ELSE LET c == CHOOSE x \in found : TRUE
          IN CASE Untrusted(req, c) -> Stop(403)
               [] ~ Untrusted(req, c) /\ ~ (TenantToken(c.token) /\ ValidClaims(c.token)) -> Stop(401)
               [] OTHER -> [to |-> "scope", token |-> c.token]

\* The scope of a contract against the scope of the token, and the project the
\* permission is asked for ("": the tenant as a whole).
InScope(req, token) ==
  \/ req.scope = "any"
  \/ req.scope \in {"tenant", "switch"} /\ token.scope = "tenant"
  \/ req.scope = "project" /\ token.scope = "managed" /\ OfProject(token, req)
  \/ req.scope = "target" /\ token.project \in {"", req.target}

AskedFor(req, token) ==
  IF req.scope \in {"tenant", "any"} THEN ""
  ELSE IF req.scope = "project" THEN token.project ELSE req.target

Contract(req) ==
  LET p == Principal(req)
  IN IF p.to = "error" THEN p
     ELSE IF InScope(req, p.token) THEN Seek(p.token, req.permission, AskedFor(req, p.token), TRUE)
     ELSE Stop(403)

\* Records of account containers are managed like the panel: everything but a
\* read, and a read that comes with a management session.
ByRoutePermissions(req) ==
  /\ IsRead(req)
  /\ \A c \in ResolveManagement(req) : c.by = "bearer" /\ ~ TenantToken(c.token)

Enabled(req) == Place(req)[1] = "route" \/ Settings(req).active

AccountManagement(req) ==
  LET p == Principal(req)
  IN IF p.to = "error" THEN p
     ELSE IF ~ OfProject(p.token, req) THEN Stop(403)
     ELSE Seek(p.token, IF IsRead(req) THEN "project.config.read" ELSE "project.schema.write",
               req.project, Enabled(req))

-----------------------------------------------------------------------------
(* The middleware of a route up to the lookup of a permission.               *)

ConditionalAuthentication(req) ==
  LET schema == ConditionalSchemaName(req)
      s == Settings(req)
  IN IF schema = "" THEN Stop(400)
     ELSE IF schema \notin DOMAIN Schemas THEN Stop(500)
     ELSE IF Schemas[schema].accounts /\ ~ ByRoutePermissions(req) THEN AccountManagement(req)
     ELSE IF IsWorkflow(req) /\ Place(req) \notin DOMAIN Schemas[schema].settings THEN Stop(404)
     ELSE IF req.header \notin {NoToken, Malformed} /\ req.header.scope = "integration"
          THEN Integration(req, s)
     ELSE IF RequiresToken(s) THEN Authenticate(req, s)
     ELSE OptionalIdentity(req)

\* A container is read by the panel whole, by an application in a filtered view:
\* a header decides by what it is, otherwise a management session comes first.
RuntimeView(req) ==
  IF req.header # NoToken THEN \E c \in ResolveProject(req) : ProjectToken(c.token)
  ELSE ResolveManagement(req) = {} /\ (ResolveProject(req) # {} \/ req.refreshable)

MemberOnly(req) == Authenticate(req, [Undeclared EXCEPT !.active = TRUE])

Checked(req) ==
  CASE req.kind = "record" -> ConditionalAuthentication(req)
    [] req.kind = "page" -> Page(req)
    [] req.kind = "member" -> MemberOnly(req)
    [] req.kind = "container" /\ RuntimeView(req) -> MemberOnly(req)
    [] OTHER -> Contract(req)

\* The routes: the pages are read; what has a place of its own has a name; a
\* contract of a project asks for a permission on projects, any other for one on
\* the tenant, and only the paths of the tenant have contracts of other scopes.
ASSUME DemandsAssumption ==
  \A req \in Demands :
    /\ {req.cookie, req.panel, req.wide} \cap {Malformed} = {}
    /\ req.kind = "record" => (req.name = "" <=> Place(req)[1] = "route")
    /\ req.kind = "page" => SafeMethod(req.method)
    /\ req.kind \notin {"record", "page", "member", "tenant"} => req.scope = "project"
    /\ req.kind \notin {"record", "page", "member"} => (OfProjects(req.permission) <=> req.scope \notin {"tenant", "any"})

-----------------------------------------------------------------------------
(* The lookup: the documents are read in this order, the last two only for a *)
(* project; the roles of the token play no part.                             *)

Documents == <<"user", "tenant", "member", "project", "projectMember">>

RolesFor(permission) ==
  CASE permission = "tenant.projects.read" -> {"owner", "tenantAdmin", "billing", "auditor"}
    [] permission = "tenant.projects.delete" -> {"owner"}
    [] permission = "project.config.read" -> {"admin", "developer", "editor", "viewer", "support"}
    [] permission = "project.schema.write" -> {"admin", "developer"}
    [] OTHER -> {}

\* How many of them must be there; the last has the roles.
Needs(permission) == IF OfProjects(permission) THEN Len(Documents) ELSE 3

\* seen has of each document its roles, or that it is active; {} when it is not
\* there.
Authorized(check, seen) ==
  /\ OfProjects(check.permission) => check.project # ""
  /\ \A i \in 1..Needs(check.permission) : seen[i] # {}
  /\ seen[Needs(check.permission)] \cap RolesFor(check.permission) # {}

ASSUME GrantedAssumption == DOMAIN Granted = {Documents[i] : i \in 1..Len(Documents)}

\* Nothing says that the user belongs to another project.
Found(check, d) ==
  IF d \in {"project", "projectMember"} /\ check.project # Home THEN {} ELSE facts[d]

Count(check) == IF check.project = "" THEN 3 ELSE Len(Documents)

-----------------------------------------------------------------------------
AuthInit ==
  /\ facts = Granted
  /\ gate = [r \in Callers |-> [pc |-> "idle"]]

\* Everything up to the first document.
Arrive(r) ==
  /\ gate[r].pc = "idle"
  /\ \E req \in Demands : \E outcome \in {Checked(req)} :
       gate' = [gate EXCEPT ![r] = [pc |-> outcome.to, req |-> req, outcome |-> outcome, seen |-> <<>>,
                                    gone |-> {d \in DOMAIN facts : facts[d] = {}}]]
  /\ UNCHANGED facts

Stopped(r, status) == gate' = [gate EXCEPT ![r].pc = "error", ![r].outcome = Stop(status)]

\* The next document; the database may fail.
Look(r) ==
  /\ gate[r].pc = "lookup" /\ Len(gate[r].seen) < Count(gate[r].outcome)
  /\ LET next == Found(gate[r].outcome, Documents[Len(gate[r].seen) + 1]) IN
     gate' = [gate EXCEPT ![r].seen = Append(gate[r].seen, next)] \/ Stopped(r, 503)
  /\ UNCHANGED facts

Decide(r) ==
  /\ gate[r].pc = "lookup" /\ Len(gate[r].seen) = Count(gate[r].outcome)
  /\ IF Authorized(gate[r].outcome, gate[r].seen) /\ gate[r].outcome.enabled
       THEN gate' = [gate EXCEPT ![r].pc = "handler"] ELSE Stopped(r, 403)
  /\ UNCHANGED facts

\* A project is deleted, its memberships go; a user, a tenant or a membership is
\* switched off by hand.
Withdraw(d) ==
  /\ Cardinality({e \in DOMAIN facts : facts[e] = {}}) < MaxWithdrawn
  /\ facts[d] # {}
  /\ facts' = [facts EXCEPT ![d] = {}]
  /\ UNCHANGED gate

AuthNext ==
  \/ \E r \in Callers : Arrive(r) \/ Look(r) \/ Decide(r)
  \/ \E d \in DOMAIN facts : Withdraw(d)

AuthSpec == AuthInit /\ [][AuthNext]_authVars

-----------------------------------------------------------------------------
(* Properties.                                                               *)

Shown(req) == {req.header, req.cookie, req.panel, req.wide} \ {NoToken, Malformed}

\* A route of embedded arrays whose query names another container than its path.
TwoNames(req) == req.path # "" /\ req.query \notin {"", req.path}

\* The container whose rules let a record request in: the one it works on, unless
\* it names two; then that of the query.
JudgedBy(req) == IF TwoNames(req) THEN req.query ELSE WorkedOn(req)

\* What a request that has reached its handler must have shown, by who it is
\* taken for.
ActsRightly(req, who, seen, gone) ==
  CASE who.kind = "caller" ->
         \E t \in Shown(req) :
           /\ t.scope = "project" /\ t.use = "access"
           /\ t.user = who.user /\ t.role = who.role /\ OfProject(t, req)
    [] who.kind = "management" ->
         /\ \E t \in Shown(req) :
              /\ t.scope \in {"tenant", "managed"} /\ t.use = "access" /\ t.user = who.user
              /\ t.scope = "managed" /\ req.kind # "tenant" => OfProject(t, req)
         /\ {"user", "tenant", "member"} \cap gone = {}
         /\ Len(seen) = Len(Documents) => {"project", "projectMember"} \cap gone = {}
    [] who.kind = "integration" ->
         \E i \in DOMAIN Integrations :
           /\ i = who.user /\ ~ Integrations[i].ended /\ OfProject(Integrations[i], req)
           /\ \E p \in Integrations[i].permissions :
                /\ p.schema = JudgedBy(req) /\ p.method = req.method
                /\ p.at = IF req.name # "" THEN Place(req) ELSE <<"route", req.route>>
    [] OTHER -> who = Nobody

\* Whatever a request shows together, it reaches its handler as a user only by
\* an access token of his for this project, as a manager only if nothing that
\* speaks for him was gone when it came, as an integration only with a
\* permission for just this operation that stands; a route that is not open is
\* never reached without a name, records of accounts are changed by managers only,
\* and a site that is not trusted changes nothing with the cookies of the user.
\* All this by the rules of the container the request works on; except that a
\* route of embedded arrays whose query names another container is let in by the
\* rules of that one, and nothing is said of the one it works on.
OnlyPermitted ==
  \A r \in Callers :
    gate[r].pc = "handler" =>
      LET req == gate[r].req
          who == gate[r].outcome.who
      IN /\ ActsRightly(req, who, gate[r].seen, gate[r].gone)
         /\ req.kind = "record" =>
              LET name == JudgedBy(req)
                  s == SettingsIn(name, req)
              IN /\ Schemas[name].accounts /\ ~ IsRead(req) => who.kind = "management"
                 /\ RequiresToken(s) => who.kind # "anonymous"
                 /\ who.kind = "caller" /\ s.authorized => who.role \in s.roles
         /\ ~ SafeMethod(req.method) /\ ~ req.trusted /\ req.header = NoToken => who = Nobody
=============================================================================
