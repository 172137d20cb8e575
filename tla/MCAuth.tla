------------------------------- MODULE MCAuth --------------------------------
(* Tokens of two projects, two users, a manager and an integration, shown in  *)
(* a header or in cookies, on the routes of an open and an account container, *)
(* those of embedded arrays with one name or two, on pages and on the panel.  *)
EXTENDS RequestAuth, TLC

Token(scope, project, user, role, use) ==
  [scope |-> scope, project |-> project, tenant |-> "t", user |-> user, role |-> role, use |-> use]

Ann == Token("project", "p", "ann", "clerk", "access")
Bob == Token("project", "p", "bob", "chief", "access")
Other == Token("project", "p2", "eve", "chief", "access")
Late == Token("project", "p", "ann", "clerk", "refresh")
Owner == Token("tenant", "", "mia", "owner", "access")
Panel == Token("managed", "p", "mia", "admin", "access")
Panel2 == Token("managed", "p2", "mia", "admin", "access")
Robot(id) == Token("integration", "p", id, "", "access")

Flags(authenticated, authorized, active, policy, roles) ==
  [authenticated |-> authenticated, authorized |-> authorized, active |-> active,
   policy |-> policy, roles |-> roles]
OpenTo == Flags(FALSE, FALSE, TRUE, FALSE, {})
Chiefs == Flags(TRUE, TRUE, TRUE, FALSE, {"chief"})
Ruled == Flags(FALSE, FALSE, TRUE, TRUE, {})

CreateRoute == <<"route", "CreateDynamicModelItem">>
All == <<"route", "GetAllDynamicModelItems">>
Paged == <<"route", "GetAllDynamicModelItemsWithPagination">>
Changed == <<"route", "UpdateDynamicModelItem">>
Removed == <<"route", "DeleteDynamicModelItem">>
Flow == <<"workflow", "w">>
Line == <<"pipeline", "l">>

Sets == [
  open |-> [accounts |-> FALSE, settings |-> (CreateRoute :> OpenTo) @@ (All :> OpenTo) @@ (Paged :> Ruled)
                                             @@ (Flow :> Chiefs) @@ (Changed :> OpenTo) @@ (Removed :> Chiefs)],
  account |-> [accounts |-> TRUE, settings |-> (CreateRoute :> OpenTo) @@ (All :> Chiefs) @@ (Flow :> OpenTo)
                                               @@ (Changed :> OpenTo)]]

Stored(project, ended, permissions) ==
  [project |-> project, tenant |-> "t", ended |-> ended, permissions |-> permissions]
Permit(at, method) == [at |-> at, schema |-> "open", method |-> method]
Robots ==
  ("good" :> Stored("p", FALSE, {Permit(CreateRoute, "POST"), Permit(Flow, "POST"), Permit(Changed, "PATCH")}))
  @@ ("ended" :> Stored("p", TRUE, {Permit(CreateRoute, "POST")}))
  @@ ("away" :> Stored("p2", FALSE, {Permit(CreateRoute, "POST")}))

AtStart == [d \in {"user", "tenant", "project"} |-> {"active"}]
         @@ ("member" :> {"owner"}) @@ ("projectMember" :> {"developer"})

At(method, route, name, source) ==
  [method |-> method, route |-> route, name |-> name, source |-> source]
RecordRoutes == {At("POST", "CreateDynamicModelItem", "", ""), At("GET", "GetAllDynamicModelItems", "", ""),
          At("POST", "ExecuteWorkflow", "w", ""), At("POST", "ExecuteWorkflow", "x", ""),
          At("GET", "GetTableSource", "w", "workflow"), At("GET", "GetTableSource", "", "schema"),
          At("GET", "GetPipeline", "l", ""), At("GET", "ExecuteDynamicAPI", "a", "")}

Showing(header, cookie, panel, wide, trusted) ==
  [header |-> header, cookie |-> cookie, panel |-> panel, wide |-> wide, trusted |-> trusted,
   tenant |-> "t", project |-> "p"]
Shows ==
  {Showing(h, NoToken, p, NoToken, TRUE) :
     h \in {Malformed, Ann, Other, Late, Panel, Robot("good"), Robot("ended"), Robot("away"), Robot("lost")},
     p \in {NoToken, Panel}}
  \cup {Showing(NoToken, c, p, NoToken, t) : c \in {NoToken, Bob, Other}, p \in {NoToken, Panel, Panel2},
                                             t \in BOOLEAN}

ArrayRoutes == {At("PATCH", "UpdateDynamicModelItem", "", ""), At("DELETE", "DeleteDynamicModelItem", "", "")}

Named(query, path) == [kind |-> "record", query |-> query, path |-> path]
RecordCalls ==
  {Named(query, "") @@ call @@ shown :
     query \in DOMAIN Sets \cup {"", "lost"}, call \in RecordRoutes, shown \in Shows}
  \cup {Named(query, path) @@ call @@ shown :
     query \in DOMAIN Sets \cup {""}, path \in DOMAIN Sets, call \in ArrayRoutes, shown \in Shows}
Views ==
  {[kind |-> kind, method |-> "GET", name |-> "", scope |-> "project",
    permission |-> "project.config.read", refreshable |-> ~ shown.trusted] @@ shown :
     kind \in {"page", "member", "container"}, shown \in Shows}
PanelCalls ==
  {[kind |-> "tenant", method |-> "POST", name |-> "", scope |-> call[1], permission |-> call[2], target |-> target]
     @@ Showing(h, NoToken, NoToken, w, t) :
     call \in {<<"tenant", "tenant.projects.delete">>, <<"any", "tenant.projects.read">>,
               <<"target", "project.schema.write">>, <<"switch", "project.config.read">>},
     target \in {"p", "p2"}, h \in {NoToken, Panel, Ann}, w \in {NoToken, Owner}, t \in BOOLEAN}

Presented == RecordCalls \cup Views \cup PanelCalls
=============================================================================
