------------------------------ MODULE MCReads -------------------------------
(* A member, an administrator and an anonymous caller read records of two    *)
(* owners under candidate containers: open, with a policy, with row rules;   *)
(* two of them give the pipeline different stages.                           *)
EXTENDS RecordReads

Visitor == [kind |-> "caller", userId |-> "", role |-> "", roles |-> {}, user |-> <<>>]
Member == [kind |-> "caller", userId |-> "a", role |-> "member", roles |-> {"member"},
           user |-> ("teams" :> List({Text("red")}))]
Manager == [kind |-> "caller", userId |-> "b", role |-> "manager", roles |-> {"manager"},
            user |-> <<>>]

Doc(owner, team) == [owner |-> ObjectId(owner), secret |-> Text(owner)]
                    @@ (IF team = "" THEN <<>> ELSE "team" :> Text(team))
Docs == {Doc("b", "")}

Start == 1 :> Doc("a", "red")

Open(type) == [type |-> type, restricted |-> FALSE, roles |-> {}, hashed |-> FALSE]
Fields == [owner |-> Open("objectId"), team |-> Open("string"),
           secret |-> [type |-> "string", restricted |-> TRUE, roles |-> {"manager"},
                       hashed |-> FALSE]]

Rule(left, op, value) == [left |-> left, op |-> op, value |-> value]
Field(f) == <<"field", f>>
Policy(rules) == [any |-> rules, assign |-> <<>>]

Mine == Rule(Field("owner"), "eq", Expr(<<"user", "id">>))
Manages == Rule(Expr(<<"user", "role">>), "in", List({Text("manager")}))
MyTeams == Rule(Field("team"), "in", Expr(<<"user", "teams">>))
NotRed == Rule(Field("team"), "nin", List({Text("red")}))
Odd == Rule(Field("owner"), "eq", Text("zz"))

Plain == [cached |-> TRUE, fields |-> Fields, access |-> <<>>, rows |-> {},
          creates |-> Policy({}), pipeline |-> {"owner", "secret"},
          workflow |-> [cached |-> TRUE, readOnly |-> TRUE]]

Owned == [Plain EXCEPT
  !.access = [route \in {"getAll", "getOne", "export"} |-> Policy({Mine, Manages})],
  !.creates = [any |-> {Mine}, assign |-> "owner" :> Expr(<<"user", "id">>)],
  !.pipeline = {"owner"}]

Restricted == [Plain EXCEPT
  !.access = ("getAll" :> Policy({MyTeams})) @@ ("export" :> Policy({NotRed, Odd})),
  !.rows = {[roles |-> {"member"}, field |-> "team", op |-> "eq", value |-> Text("red")],
            [roles |-> {"manager"}, field |-> "team", op |-> "eq",
             value |-> Expr(<<"user", "team">>)]},
  !.workflow.readOnly = FALSE]

Wrong == [Plain EXCEPT !.access = "getAll" :> [Policy({Mine}) EXCEPT !.assign = "team" :> Text("red")]]

Candidates == {Plain, Owned, Restricted, Wrong}

Ask(route, who) ==
  [route |-> route, ids |-> IF route = "getOne" THEN {1} ELSE {1, 2},
   names |-> IF route = "selection" THEN {"owner", "secret"} ELSE {},
   void |-> FALSE, who |-> who]

Questions ==
  {Ask("getAll", who) : who \in {Member, Manager}}
  \cup {Ask("workflow", who) : who \in {Visitor, Member}}
  \cup {Ask("selection", Member), Ask("export", Visitor), Ask("pipeline", Manager)}
  \cup {[Ask("paginated", Visitor) EXCEPT !.void = TRUE]}
=============================================================================
