---------------------------- MODULE RecordAccess ----------------------------
(* Who may see which record: the access policy of a route (record_access.go),*)
(* the row rules of a container (rowAccess.go) and the fields a role may see *)
(* (fieldFilter.go).                                                         *)
(*                                                                           *)
(* A policy is enforced twice in the code: reads turn it into a MongoDB      *)
(* filter, creates and updates evaluate it on the record at hand. Filter and *)
(* Allows are those two readings.                                            *)
(*                                                                           *)
(* A value is a tuple tagged with its type: a text, an object id, a list of  *)
(* values, or an expression {{auth.path}} that the caller resolves. The      *)
(* order comparisons of row rules and the nesting of fields are left out.    *)
EXTENDS Naturals, FiniteSets, TLC

CONSTANTS
  HexTexts     \* the texts that parse as an object id

Text(x) == <<"text", x>>
ObjectId(x) == <<"oid", x>>
List(S) == <<"list", S>>
Expr(path) == <<"expr", path>>

-----------------------------------------------------------------------------
(* The caller of a request: [kind, userId, role, roles, user]; an anonymous  *)
(* caller has userId "" and role "", user holds the loaded user's fields.    *)

Given(condition, path, value) == IF condition THEN path :> value ELSE <<>>

\* What the expressions of a policy can name.
AuthContext(who) ==
  Given(who.userId # "", <<"user", "id">>, Text(who.userId))
  @@ Given(who.userId # "", <<"user", "_id">>, Text(who.userId))
  @@ Given(who.role # "", <<"user", "role">>, Text(who.role))
  @@ Given(who.roles # {}, <<"user", "roles">>, List({Text(r) : r \in who.roles}))
  @@ [p \in {<<"user", f>> : f \in DOMAIN who.user} |-> who.user[p[2]]]
  @@ (<<"identity", "kind">> :> Text(who.kind))

Available(who, value) == value[1] = "expr" => value[2] \in DOMAIN AuthContext(who)

Resolve(who, value) ==
  IF value[1] = "expr" THEN AuthContext(who)[value[2]] ELSE value

\* The value in the type of its field; the empty set when it has no such form.
Normalize(type, value) ==
  IF type # "objectId" \/ value[1] = "oid" THEN {value}
  ELSE IF value[1] = "text" /\ value[2] \in HexTexts THEN {ObjectId(value[2])} ELSE {}

\* in and nin compare with the members of a list, each in the field's type.
NormalizeRule(type, op, value) ==
  IF op \notin {"in", "nin"} THEN Normalize(type, value)
  ELSE IF value[1] = "list" /\ \A v \in value[2] : Normalize(type, v) # {}
    THEN {List(UNION {Normalize(type, v) : v \in value[2]})} ELSE {}

ValuesMatch(op, left, right) ==
  CASE op = "eq" -> left = right
    [] op = "ne" -> left # right
    [] op = "in" -> right[1] = "list" /\ left \in right[2]
    [] op = "nin" -> right[1] = "list" => left \notin right[2]

-----------------------------------------------------------------------------
(* A policy: [any |-> rules, assign |-> field :> value]. A rule compares     *)
(* left, <<"field", name>> or an expression, with value.                     *)

OnField(rule) == rule.left[1] = "field"
FieldOf(rule) == rule.left[2]

ContextHolds(rule, who) ==
  /\ ~ OnField(rule) /\ Available(who, rule.left) /\ Available(who, rule.value)
  /\ ValuesMatch(rule.op, Resolve(who, rule.left), Resolve(who, rule.value))

\* The predicate a rule on a field puts into the filter, if it is usable.
Predicates(types, rule, who) ==
  IF ~ OnField(rule) \/ ~ Available(who, rule.value) THEN {}
  ELSE {[field |-> FieldOf(rule), op |-> rule.op, value |-> v] :
          v \in NormalizeRule(types[FieldOf(rule)], rule.op, Resolve(who, rule.value))}

\* What MongoDB matches: $ne and $nin also match a record without the field.
Selects(pred, record) ==
  IF pred.field \in DOMAIN record
  THEN ValuesMatch(pred.op, record[pred.field], pred.value)
  ELSE pred.op \in {"ne", "nin"}

\* A read without a policy, or whose context satisfies a rule, is unrestricted;
\* a policy none of whose rules is usable denies every record.
Filter(types, policy, who, record) ==
  \/ policy.any = {}
  \/ \E rule \in policy.any : ContextHolds(rule, who)
  \/ \E rule \in policy.any : \E pred \in Predicates(types, rule, who) :
        Selects(pred, record)

RuleAllows(types, rule, who, record) ==
  /\ OnField(rule) /\ FieldOf(rule) \in DOMAIN record /\ Available(who, rule.value)
  /\ \E left \in Normalize(types[FieldOf(rule)], record[FieldOf(rule)]) :
       \E right \in NormalizeRule(types[FieldOf(rule)], rule.op, Resolve(who, rule.value)) :
         ValuesMatch(rule.op, left, right)

\* A record that is created or updated is judged rule by rule.
Allows(types, policy, who, record) ==
  \/ policy.any = {}
  \/ \E rule \in policy.any :
       ContextHolds(rule, who) \/ RuleAllows(types, rule, who, record)

\* A create puts the trusted values over what the caller sent, all or none.
Assigned(types, policy, who, record) ==
  IF \E f \in DOMAIN policy.assign :
       \/ ~ Available(who, policy.assign[f])
       \/ Normalize(types[f], Resolve(who, policy.assign[f])) = {}
  THEN {}
  ELSE {[f \in DOMAIN policy.assign \cup DOMAIN record |->
           IF f \in DOMAIN policy.assign
           THEN CHOOSE v \in Normalize(types[f], Resolve(who, policy.assign[f])) : TRUE
           ELSE record[f]]}

-----------------------------------------------------------------------------
(* The policies a container may be saved with. fields maps a name to          *)
(* [type, restricted, roles, hashed]; the identifier is not among them.      *)

NamedContexts == {<<"identity", "kind">>, <<"user", "id">>, <<"user", "_id">>,
                  <<"user", "role">>, <<"user", "roles">>}

KnownExpression(value) ==
  value[1] = "expr" => value[2] \in NamedContexts \/ value[2][1] = "user"

ListLike(value) == value[1] = "list" \/ (value[1] = "expr" /\ value[2][1] = "user")

ValidRule(fields, rule) ==
  /\ IF OnField(rule) THEN FieldOf(rule) \in DOMAIN fields ELSE KnownExpression(rule.left)
  /\ rule.op \in {"in", "nin"} => ListLike(rule.value)
  /\ KnownExpression(rule.value)

ValidAssignment(fields, f, value) ==
  /\ f \in DOMAIN fields /\ ~ fields[f].hashed
  /\ KnownExpression(value) /\ value[1] \in {"text", "expr"}

ValidPolicy(fields, policy, creates) ==
  /\ policy.any # {} \/ DOMAIN policy.assign # {}
  /\ DOMAIN policy.assign # {} => creates
  /\ \A f \in DOMAIN policy.assign : ValidAssignment(fields, f, policy.assign[f])
  /\ \A rule \in policy.any : ValidRule(fields, rule)

-----------------------------------------------------------------------------
(* Row rules: [roles, field, op, value]; a placeholder {{user.x}} is an      *)
(* expression here too. A role without a rule is not filtered, one with      *)
(* several meets all of them.                                                *)

\* What a placeholder can name: the loaded user only if the route has a policy.
RowUser(who, hasPolicy) ==
  ("id" :> Text(who.userId)) @@ ("_id" :> Text(who.userId)) @@ ("role" :> Text(who.role))
  @@ (IF hasPolicy THEN ("roles" :> List({Text(r) : r \in who.roles})) @@ who.user ELSE <<>>)

RulesFor(rows, who) == {c \in rows : who.role \in c.roles}

\* A placeholder nothing resolves fails the request.
RowsResolve(rows, who, hasPolicy) ==
  \A c \in RulesFor(rows, who) :
    c.value[1] = "expr" => c.value[2][2] \in DOMAIN RowUser(who, hasPolicy)

InRows(rows, who, hasPolicy, record) ==
  \A c \in RulesFor(rows, who) :
    Selects([field |-> c.field, op |-> c.op,
             value |-> IF c.value[1] = "expr" THEN RowUser(who, hasPolicy)[c.value[2][2]]
                       ELSE c.value], record)

-----------------------------------------------------------------------------
(* What a role is shown of a record.                                         *)

VisibleFields(fields, role) ==
  {f \in DOMAIN fields : ~ fields[f].hashed
                         /\ (fields[f].restricted => role \in fields[f].roles)}

Projected(fields, role, record) ==
  [f \in DOMAIN record \cap VisibleFields(fields, role) |-> record[f]]

\* A list of choices names its fields: a hidden one is refused, not left out.
MaySelect(fields, role, names) ==
  \A f \in names :
    /\ f \in DOMAIN fields /\ ~ fields[f].hashed
    /\ fields[f].roles # {} => role \in fields[f].roles
=============================================================================
