------------------------------ MODULE MCAccounts ------------------------------
(* The projects with what is shared between them, the sessions of their      *)
(* users and the copying of a template, checked side by side. part says      *)
(* which of them a behaviour is about, the others rest in an initial state.  *)
(* Project p1 is there at the start, p2 may be created; two logins, two      *)
(* tabs, two exchanges; a template of a task and a role that refer to each   *)
(* other, an account, a page below another, links of both to the lower one,  *)
(* and one call with k1.                                                     *)
(* Requests and Tabs are one set of values, so that one permutation swaps    *)
(* both.                                                                     *)
EXTENDS ProjectSlugs, AuthSessions, TemplateClones, TLC

VARIABLE part

Things == {<<"auth", 1>>, <<"role", 1>>, <<"task", 1>>}
Fields == {<<"task", "auth">>, <<"task", "role">>, <<"role", "task">>}
Sample ==
  {[listed |-> TRUE, active |-> TRUE, global |-> TRUE, items |-> TRUE,
    links |-> Fields, calls |-> {<<"task", "k1", "h1">>},
    refs |-> <<"auth", 1>> :> {} @@ <<"role", 1>> :> {<<"task", 1>>} @@ <<"task", 1>> :> {<<"auth", 1>>, <<"role", 1>>},
    pages |-> "home" :> [parent |-> Nil, main |-> TRUE, links |-> {"list"}]
                @@ "list" :> [parent |-> "home", main |-> FALSE, links |-> {"list"}]]}
SomeLinks == {{"list"}}
OnlyK1 == {<<"k1", "h1">>}

AccountsInit ==
  /\ SlugsInit /\ SessionInit /\ ClonesInit
  /\ part \in {"projects", "sessions", "clones"}
  /\ part # "sessions" => kind = "project"
  /\ \A p \in Existing : row[p].slug = CHOOSE s \in Slugs : TRUE
  /\ part # "projects" => \A c \in Credentials : owner[c] = CHOOSE p \in Existing : TRUE

AccountsNext ==
  /\ UNCHANGED part
  /\ \/ part = "projects" /\ SlugsNext /\ UNCHANGED <<sessionVars, templateVars>>
     \/ part = "sessions" /\ SessionNext /\ UNCHANGED <<allVars, templateVars>>
     \/ part = "clones" /\ ClonesNext /\ UNCHANGED <<allVars, sessionVars>>

AccountsSpec == AccountsInit /\ [][AccountsNext]_<<allVars, sessionVars, templateVars, part>>

AccountsSym == Permutations(Requests)
=============================================================================
