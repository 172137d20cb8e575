--------------------------- MODULE TemplateClones ----------------------------
(* A project is created from a template while the template is edited         *)
(* (projectController.go, template_external_api_credentials.go,              *)
(* pageController.go).                                                       *)
(*                                                                           *)
(* A clone is no transaction: it reads the containers once, binds their      *)
(* credentials, and then reads the pages and the records of one container    *)
(* after another while the template's users go on. The row of the new        *)
(* project, its grants and a rollback are those of ProjectLifecycle; a clone *)
(* that is rolled back leaves nothing here.                                  *)
(* A record is <<schema, n>>, and its reference e is kept in the field for   *)
(* records of schema e[1]. A template is [listed, active, global, items,     *)
(* links, calls, refs, pages]: links the pairs of schemas with a declared    *)
(* field of references, calls the <<schema, credential, host>> of its        *)
(* workflows, refs record :> its references, pages page :> [parent, main,    *)
(* links]: links the pages named by its navigator or by a nested page.       *)
EXTENDS Naturals, FiniteSets, Functions

CONSTANTS
  Templates,      \* what the template may be at the start
  Links,          \* the pairs of schemas that may get a field
  Records, Pages, \* what there may be of records and pages
  LinkSets,       \* the links a page may have
  Connections,    \* external API credentials of the tenant that clones
  Hosts, Allows,  \* hosts, and the pairs of a credential and a host it allows
  AnyHost,        \* a host that only a run of the workflow fills in
  Editors, MaxEdits,  \* users of the template, and how often it is edited
  Nil             \* no page

PageBodies == [parent : Pages \cup {Nil}, main : BOOLEAN, links : LinkSets]

ASSUME TemplateAssumption ==
  /\ MaxEdits \in Nat /\ AnyHost \notin Hosts
  /\ Nil \notin Pages \cup ({"copy", "template"} \X Pages)
  /\ Allows \subseteq Connections \X Hosts /\ LinkSets \subseteq SUBSET Pages
  /\ \A t \in Templates :
       /\ DOMAIN t = {"listed", "active", "global", "items", "links", "calls", "refs", "pages"}
       /\ DOMAIN t.refs \subseteq Records /\ \A d \in DOMAIN t.refs : t.refs[d] \subseteq Records
       /\ DOMAIN t.pages \subseteq Pages
       /\ \A p \in DOMAIN t.pages : t.pages[p] \in PageBodies

VARIABLES
  template,       \* the project that is cloned
  withdrawn,      \* the credentials that were revoked
  editor,         \* the main page for which an editor still has to clear the others
  clone,          \* the request that creates the project
  copy,           \* what it has written
  edits,          \* how often the template was edited
  changes         \* the records, pages and links edited since the containers were read

templateVars == <<template, withdrawn, editor, clone, copy, edits, changes>>

NoCopy == [links |-> {}, calls |-> {}, pages |-> <<>>, refs |-> <<>>, admin |-> FALSE]
Unchanged == [records |-> {}, pages |-> {}, links |-> {}]
NoClone == [pc |-> "find", items |-> FALSE, links |-> {}, calls |-> {}, todo |-> {},
            granted |-> {}, pages |-> <<>>, refs |-> <<>>]

ClonesInit ==
  /\ template \in Templates /\ withdrawn = {} /\ editor = [u \in Editors |-> Nil]
  /\ clone = NoClone /\ copy = NoCopy
  /\ edits = 0 /\ changes = Unchanged

CloneAt(pc) == clone.pc = pc
Goes(new) == clone' = new /\ UNCHANGED <<template, withdrawn, editor, edits>>
Clones(new) == Goes(new) /\ UNCHANGED changes
Stops(pc) == Clones([NoClone EXCEPT !.pc = pc])

\* Both functions; where both say something, the first.
Joined(f, g) == [x \in DOMAIN f \cup DOMAIN g |-> IF x \in DOMAIN f THEN f[x] ELSE g[x]]
With(f, k, v) == Joined([x \in {k} |-> v], f)
Schemas == {d[1] : d \in Records}
AuthSchema == "auth"
Of(s, docs) == {d \in docs : d[1] = s}

-----------------------------------------------------------------------------
(* CreateProject: the template is looked up and its containers are read, the *)
(* bindings of the body must name every credential the containers use and no *)
(* other, and each is looked at before the project is written.               *)

Visible(own) == template.active /\ template.listed /\ (template.global \/ own)

FindTemplate ==
  /\ CloneAt("find")
  /\ \/ \E own \in BOOLEAN, items \in {TRUE, FALSE, template.items} :
          Visible(own) /\ Clones([clone EXCEPT !.pc = "read", !.items = items])
     \/ (\E own \in BOOLEAN : ~Visible(own)) /\ Stops("refused")
  /\ UNCHANGED copy

ReadContainers ==
  /\ CloneAt("read") /\ UNCHANGED copy /\ changes' = Unchanged
  /\ Goes([clone EXCEPT !.pc = "bind", !.links = template.links, !.calls = template.calls])

Required(calls) == {k[2] : k \in calls}
Selected(ids, bindings) == ids \cup Range(bindings)
Allowed(calls, bindings) == \A k \in calls : k[3] # AnyHost => <<bindings[k[2]], k[3]>> \in Allows
BoundCalls(calls, bindings) == {<<k[1], bindings[k[2]], k[3]>> : k \in calls}

BindCredentials ==
  /\ CloneAt("bind") /\ UNCHANGED copy
  /\ \E bindings \in UNION {[asked -> Connections] : asked \in SUBSET Connections}, ids \in SUBSET Connections :
       IF /\ DOMAIN bindings = Required(clone.calls)
          /\ Selected(ids, bindings) \cap withdrawn = {} /\ Allowed(clone.calls, bindings)
         THEN Clones([clone EXCEPT !.pc = "grant", !.todo = Selected(ids, bindings),
                                   !.calls = BoundCalls(clone.calls, bindings)])
         ELSE Stops("refused")

\* GrantExternalAPICredential looks at the credential again.
GrantSelected ==
  /\ CloneAt("grant") /\ UNCHANGED copy
  /\ \/ clone.todo = {} /\ Clones([clone EXCEPT !.pc = "containers"])
     \/ \E c \in clone.todo :
          IF c \in withdrawn THEN Stops("failed")
          ELSE Clones([clone EXCEPT !.granted = clone.granted \cup {c}, !.todo = clone.todo \ {c}])

-----------------------------------------------------------------------------
(* cloneProjectFromTemplate. A reference in a copy is <<where, e>>.          *)

CloneContainers ==
  /\ CloneAt("containers") /\ Clones([clone EXCEPT !.pc = "pages"])
  /\ copy' = [copy EXCEPT !.links = clone.links, !.calls = clone.calls]

ReadPages ==
  /\ CloneAt("pages") /\ UNCHANGED copy
  /\ Clones([clone EXCEPT !.pc = "insertPages", !.pages = template.pages])

Parent(p) ==
  LET parent == clone.pages[p].parent IN
  IF parent = Nil THEN Nil ELSE <<IF parent \in DOMAIN clone.pages THEN "copy" ELSE "template", parent>>

\* Only the parent gets a new id: the pages in the links keep the old one.
InsertPages ==
  /\ CloneAt("insertPages")
  /\ copy' = [copy EXCEPT !.pages = [p \in DOMAIN clone.pages |->
                [parent |-> Parent(p), main |-> clone.pages[p].main, links |-> {"template"} \X clone.pages[p].links]]]
  /\ Clones([clone EXCEPT !.pages = <<>>, !.pc = IF clone.items THEN "items" ELSE "roles",
                          !.todo = IF clone.items THEN Schemas \ {AuthSchema} ELSE {}])

\* Every container is read before any is written: then all new ids are known.
ReadItems ==
  /\ CloneAt("items") /\ UNCHANGED copy
  /\ \/ clone.todo = {} /\ Clones([clone EXCEPT !.pc = "insertItems", !.todo = {d[1] : d \in DOMAIN clone.refs}])
     \/ \E s \in clone.todo :
          Clones([clone EXCEPT !.todo = clone.todo \ {s},
                    !.refs = Joined(clone.refs, [d \in Of(s, DOMAIN template.refs) |-> template.refs[d]])])

\* remapCopiedObjectIDReferences, by the fields that were declared when the
\* containers were read; what has no new id keeps the old one.
Remapped(d, known) ==
  {<<IF <<d[1], e[1]>> \in clone.links /\ e \in known THEN "copy" ELSE "template", e>> : e \in clone.refs[d]}

Inserts(s, known) ==
  /\ Clones([clone EXCEPT !.todo = clone.todo \ {s}])
  /\ copy' = [copy EXCEPT !.refs = Joined(copy.refs, [d \in Of(s, DOMAIN clone.refs) |-> Remapped(d, known)])]

InsertDone == clone.todo = {} /\ Clones([clone EXCEPT !.pc = "roles"]) /\ UNCHANGED copy

\* Fault: ids are drawn as each container is written.
FaultKnownSoFar ==
  CloneAt("insertItems") /\ (InsertDone \/ \E s \in clone.todo : Inserts(s, DOMAIN copy.refs \cup Of(s, DOMAIN clone.refs)))

InsertItems ==
  CloneAt("insertItems") /\ (InsertDone \/ \E s \in clone.todo : Inserts(s, DOMAIN clone.refs))

EnsureRole ==
  /\ CloneAt("roles") /\ Clones([clone EXCEPT !.pc = "done"])
  /\ copy' = [copy EXCEPT !.admin = Of("role", DOMAIN copy.refs) = {}]

\* A call fails, after the row was written, or the ten seconds are over.
CloneFails ==
  /\ clone.pc \notin {"find", "read", "bind", "refused", "failed", "done"}
  /\ Stops("failed") /\ copy' = NoCopy

-----------------------------------------------------------------------------
(* Meanwhile, in the template.                                               *)

Edits(what, which) ==
  /\ edits < MaxEdits /\ clone.pc \notin {"refused", "failed", "done"}
  /\ edits' = edits + 1 /\ changes' = [changes EXCEPT ![what] = changes[what] \cup which]
  /\ UNCHANGED <<clone, copy>>

Without(f, x) == [y \in DOMAIN f \ {x} |-> f[y]]

SaveRecord(d) ==
  /\ \E es \in SUBSET {e \in DOMAIN template.refs : <<d[1], e[1]>> \in template.links} :
       template' = [template EXCEPT !.refs = With(template.refs, d, es)]
  /\ Edits("records", {d}) /\ UNCHANGED <<withdrawn, editor>>

\* The delete of a record that others refer to is refused.
DeleteRecord(d) ==
  /\ d \in DOMAIN template.refs /\ \A e \in DOMAIN template.refs : d \notin template.refs[e]
  /\ template' = [template EXCEPT !.refs = Without(template.refs, d)]
  /\ Edits("records", {d}) /\ UNCHANGED <<withdrawn, editor>>

SaveContainer ==
  /\ \/ \E l \in Links : template' = [template EXCEPT !.links = (@ \ {l}) \cup ({l} \ @)] /\ Edits("links", {l})
     \/ \E s \in Schemas, c \in Connections, h \in Hosts \cup {AnyHost} :
          /\ \A k \in template.calls : k[1] # s \/ k[2] # c
          /\ template' = [template EXCEPT !.calls = @ \cup {<<s, c, h>>}] /\ Edits("links", {})
  /\ UNCHANGED <<withdrawn, editor>>

\* A main page then clears the mark of the others. Nothing looks whether the
\* pages that are named exist.
SavePage(u, p, page, main) ==
  /\ editor[u] = Nil
  /\ template' = [template EXCEPT !.pages = With(template.pages, p, page)]
  /\ editor' = [editor EXCEPT ![u] = IF main THEN p ELSE Nil]
  /\ Edits("pages", {p}) /\ UNCHANGED withdrawn

CreatePage(u, p) ==
  /\ p \notin DOMAIN template.pages
  /\ \E body \in PageBodies : SavePage(u, p, body, body.main)

\* What the body leaves out is not in the $set: a parent or a mark stays.
UpdatePage(u, p) ==
  /\ p \in DOMAIN template.pages
  /\ \E body \in PageBodies :
       LET old == template.pages[p] IN
       SavePage(u, p, [body EXCEPT !.parent = IF @ = Nil THEN old.parent ELSE @, !.main = @ \/ old.main], body.main)

ClearOtherMainPages(u) ==
  LET others == {p \in DOMAIN template.pages \ {editor[u]} : template.pages[p].main} IN
  /\ editor[u] # Nil
  /\ template' = [template EXCEPT !.pages = [p \in DOMAIN template.pages |->
       [template.pages[p] EXCEPT !.main = @ /\ p \notin others]]]
  /\ editor' = [editor EXCEPT ![u] = Nil]
  /\ changes' = [changes EXCEPT !.pages = @ \cup others]
  /\ UNCHANGED <<withdrawn, clone, copy, edits>>

\* The pages below it keep its id.
DeletePage(p) ==
  /\ p \in DOMAIN template.pages
  /\ template' = [template EXCEPT !.pages = Without(template.pages, p)]
  /\ Edits("pages", {p}) /\ UNCHANGED <<withdrawn, editor>>

\* UpdateProjectTemplate makes the scope that of the tenant, whatever it was.
UpdateProjectTemplate ==
  /\ \E listed, items \in BOOLEAN :
       template' = [template EXCEPT !.listed = listed, !.items = items, !.global = FALSE]
  /\ Edits("links", {}) /\ UNCHANGED <<withdrawn, editor>>

CloseTemplate ==
  /\ template' = [template EXCEPT !.active = ~@]
  /\ Edits("links", {}) /\ UNCHANGED <<withdrawn, editor>>

Withdraw ==
  /\ \E c \in Connections \ withdrawn : withdrawn' = withdrawn \cup {c}
  /\ Edits("links", {}) /\ UNCHANGED <<template, editor>>

ClonesNext ==
  \/ FindTemplate \/ ReadContainers \/ BindCredentials \/ GrantSelected
  \/ CloneContainers \/ ReadPages \/ InsertPages \/ ReadItems \/ InsertItems \/ EnsureRole \/ CloneFails
  \/ SaveContainer \/ UpdateProjectTemplate \/ CloseTemplate \/ Withdraw
  \/ \E d \in Records : SaveRecord(d) \/ DeleteRecord(d)
  \/ \E p \in Pages : DeletePage(p) \/ \E u \in Editors : CreatePage(u, p) \/ UpdatePage(u, p)
  \/ \E u \in Editors : ClearOtherMainPages(u)

ClonesSpec == ClonesInit /\ [][ClonesNext]_templateVars

-----------------------------------------------------------------------------
CopyTypeOK ==
  /\ DOMAIN template.refs \cup DOMAIN clone.refs \subseteq Records
  /\ DOMAIN template.pages \cup DOMAIN clone.pages \subseteq Pages
  /\ clone.todo \subseteq Connections \cup Schemas /\ clone.granted \subseteq Connections
  /\ \A d \in DOMAIN copy.refs : copy.refs[d] \subseteq {"copy", "template"} \X Records

(* The workflows of the copy use only credentials that were granted to it    *)
(* and allow the hosts they call, also when a workflow was saved with        *)
(* another credential after the containers were read.                        *)
CallsAreGranted ==
  \A k \in copy.calls : k[2] \in clone.granted /\ (k[3] = AnyHost \/ <<k[2], k[3]>> \in Allows)

(* Whatever was left alone while the clone ran is in the copy, and refers    *)
(* to the copy of whatever was left alone: but for accounts, which are not   *)
(* copied.                                                                   *)
RecordsAreCopied ==
  \A d \in DOMAIN template.refs \ changes.records :
    clone.items /\ d[1] # AuthSchema =>
      /\ d \in DOMAIN copy.refs
      /\ \A e \in template.refs[d] \ changes.records :
           e[1] # AuthSchema /\ <<d[1], e[1]>> \in template.links \ changes.links /\ e \in DOMAIN template.refs
             => <<"copy", e>> \in copy.refs[d]

PagesAreCopied ==
  \A p \in DOMAIN template.pages \ changes.pages :
    /\ p \in DOMAIN copy.pages /\ copy.pages[p].main = template.pages[p].main
    /\ copy.pages[p].links = {"template"} \X template.pages[p].links
    /\ LET parent == template.pages[p].parent IN
       parent \in DOMAIN template.pages \ changes.pages => copy.pages[p].parent = <<"copy", parent>>

(* What the copy refers to as its own it has; and what it still refers to in *)
(* the template is an account, a record or a page that was edited while the  *)
(* clone ran or is not there, or goes by a field that was edited or is not   *)
(* declared. The links of a page are the exception: they all stay with the   *)
(* pages of the template.                                                    *)
Gone(docs, edited, x) == x \notin DOMAIN docs \/ x \in edited

NothingDangles ==
  /\ \A d \in DOMAIN copy.refs : \A e \in Records :
       /\ <<"copy", e>> \in copy.refs[d] => e \in DOMAIN copy.refs
       /\ <<"template", e>> \in copy.refs[d] =>
            \/ e[1] = AuthSchema \/ Gone(template.refs, changes.records, e)
            \/ <<d[1], e[1]>> \notin template.links \ changes.links
  /\ \A p \in DOMAIN copy.pages : \A q \in Pages :
       /\ copy.pages[p].parent = <<"copy", q>> => q \in DOMAIN copy.pages
       /\ copy.pages[p].parent = <<"template", q>> => Gone(template.pages, changes.pages, q)

(* A copy that is reported stands alone, but for the links of its pages.     *)
CopyStandsAlone ==
  CloneAt("done") =>
    CallsAreGranted /\ RecordsAreCopied /\ PagesAreCopied /\ NothingDangles
      /\ (copy.admin \/ Of("role", DOMAIN copy.refs) # {})
=============================================================================
