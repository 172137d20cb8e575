------------------------------- MODULE Signups --------------------------------
(* How accounts come into being and are entered: an organisation registers   *)
(* with its owner, who logs in (tenantAuthController.go); a user of a        *)
(* project registers, is created by a manager, logs in, or signs in with     *)
(* Google (authController.go, project_auth_policy.go).                       *)
(*                                                                           *)
(* Nothing is a transaction. A call writes one document after another, and   *)
(* takes back what it wrote when a later one fails, as far as it can. A      *)
(* write that fails may have happened. Calls are numbered as they begin, and *)
(* a document is known by the call that wrote it.                            *)
EXTENDS Naturals, FiniteSets, Sequences

CONSTANTS
  Visits,         \* what may be asked first, second ...: sets of
                  \* [do, email, secret, slug, state]
  MaxVisitors,    \* how many calls at a time
  NoSecret        \* an account made by a sign-in with Google has none

\* A registration or a login that brings no secret is a bad request.
Wishes ==
  {wish \in [do : {"organise", "enter", "register", "manage", "login", "google", "return"},
             email : STRING, secret : STRING, slug : STRING, state : Nat] :
     wish.do \in {"google", "return"} \/ wish.secret # NoSecret}

ASSUME VisitsAssumption == Visits \in Seq(SUBSET Wishes)

VARIABLES
  owners,         \* users: id :> [email, secret]
  tenants,        \* id :> slug
  owning,         \* the memberships: ids
  accounts,       \* in the collection of the project's account container
  consents,       \* in Redis: the sign-ins with Google that were begun
  kept,           \* the sessions that are stored: the calls that began them
  visits          \* what has been asked so far, and how far it is

signupVars == <<owners, tenants, owning, accounts, consents, kept, visits>>

SignupsInit ==
  /\ owners = <<>> /\ tenants = <<>> /\ owning = {} /\ accounts = <<>>
  /\ consents = {} /\ kept = {} /\ visits = <<>>

Departed == {"done", "refused", "failed", "stopped"}
Active == {n \in DOMAIN visits : visits[n].pc \notin Departed}

Stands(n, pc) == n \in DOMAIN visits /\ visits[n].pc = pc
Wish(n) == visits[n].wish
Turns(n, pc) == visits' = [visits EXCEPT ![n].pc = pc]

(* blind: a lookup that failed counted as one that found nothing; hurt: a    *)
(* write that failed has happened, or what was written could not be taken    *)
(* back; own: the account that was entered.                                  *)
Begins(wish) ==
  /\ Cardinality(Active) < MaxVisitors
  /\ visits' = Append(visits, [pc |-> wish.do, wish |-> wish, with |-> Active,
                               own |-> 0, blind |-> FALSE, hurt |-> FALSE])
  /\ UNCHANGED <<owners, tenants, owning, accounts, consents, kept>>

Holding(docs, email) == {i \in DOMAIN docs : docs[i].email = email}
Document(n) == [email |-> Wish(n).email, secret |-> Wish(n).secret]
Beside(docs, n, doc) == [i \in DOMAIN docs \cup {n} |-> IF i = n THEN doc ELSE docs[i]]
Without(docs, n) == [i \in DOMAIN docs \ {n} |-> docs[i]]

\* A lookup found something, or a failed one is taken for one that did not.
Taken(n, found, otherwise) ==
  \/ Turns(n, IF found THEN "refused" ELSE otherwise)
  \/ found /\ visits' = [visits EXCEPT ![n].pc = otherwise, ![n].blind = TRUE]

-----------------------------------------------------------------------------
(* TenantRegister.                                                           *)

(* Fault: the address is not looked for. *)
FaultAnyAddress(n) ==
  /\ Stands(n, "organise") /\ Turns(n, "slug")
  /\ UNCHANGED <<owners, tenants, owning, accounts, consents, kept>>
CheckEmail(n) ==
  /\ Stands(n, "organise") /\ Taken(n, Holding(owners, Wish(n).email) # {}, "slug")
  /\ UNCHANGED <<owners, tenants, owning, accounts, consents, kept>>

CheckSlug(n) ==
  /\ Stands(n, "slug") /\ Taken(n, \E t \in DOMAIN tenants : tenants[t] = Wish(n).slug, "owner")
  /\ UNCHANGED <<owners, tenants, owning, accounts, consents, kept>>

\* A write: it succeeds, or fails without or with its effect.
Attempts(n, next, otherwise, happens, not) ==
  \/ happens /\ Turns(n, next)
  \/ not /\ Turns(n, otherwise)
  \/ happens /\ visits' = [visits EXCEPT ![n].pc = otherwise, ![n].hurt = TRUE]

InsertOwner(n) ==
  /\ Stands(n, "owner")
  /\ Attempts(n, "tenant", "failed", owners' = Beside(owners, n, Document(n)), UNCHANGED owners)
  /\ UNCHANGED <<tenants, owning, accounts, consents, kept>>

InsertTenant(n) ==
  /\ Stands(n, "tenant")
  /\ Attempts(n, "membership", "undoOwner",
              tenants' = Beside(tenants, n, Wish(n).slug), UNCHANGED tenants)
  /\ UNCHANGED <<owners, owning, accounts, consents, kept>>

InsertMembership(n) ==
  /\ Stands(n, "membership")
  /\ Attempts(n, "panelSession", "undoTenant", owning' = owning \cup {n}, UNCHANGED owning)
  /\ UNCHANGED <<owners, tenants, accounts, consents, kept>>

\* The errors of a rollback are not looked at.
UndoTenant(n) ==
  /\ Stands(n, "undoTenant")
  /\ \/ tenants' = Without(tenants, n) /\ Turns(n, "undoOwner")
     \/ UNCHANGED tenants /\ visits' = [visits EXCEPT ![n].pc = "undoOwner", ![n].hurt = TRUE]
  /\ UNCHANGED <<owners, owning, accounts, consents, kept>>

UndoOwner(n) ==
  /\ Stands(n, "undoOwner")
  /\ \/ owners' = Without(owners, n) /\ Turns(n, "failed")
     \/ UNCHANGED owners /\ visits' = [visits EXCEPT ![n].pc = "failed", ![n].hurt = TRUE]
  /\ UNCHANGED <<tenants, owning, accounts, consents, kept>>

-----------------------------------------------------------------------------
(* Logins, of owners and of users: the first document with the address, and  *)
(* its secret. A lookup that fails is answered as if it found nothing.       *)

Find(n, docs, next) ==
  /\ \/ \E i \in Holding(docs, Wish(n).email) :
          visits' = IF docs[i].secret # NoSecret /\ docs[i].secret = Wish(n).secret
                    THEN [visits EXCEPT ![n].pc = next, ![n].own = i]
                    ELSE [visits EXCEPT ![n].pc = "refused"]
     \/ Holding(docs, Wish(n).email) = {} /\ Turns(n, "refused")
     \/ visits' = [visits EXCEPT ![n].pc = "refused", ![n].blind = TRUE]
  /\ UNCHANGED <<owners, tenants, owning, accounts, consents, kept>>

TenantLogin(n) == Stands(n, "enter") /\ Find(n, owners, "memberships")
Login(n) == Stands(n, "login") /\ Find(n, accounts, "session")

\* The first of his active memberships, and its organisation.
SelectMembership(n) ==
  /\ Stands(n, "memberships")
  /\ \/ Turns(n, IF visits[n].own \notin owning THEN "refused"
                 ELSE IF visits[n].own \notin DOMAIN tenants THEN "failed" ELSE "panelSession")
     \/ Turns(n, "failed")
  /\ UNCHANGED <<owners, tenants, owning, accounts, consents, kept>>

-----------------------------------------------------------------------------
(* Users of a project. The address is a field the container declares unique, *)
(* as the one every project starts with does: an index refuses a second.     *)

\* The project may not let anybody register; the user gives the fields that
\* are open to him and gets the role "user", which may not be there.
AssignRole(n) ==
  /\ Stands(n, "register") /\ (Turns(n, "unique") \/ Turns(n, "refused"))
  /\ UNCHANGED <<owners, tenants, owning, accounts, consents, kept>>

CountAddress(n) ==
  /\ Stands(n, "unique") \/ Stands(n, "manage")
  /\ Turns(n, IF Holding(accounts, Wish(n).email) # {} THEN "refused" ELSE "insert")
  /\ UNCHANGED <<owners, tenants, owning, accounts, consents, kept>>

InsertAccount(n) ==
  /\ Stands(n, "insert")
  /\ IF Holding(accounts, Wish(n).email) # {} THEN Turns(n, "failed") /\ UNCHANGED accounts
     ELSE Attempts(n, IF Wish(n).do = "register" THEN "session" ELSE "done", "failed",
                 accounts' = Beside(accounts, n, Document(n)), UNCHANGED accounts)
  /\ UNCHANGED <<owners, tenants, owning, consents, kept>>

\* An answer that sets cookies comes after the session is stored.
Keep(n) ==
  /\ Attempts(n, "done", "failed", kept' = kept \cup {n}, UNCHANGED kept)
  /\ UNCHANGED <<owners, tenants, owning, accounts, consents>>
StartTenantSession(n) == Stands(n, "panelSession") /\ Keep(n)
StartProjectSession(n) == Stands(n, "session") /\ Keep(n)

-----------------------------------------------------------------------------
(* Sign-in with Google: the browser is sent there with a state that Redis    *)
(* remembers for five minutes, and comes back with it.                       *)

\* The container may not let anybody sign in this way; it is asked twice.
Inactive(n) == Turns(n, "refused")

GoogleLogin(n) ==
  /\ Stands(n, "google")
  /\ \/ Attempts(n, "done", "failed", consents' = consents \cup {n}, UNCHANGED consents)
     \/ Inactive(n) /\ UNCHANGED consents
  /\ UNCHANGED <<owners, tenants, owning, accounts, kept>>

ConsentLapses(s) ==
  /\ s \in consents /\ consents' = consents \ {s}
  /\ UNCHANGED <<owners, tenants, owning, accounts, kept, visits>>

ConsumeState(n) ==
  /\ Stands(n, "return")
  /\ \/ Turns(n, IF Wish(n).state \in consents THEN "known" ELSE "refused")
     \/ Inactive(n)
  /\ consents' = consents \ {Wish(n).state}
  /\ UNCHANGED <<owners, tenants, owning, accounts, kept>>

\* Google tells whose address it is, or an error ends the sign-in; then the
\* first account with the address, and a failed lookup found none.
FindGoogleUser(n) ==
  /\ Stands(n, "known")
  /\ \/ \E i \in Holding(accounts, Wish(n).email) : visits' = [visits EXCEPT ![n].pc = "done", ![n].own = i]
     \/ Holding(accounts, Wish(n).email) = {} /\ Turns(n, "create")
     \/ visits' = [visits EXCEPT ![n].pc = "create", ![n].blind = TRUE]
     \/ Turns(n, "failed")
  /\ UNCHANGED <<owners, tenants, owning, accounts, consents, kept>>

\* The answer sets cookies, and no session is stored.
CreateGoogleUser(n) ==
  /\ Stands(n, "create")
  /\ IF Holding(accounts, Wish(n).email) # {} THEN Turns(n, "failed") /\ UNCHANGED accounts
     ELSE \/ /\ accounts' = Beside(accounts, n, Document(n))
             /\ visits' = [visits EXCEPT ![n].pc = "done", ![n].own = n]
          \/ Turns(n, "failed") /\ UNCHANGED accounts
          \/ /\ accounts' = Beside(accounts, n, Document(n))
             /\ visits' = [visits EXCEPT ![n].pc = "failed", ![n].hurt = TRUE]
  /\ UNCHANGED <<owners, tenants, owning, consents, kept>>

\* The process stops in the middle of a call.
Crashes(n) ==
  /\ n \in Active
  /\ visits' = [visits EXCEPT ![n].pc = "stopped", ![n].hurt = TRUE]
  /\ UNCHANGED <<owners, tenants, owning, accounts, consents, kept>>

SignupsNext ==
  \/ Len(visits) < Len(Visits) /\ \E wish \in Visits[Len(visits) + 1] : Begins(wish)
  \/ \E n \in DOMAIN visits :
       \/ CheckEmail(n) \/ CheckSlug(n) \/ InsertOwner(n) \/ InsertTenant(n) \/ InsertMembership(n)
       \/ UndoTenant(n) \/ UndoOwner(n) \/ TenantLogin(n) \/ Login(n) \/ SelectMembership(n)
       \/ AssignRole(n) \/ CountAddress(n) \/ InsertAccount(n) \/ StartTenantSession(n) \/ StartProjectSession(n)
       \/ GoogleLogin(n) \/ ConsumeState(n) \/ FindGoogleUser(n) \/ CreateGoogleUser(n) \/ Crashes(n)
  \/ \E s \in consents : ConsentLapses(s)

SignupsSpec == SignupsInit /\ [][SignupsNext]_signupVars

-----------------------------------------------------------------------------
(* Properties.                                                               *)

Meets(m, n) == m \in visits[n].with \/ n \in visits[m].with

\* Two documents were made for one address, or one name of an organisation,
\* only by calls that met, or behind a lookup that failed; users of a project
\* never are.
OneAccountEach ==
  /\ \A i, j \in DOMAIN owners :
       i # j /\ owners[i].email = owners[j].email => Meets(i, j) \/ visits[i].blind \/ visits[j].blind
  /\ \A i, j \in DOMAIN tenants :
       i # j /\ tenants[i] = tenants[j] => Meets(i, j) \/ visits[i].blind \/ visits[j].blind
  /\ \A i, j \in DOMAIN accounts : accounts[i].email = accounts[j].email => i = j

\* A registration that has ended left all of its documents or none, unless the
\* process stopped, its rollback failed or a failed write had happened.
Wholly ==
  \A n \in DOMAIN visits :
    Wish(n).do = "organise" /\ visits[n].pc \in Departed /\ ~ visits[n].hurt =>
      /\ (n \in DOMAIN owners) = (n \in owning) /\ (n \in DOMAIN tenants) = (n \in owning)
      /\ visits[n].pc = "done" => n \in owning

\* Whoever was told that he is registered is not refused when he comes later,
\* unless another registered his address beside him or a lookup failed.
Registered(m, n) ==
  /\ visits[m].pc = "done" /\ m < n /\ m \notin visits[n].with
  /\ Wish(m).do \in IF Wish(n).do = "enter" THEN {"organise"} ELSE {"register", "manage"}
  /\ Wish(m).email = Wish(n).email /\ Wish(m).secret = Wish(n).secret
GetsIn ==
  \A n \in DOMAIN visits : \A m \in DOMAIN visits :
    Wish(n).do \in {"enter", "login"} /\ Registered(m, n) /\ Stands(n, "refused") =>
      \/ visits[n].blind
      \/ \E i \in DOMAIN visits \ {m} :
           Wish(i).do = "organise" /\ Wish(i).email = Wish(n).email /\ visits[i].pc # "refused"

\* One consent lets one browser in, and every other way in leaves a session
\* the cookies belong to.
EnteredOnce ==
  /\ \A m, n \in DOMAIN visits :
       ( /\ Wish(m).do = "return" /\ visits[m].own # 0
         /\ Wish(n).do = "return" /\ visits[n].own # 0 /\ Wish(m).state = Wish(n).state ) => m = n
  /\ \A n \in DOMAIN visits :
       Stands(n, "done") /\ Wish(n).do \in {"organise", "enter", "register", "login"} => n \in kept

\* What a registration or a login was answered stays true for those who come
\* after it, whatever fails or stops on the way: an address belongs to one
\* account, a registration is whole, its owner gets in, once for each consent.
AccountsKeepTheirWord == OneAccountEach /\ Wholly /\ GetsIn /\ EnteredOnce
=============================================================================
