---------------------------- MODULE AuthSessions ----------------------------
(***************************************************************************)
(* The refresh sessions of one user in one browser: several tabs share the *)
(* refresh cookie, exchange it for a new one, log in and log out, while    *)
(* the project is closed and opened again (controllers/authCookieHelpers,  *)
(* sessionController, tenantAuthController and authController,             *)
(* services/auth_session_service, repositories/auth_session_repository).   *)
(*                                                                         *)
(* A login starts a family of tokens, of which the stored session knows    *)
(* the current one and, for five seconds, the one before.  Set-Cookie      *)
(* headers reach the browser in any order, or not at all.                  *)
(***************************************************************************)
EXTENDS Naturals, FiniteSets

CONSTANTS
  Families,     \* the logins of a behaviour
  Tabs,         \* requests the browser has under way at the same time
  MaxExchanges, \* bound on the exchanges of a behaviour
  NoToken       \* no cookie, no family

ASSUME TokensAssumption ==
  /\ MaxExchanges \in Nat /\ Families \subseteq Nat
  /\ NoToken \notin Families /\ NoToken \notin [family : Families, n : Nat]

VARIABLES
  kind,    \* whose sessions: "project" users or "management" of a project
  session, \* the stored sessions
  minted,  \* how many tokens of a family were handed over to be stored
  spent,   \* history: the tokens that were exchanged for another
  jar,     \* the refresh cookie of the browser
  tab,     \* the requests of the tabs
  open,    \* the project is active
  closing, \* how far the closing of the project has come
  late,    \* history: logins in flight when the sessions were revoked
  lost     \* history: an answer did not reach the browser

projectVars == <<open, closing, late>>
sessionVars == <<kind, session, minted, spent, jar, tab, projectVars, lost>>

Tokens == [family : Families, n : 1..MaxExchanges + 1]
Quiet == [pc |-> "idle", family |-> NoToken, token |-> NoToken, inTime |-> FALSE,
          answer |-> NoToken, conflict |-> FALSE]
NoSession == [current |-> 0, previous |-> 0, grace |-> FALSE, revoked |-> FALSE, live |-> FALSE]

LiveSession(f) == session[f].live /\ ~session[f].revoked

SessionInit ==
  /\ kind \in {"project", "management"}
  /\ session = [f \in Families |-> NoSession]
  /\ minted = [f \in Families |-> 0]
  /\ spent = {}
  /\ jar = NoToken
  /\ tab = [t \in Tabs |-> Quiet]
  /\ open = TRUE /\ closing = "no" /\ late = {}
  /\ lost = FALSE

TabAt(t, pc) == tab[t].pc = pc
TabGoes(t, pc) == tab' = [tab EXCEPT ![t].pc = pc]

(* A login takes the first family that is not used. *)
Unborn == {f \in Families : minted[f] = 0 /\ \A u \in Tabs : tab[u].family # f}
NewFamilies == {f \in Unborn : \A g \in Unborn : f <= g}

(* An answer that sets the cookie, or clears it (NoToken). *)
Answers(t, cookie) ==
  tab' = [tab EXCEPT ![t] = [Quiet EXCEPT !.pc = "answer", !.answer = cookie]]
Clears(t) == Answers(t, NoToken)

-----------------------------------------------------------------------------
(* Login, or the switch of a management user to the project: the project   *)
(* is active when they look; the tokens are made.                          *)

Takes(t, f) == tab' = [tab EXCEPT ![t] = [Quiet EXCEPT !.pc = "start", !.family = f]]

(* Fault: the login does not ask whether the project is active. *)
FaultLoginAnywhere(t) ==
  /\ kind = "project" /\ TabAt(t, "idle")
  /\ \E f \in NewFamilies : Takes(t, f)
  /\ UNCHANGED <<kind, session, minted, spent, jar, projectVars, lost>>
BeginLogin(t) ==
  /\ kind = "project" /\ TabAt(t, "idle") /\ open
  /\ \E f \in NewFamilies : Takes(t, f)
  /\ UNCHANGED <<kind, session, minted, spent, jar, projectVars, lost>>

SwitchToProject(t) ==
  /\ kind = "management" /\ TabAt(t, "idle") /\ open
  /\ \E f \in NewFamilies : Takes(t, f)
  /\ UNCHANGED <<kind, session, minted, spent, jar, projectVars, lost>>

(* The session is stored; an error says so and sets no cookie, also when   *)
(* the session was stored.                                                 *)
StartSession(t) ==
  LET f == tab[t].family IN
  /\ TabAt(t, "start")
  /\ \/ /\ session' = [session EXCEPT ![f] = [NoSession EXCEPT !.current = 1, !.live = TRUE]]
        /\ minted' = [minted EXCEPT ![f] = 1]
        /\ Answers(t, [family |-> f, n |-> 1]) \/ tab' = [tab EXCEPT ![t] = Quiet]
     \/ tab' = [tab EXCEPT ![t] = Quiet] /\ UNCHANGED <<session, minted>>
  /\ UNCHANGED <<kind, spent, jar, projectVars, lost>>

-----------------------------------------------------------------------------
(* Refresh: every error clears the cookies. *)

BeginRefresh(t) ==
  /\ TabAt(t, "idle")
  /\ IF jar = NoToken THEN Clears(t)
     ELSE tab' = [tab EXCEPT ![t] = [Quiet EXCEPT !.pc = IF kind = "project" THEN "rotate" ELSE "membership",
                                                  !.family = jar.family, !.token = jar]]
  /\ UNCHANGED <<kind, session, minted, spent, jar, projectVars, lost>>

CheckMembership(t) ==
  /\ TabAt(t, "membership")
  /\ IF open THEN TabGoes(t, "rotate") ELSE Clears(t)
  /\ UNCHANGED <<kind, session, minted, spent, jar, projectVars, lost>>

(* Fault: the selector of the update leaves out the current token. *)
FaultAnyToken(f, n) == LiveSession(f)
(* The selector of the update that exchanges token n. *)
Rotates(f, n) == LiveSession(f) /\ session[f].current = n

Exchanged(f, n) == [session[f] EXCEPT !.current = minted[f] + 1, !.previous = n, !.grace = TRUE]

Rotate(t) ==
  LET f == tab[t].family
      n == tab[t].token.n IN
  /\ TabAt(t, "rotate")
  /\ IF Rotates(f, n)
       THEN /\ minted[f] <= MaxExchanges /\ Cardinality(spent) < MaxExchanges
            /\ session' = [session EXCEPT ![f] = Exchanged(f, n)]
            /\ minted' = [minted EXCEPT ![f] = @ + 1]
            /\ spent' = spent \cup {tab[t].token}
            /\ \/ Answers(t, [family |-> f, n |-> minted[f] + 1])
               \/ Clears(t)
       ELSE /\ tab' = [tab EXCEPT ![t].pc = "classify", ![t].inTime = session[f].live /\ session[f].grace]
            /\ UNCHANGED <<session, minted, spent>>
  /\ UNCHANGED <<kind, jar, projectVars, lost>>

(* What was not exchanged is read again, and told apart by the time that   *)
(* was taken for the exchange.                                             *)
ClassifyRotation(t) ==
  LET s == session[tab[t].family] IN
  /\ TabAt(t, "classify")
  /\ IF ~s.revoked /\ tab[t].inTime /\ s.previous = tab[t].token.n
       THEN tab' = [tab EXCEPT ![t] = [Quiet EXCEPT !.pc = "answer", !.conflict = TRUE]]
       ELSE TabGoes(t, "revoke")
  /\ UNCHANGED <<kind, session, minted, spent, jar, projectVars, lost>>

(* The token before and its time of grace are not looked at any more when  *)
(* the session is revoked.                                                 *)
Ended(f) == [NoSession EXCEPT !.current = session[f].current, !.revoked = TRUE]
Revoked(f) == [session EXCEPT ![f] = Ended(f)]

RevokeReused(t) ==
  /\ TabAt(t, "revoke")
  /\ session' = Revoked(tab[t].family)
  /\ Clears(t)
  /\ UNCHANGED <<kind, minted, spent, jar, projectVars, lost>>

(* A database call fails; one that exchanged the token may, too (Rotate). *)
RefreshFails(t) ==
  /\ tab[t].pc \in {"membership", "rotate", "classify", "revoke"}
  /\ Clears(t)
  /\ UNCHANGED <<kind, session, minted, spent, jar, projectVars, lost>>

-----------------------------------------------------------------------------
(* Logout: a project user's clears the cookies and leaves the session; an  *)
(* error of the revocation is ignored.                                     *)
BeginLogout(t) ==
  /\ TabAt(t, "idle")
  /\ tab' = [tab EXCEPT ![t] = [Quiet EXCEPT !.pc = "logout",
                                             !.family = IF kind = "project" \/ jar = NoToken
                                                           THEN NoToken ELSE jar.family]]
  /\ UNCHANGED <<kind, session, minted, spent, jar, projectVars, lost>>
Logout(t) ==
  /\ TabAt(t, "logout")
  /\ \/ tab[t].family # NoToken /\ session' = Revoked(tab[t].family)
     \/ UNCHANGED session
  /\ Clears(t)
  /\ UNCHANGED <<kind, minted, spent, jar, projectVars, lost>>

(* The browser takes an answer, or never gets it. *)
ReceiveAnswer(t) ==
  /\ TabAt(t, "answer")
  /\ jar' = tab[t].answer
  /\ tab' = [tab EXCEPT ![t] = Quiet]
  /\ UNCHANGED <<kind, session, minted, spent, projectVars, lost>>
LoseAnswer(t) ==
  /\ TabAt(t, "answer")
  /\ tab' = [tab EXCEPT ![t] = Quiet]
  /\ lost' = TRUE
  /\ UNCHANGED <<kind, session, minted, spent, jar, projectVars>>

-----------------------------------------------------------------------------
(* Time: refreshRotationGrace and expiresAt. *)

GracePasses(f) ==
  /\ session[f].grace
  /\ session' = [session EXCEPT ![f].grace = FALSE]
  /\ UNCHANGED <<kind, minted, spent, jar, tab, projectVars, lost>>
SessionExpires(f) ==
  /\ session[f].live
  /\ session' = [session EXCEPT ![f].live = FALSE, ![f].grace = FALSE]
  /\ UNCHANGED <<kind, minted, spent, jar, tab, projectVars, lost>>

(* The project is deactivated, then its sessions are revoked; a failure is *)
(* logged.  It may be activated again.                                     *)
CloseProject ==
  /\ open /\ closing = "no"
  /\ open' = FALSE /\ closing' = "row"
  /\ UNCHANGED <<kind, session, minted, spent, jar, tab, late, lost>>
RevokeProjectSessions ==
  /\ closing = "row"
  /\ \/ /\ session' = [f \in Families |-> IF minted[f] > 0 THEN Ended(f) ELSE session[f]]
        /\ late' = IF open THEN {} ELSE {tab[t].family : t \in {u \in Tabs : TabAt(u, "start")}}
        /\ closing' = IF open THEN "no" ELSE "done"
     \/ closing' = "no" /\ UNCHANGED <<session, late>>
  /\ UNCHANGED <<kind, minted, spent, jar, tab, open, lost>>
ReopenProject ==
  /\ ~open
  /\ open' = TRUE
  /\ closing' = IF closing = "done" THEN "no" ELSE closing
  /\ late' = {}
  /\ UNCHANGED <<kind, session, minted, spent, jar, tab, lost>>

-----------------------------------------------------------------------------
SessionNext ==
  \/ \E t \in Tabs :
       \/ BeginLogin(t) \/ SwitchToProject(t) \/ StartSession(t)
       \/ BeginRefresh(t) \/ CheckMembership(t) \/ Rotate(t) \/ ClassifyRotation(t)
       \/ RevokeReused(t) \/ RefreshFails(t)
       \/ BeginLogout(t) \/ Logout(t) \/ ReceiveAnswer(t) \/ LoseAnswer(t)
  \/ \E f \in Families : GracePasses(f) \/ SessionExpires(f)
  \/ CloseProject \/ RevokeProjectSessions \/ ReopenProject

SessionSpec == SessionInit /\ [][SessionNext]_sessionVars

-----------------------------------------------------------------------------
(* Types; and an answer that refuses brings no cookie with it. *)
SessionTypeOK ==
  /\ kind \in {"project", "management"}
  /\ session \in [Families -> [current : 0..MaxExchanges + 1, previous : 0..MaxExchanges + 1,
                               grace : BOOLEAN, revoked : BOOLEAN, live : BOOLEAN]]
  /\ minted \in [Families -> 0..MaxExchanges + 1]
  /\ spent \subseteq Tokens
  /\ jar \in Tokens \cup {NoToken}
  /\ tab \in [Tabs -> [pc : {"idle", "start", "membership", "rotate", "classify", "revoke", "logout", "answer"},
                       family : Families \cup {NoToken}, token : Tokens \cup {NoToken}, inTime : BOOLEAN,
                       answer : Tokens \cup {NoToken}, conflict : BOOLEAN]]
  /\ \A t \in Tabs : tab[t].conflict => tab[t].answer = NoToken
  /\ open \in BOOLEAN /\ closing \in {"no", "row", "done"} /\ late \subseteq Families
  /\ lost \in BOOLEAN

(* A refresh token is exchanged once, however many tabs present it at the  *)
(* same time: the tokens of a family are one chain, in which all but the   *)
(* last are spent.                                                         *)
RotatedOnce ==
  \A f \in Families : minted[f] > 0 => Cardinality({k \in spent : k.family = f}) + 1 = minted[f]

(* However the answers of the tabs are ordered, the browser is never left  *)
(* with a token that was exchanged already, which would be taken for a     *)
(* reuse: once its requests are over, and none of their answers was lost,  *)
(* the cookie is the current token of its family, or there is none.        *)
JarIsCurrent ==
  (\A t \in Tabs : TabAt(t, "idle")) /\ ~lost /\ jar # NoToken => session[jar.family].current = jar.n

(* Between the exchange that failed and the second look at the session     *)
(* anything may happen to it, but a family is never revoked for the reuse  *)
(* of a token that is the current one of a live session.                   *)
OnlyOldTokensRevoke ==
  \A t \in Tabs : TabAt(t, "revoke") =>
    ~(LiveSession(tab[t].family) /\ session[tab[t].family].current = tab[t].token.n)

(* When a project was deactivated and its sessions were revoked, no        *)
(* session of it is left or appears, but those of the logins that were     *)
(* under way at the revocation.                                            *)
ClosedEndsSessions ==
  closing = "done" => \A f \in Families \ late : ~LiveSession(f)

(* All three: the current token of a family is the only one that can be    *)
(* exchanged and the only one that never counts as reused, and the browser *)
(* has it or none.                                                         *)
TokensAreOneChain == RotatedOnce /\ JarIsCurrent /\ OnlyOldTokensRevoke

(* What a conflict says, "retry with the current cookie": a browser that   *)
(* holds the current cookie of a live session still holds it after the     *)
(* answer.                                                                 *)
HoldsCurrent == jar # NoToken /\ LiveSession(jar.family) /\ session[jar.family].current = jar.n

ConflictLeavesCookie ==
  [][\A t \in Tabs :
       HoldsCurrent /\ tab[t].conflict /\ ~tab'[t].conflict => jar' = jar]_sessionVars
=============================================================================
