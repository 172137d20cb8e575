---------------------------- MODULE AccountsProofs ----------------------------
(* Theorems about AuthSessions, for any logins, tabs and exchanges, and about *)
(* Signups, for any calls, however many at a time.                           *)
EXTENDS AuthSessions, Signups, SequenceTheorems, FiniteSetTheorems, TLAPS

-----------------------------------------------------------------------------
(* Refresh sessions.                                                         *)
Session == [current : 0..MaxExchanges + 1, previous : 0..MaxExchanges + 1,
            grace : BOOLEAN, revoked : BOOLEAN, live : BOOLEAN]
Tab == [pc : {"idle", "start", "membership", "rotate", "classify", "revoke", "logout", "answer"},
        family : Families \cup {NoToken}, token : Tokens \cup {NoToken}, inTime : BOOLEAN,
        answer : Tokens \cup {NoToken}, conflict : BOOLEAN]

Refreshing == {"membership", "rotate", "classify", "revoke"}

(* The current token of a session is the last that was made.                 *)
LastIsCurrent(f) ==
  session[f].current = minted[f] /\ (minted[f] = 0 => ~session[f].live)

(* All but the last are spent.                                               *)
SpentIsPast == spent = {k \in Tokens : k.n < minted[k.family]}

Handed(k) == k # NoToken => k.n <= minted[k.family]

(* The cookie may be a spent token only while an answer is still to come.    *)
JarOK ==
  /\ Handed(jar)
  /\ ~lost /\ jar # NoToken /\ (\A t \in Tabs : ~TabAt(t, "answer")) => jar.n = minted[jar.family]

(* The token of an answer is the last of its family, and nowhere else.       *)
Delivers(t) ==
  LET k == tab[t].answer IN
  k # NoToken =>
    /\ TabAt(t, "answer") /\ k.n = minted[k.family] /\ jar # k
    /\ \A u \in Tabs : tab[u].token # k /\ (tab[u].answer = k => u = t)

(* A login has its family for itself, and no token of it was made.           *)
Starts(t) ==
  TabAt(t, "start") =>
    /\ tab[t].family \in Families /\ minted[tab[t].family] = 0
    /\ \A u \in Tabs : tab[u].family = tab[t].family => u = t

(* A refresh that was refused is about a token that cannot be exchanged any  *)
(* more.                                                                     *)
Refreshes(t) ==
  /\ Handed(tab[t].token)
  /\ tab[t].pc \in Refreshing => tab[t].token # NoToken /\ tab[t].token.family = tab[t].family
  /\ tab[t].pc \in {"classify", "revoke"} => ~Rotates(tab[t].family, tab[t].token.n)

TabOK(t) == Delivers(t) /\ Starts(t) /\ Refreshes(t)

(* Once the sessions of a closed project were revoked, only the logins that  *)
(* were under way can still store one.                                       *)
ClosedOK ==
  closing = "done" =>
    ~open /\ (\A t \in Tabs : TabAt(t, "start") => tab[t].family \in late) /\ \A f \in Families \ late : ~LiveSession(f)

SessionIInv ==
  /\ SessionTypeOK /\ SpentIsPast /\ JarOK /\ ClosedOK
  /\ (\A f \in Families : LastIsCurrent(f)) /\ \A t \in Tabs : TabOK(t)

LEMMA SessionTypes ==
  SessionTypeOK <=>
    /\ kind \in {"project", "management"}
    /\ session \in [Families -> Session]
    /\ minted \in [Families -> 0..MaxExchanges + 1]
    /\ spent \subseteq Tokens
    /\ jar \in Tokens \cup {NoToken}
    /\ tab \in [Tabs -> Tab] /\ \A t \in Tabs : tab[t].conflict => tab[t].answer = NoToken
    /\ open \in BOOLEAN /\ closing \in {"no", "row", "done"} /\ late \subseteq Families
    /\ lost \in BOOLEAN
BY DEF SessionTypeOK, Session, Tab

LEMMA TokenFacts ==
  /\ \A k \in Tokens : k # NoToken /\ k.family \in Families /\ k.n \in 1..MaxExchanges + 1
                       /\ k = [family |-> k.family, n |-> k.n]
  /\ \A f \in Families, n \in 1..MaxExchanges + 1 : [family |-> f, n |-> n] \in Tokens
  /\ NoToken \notin Families /\ MaxExchanges \in Nat
BY TokensAssumption DEF Tokens

LEMMA QuietFacts ==
  /\ Quiet \in Tab /\ Quiet.pc = "idle" /\ Quiet.family = NoToken /\ Quiet.token = NoToken
  /\ Quiet.answer = NoToken /\ Quiet.conflict = FALSE /\ Quiet.inTime = FALSE
BY DEF Quiet, Tab

LEMMA NoSessionFacts ==
  NoSession \in Session /\ NoSession.live = FALSE /\ NoSession.revoked = FALSE /\ NoSession.current = 0
<1>1. 0 \in 0..MaxExchanges + 1
  BY TokenFacts
<1> QED
  BY <1>1 DEF NoSession, Session

(* All three parts of TokensAreOneChain, and ClosedEndsSessions.             *)
LEMMA ChainOfTokens == SessionIInv => TokensAreOneChain
<1> SUFFICES ASSUME SessionIInv PROVE TokensAreOneChain
  OBVIOUS
<1>1. RotatedOnce
  <2> SUFFICES ASSUME NEW f \in Families, minted[f] > 0
               PROVE  Cardinality({k \in spent : k.family = f}) + 1 = minted[f]
    BY DEF RotatedOnce
  <2> DEFINE S == {k \in spent : k.family = f}
             m == minted[f] - 1
             g == [i \in 1..m |-> [family |-> f, n |-> i]]
  <2>1. minted[f] \in 1..MaxExchanges + 1 /\ m \in Nat /\ m <= MaxExchanges + 1
    BY SessionTypes, TokenFacts DEF SessionIInv
  <2>2. S = {k \in Tokens : k.family = f /\ k.n \in 1..m}
    BY <2>1, TokenFacts DEF SessionIInv, SpentIsPast
  <2>3. \A i \in 1..m : [family |-> f, n |-> i] \in S
    BY <2>1, <2>2, TokenFacts
  <2>4. \A k \in S : k.n \in 1..m /\ k = [family |-> f, n |-> k.n]
    BY <2>2, TokenFacts
  <2>5. g \in Injection(1..m, S) /\ g \in Surjection(1..m, S)
    BY <2>3, <2>4 DEF Injection, IsInjective, Surjection
  <2>6. IsFiniteSet(1..m) /\ Cardinality(1..m) = m
    BY <2>1, FS_Interval
  <2> HIDE DEF S, m, g
  <2>7. Cardinality(S) = m
    BY <2>5, <2>6, FS_Injection, FS_Surjection
  <2> QED
    BY <2>1, <2>7 DEF S, m
<1>2. JarIsCurrent
  <2> SUFFICES ASSUME \A t \in Tabs : TabAt(t, "idle"), ~lost, jar # NoToken
               PROVE  session[jar.family].current = jar.n
    BY DEF JarIsCurrent
  <2>1. jar.n = minted[jar.family] /\ jar.family \in Families
    BY SessionTypes, TokenFacts DEF SessionIInv, JarOK, TabAt
  <2> QED
    BY <2>1 DEF SessionIInv, LastIsCurrent
<1>3. OnlyOldTokensRevoke
  BY DEF SessionIInv, TabOK, Refreshes, OnlyOldTokensRevoke, TabAt, Rotates
<1> QED
  BY <1>1, <1>2, <1>3 DEF TokensAreOneChain

-----------------------------------------------------------------------------
(* Sessions only end, by time or by revocation.                              *)
Wanes ==
  /\ session' \in [Families -> Session]
  /\ \A f \in Families :
       /\ session'[f].current = session[f].current
       /\ session'[f].live => session[f].live
       /\ session[f].revoked => session'[f].revoked

LEMMA WanesRotates ==
  ASSUME Wanes, NEW f \in Families, NEW n
  PROVE  (LiveSession(f)' => LiveSession(f)) /\ ((session'[f].live /\ ~session'[f].revoked /\ session'[f].current = n) => Rotates(f, n))
BY DEF Wanes, LiveSession, Rotates

LEMMA TokenFamily ==
  ASSUME SessionIInv, NEW t \in Tabs, tab[t].pc \in Refreshing
  PROVE  tab[t].family \in Families /\ tab[t].token \in Tokens /\ tab[t].token.family = tab[t].family
<1>1. tab[t].token \in Tokens /\ tab[t].token.family = tab[t].family
  BY SessionTypes DEF SessionIInv, TabOK, Refreshes, Tab
<1> QED
  BY <1>1, TokenFacts

(* A step of one tab that brings no token.                                   *)
LEMMA TabStep ==
  ASSUME SessionIInv, NEW t \in Tabs, Wanes, UNCHANGED <<kind, minted, spent, jar, projectVars, lost>>,
         NEW v \in Tab, tab' = [tab EXCEPT ![t] = v], v.answer = NoToken, v.token \in {NoToken, tab[t].token, jar},
         tab[t].pc # "answer", closing = "done" => v.pc # "start",
         \A u \in Tabs \ {t} : TabAt(u, "start") => v.family # tab[u].family,
         Starts(t)', Refreshes(t)'
  PROVE  SessionIInv'
<1>1. /\ tab' \in [Tabs -> Tab] /\ tab'[t] = v /\ \A u \in Tabs \ {t} : tab'[u] = tab[u]
      /\ tab \in [Tabs -> Tab]
  BY SessionTypes DEF SessionIInv
<1>2. UNCHANGED <<kind, minted, spent, jar, open, closing, late, lost>>
  BY DEF projectVars
<1>3. SessionTypeOK'
  <2>1. \A u \in Tabs : tab'[u].conflict => tab'[u].answer = NoToken
    BY <1>1, SessionTypes DEF SessionIInv
  <2>2. session' \in [Families -> Session]
    BY DEF Wanes
  <2>3. /\ kind' \in {"project", "management"}
        /\ minted' \in [Families -> 0..MaxExchanges + 1]
        /\ spent' \subseteq Tokens
        /\ jar' \in Tokens \cup {NoToken}
        /\ open' \in BOOLEAN /\ closing' \in {"no", "row", "done"} /\ late' \subseteq Families
        /\ lost' \in BOOLEAN
    BY <1>2, SessionTypes DEF SessionIInv
  <2> QED
    BY <1>1, <2>1, <2>2, <2>3 DEF SessionTypeOK, Session, Tab
<1>4. SpentIsPast'
  BY <1>2 DEF SessionIInv, SpentIsPast, Tokens
<1>5. JarOK'
  BY <1>1, <1>2 DEF SessionIInv, JarOK, Handed, TabAt
<1>6. \A f \in Families : LastIsCurrent(f)'
  BY <1>2 DEF SessionIInv, LastIsCurrent, Wanes
<1>7. ClosedOK'
  <2>1. SUFFICES ASSUME closing = "done"
                 PROVE  /\ ~open /\ \A u \in Tabs : tab'[u].pc = "start" => tab'[u].family \in late
                        /\ \A f \in Families \ late : ~LiveSession(f)'
    BY <1>2 DEF ClosedOK, TabAt, LiveSession
  <2>2. \A f \in Families : LiveSession(f)' => LiveSession(f)
    BY DEF Wanes, LiveSession
  <2> QED
    BY <1>1, <2>1, <2>2 DEF SessionIInv, ClosedOK, TabAt
<1>8. ASSUME NEW u \in Tabs
      PROVE  TabOK(u)'
  <2>1. TabOK(u)
    BY DEF SessionIInv
  <2>2. tab[t].answer = NoToken
    BY DEF SessionIInv, TabOK, Delivers, TabAt
  <2>3. CASE u = t
    BY <1>1, <2>3 DEF TabOK, Delivers
  <2>4. CASE u # t
    <3>1. tab'[u] = tab[u] /\ tab'[t] = v
      BY <1>1, <2>4
    <3>2. Delivers(u)'
      <4> DEFINE k == tab[u].answer
      <4>1. SUFFICES ASSUME k # NoToken
                     PROVE  /\ tab'[u].pc = "answer" /\ k.n = minted[k.family] /\ jar # k
                            /\ \A w \in Tabs : tab'[w].token # k /\ (tab'[w].answer = k => w = u)
        BY <1>2, <3>1 DEF Delivers, TabAt
      <4>2. /\ tab[u].pc = "answer" /\ k.n = minted[k.family] /\ jar # k
            /\ \A w \in Tabs : tab[w].token # k /\ (tab[w].answer = k => w = u)
        BY <2>1, <4>1 DEF TabOK, Delivers, TabAt
      <4> HIDE DEF k
      <4> QED
        BY <1>1, <3>1, <4>1, <4>2
    <3>3. Starts(u)'
      BY <1>1, <1>2, <2>1, <2>4, <3>1 DEF TabOK, Starts, TabAt
    <3>4. Refreshes(u)'
      <4>1. tab[u].pc \in Refreshing => tab[u].family \in Families
        BY TokenFamily
      <4>2. tab[u].pc \in {"classify", "revoke"} => ~Rotates(tab[u].family, tab[u].token.n)'
        BY <1>1, <2>1, <3>1, <4>1 DEF TabOK, Refreshes, Refreshing, Rotates, LiveSession, Wanes
      <4> QED
        BY <1>1, <1>2, <2>1, <3>1, <4>2 DEF TabOK, Refreshes, Handed, Rotates, LiveSession
    <3> QED
      BY <3>2, <3>3, <3>4 DEF TabOK
  <2> QED
    BY <2>3, <2>4
<1> QED
  BY <1>3, <1>4, <1>5, <1>6, <1>7, <1>8 DEF SessionIInv

(* A step that leaves the tabs alone.                                        *)
LEMMA TimeStep ==
  ASSUME SessionIInv, Wanes, UNCHANGED <<kind, minted, spent, jar, tab, lost>>, SessionTypeOK', ClosedOK'
  PROVE  SessionIInv'
<1>1. SpentIsPast' /\ JarOK'
  BY DEF SessionIInv, SpentIsPast, JarOK, Handed, TabAt, Tokens
<1>2. \A f \in Families : LastIsCurrent(f)'
  BY DEF SessionIInv, LastIsCurrent, Wanes
<1>3. ASSUME NEW u \in Tabs
      PROVE  TabOK(u)'
  <2>1. TabOK(u)
    BY DEF SessionIInv
  <2>2. tab[u].pc \in Refreshing => tab[u].family \in Families
    BY TokenFamily
  <2>3. Delivers(u)' /\ Starts(u)'
    BY <2>1 DEF TabOK, Delivers, Starts, TabAt
  <2>4. Refreshes(u)'
    BY <2>1, <2>2 DEF TabOK, Refreshes, Refreshing, Handed, Rotates, LiveSession, Wanes
  <2> QED
    BY <2>3, <2>4 DEF TabOK
<1> QED
  BY <1>1, <1>2, <1>3 DEF SessionIInv

LEMMA Unwaned == SessionIInv /\ UNCHANGED session => Wanes
BY SessionTypes DEF SessionIInv, Wanes

(* The tokens of the cookie were made, a family that starts has none.        *)
LEMMA JarFacts ==
  ASSUME SessionIInv, jar # NoToken
  PROVE  /\ jar \in Tokens /\ jar.family \in Families /\ jar.n <= minted[jar.family]
         /\ \A u \in Tabs : TabAt(u, "start") => tab[u].family # jar.family
<1>1. jar \in Tokens /\ jar.family \in Families /\ jar.n \in 1..MaxExchanges + 1 /\ jar.n <= minted[jar.family]
  BY SessionTypes, TokenFacts DEF SessionIInv, JarOK, Handed
<1>2. ASSUME NEW u \in Tabs, TabAt(u, "start")
      PROVE  tab[u].family # jar.family
  <2>1. minted[tab[u].family] = 0
    BY <1>2 DEF SessionIInv, TabOK, Starts
  <2> QED
    BY <1>1, <2>1, TokenFacts
<1> QED
  BY <1>1, <1>2

LEMMA TakesStep ==
  ASSUME SessionIInv, NEW t \in Tabs, NEW f \in NewFamilies, TabAt(t, "idle"), open, Takes(t, f),
         UNCHANGED <<kind, session, minted, spent, jar, projectVars, lost>>
  PROVE  SessionIInv'
<1> DEFINE v == [Quiet EXCEPT !.pc = "start", !.family = f]
<1>1. f \in Families /\ minted[f] = 0 /\ \A u \in Tabs : tab[u].family # f
  BY DEF NewFamilies, Unborn
<1>2. v \in Tab /\ v.pc = "start" /\ v.family = f /\ v.token = NoToken /\ v.answer = NoToken
  BY <1>1 DEF Quiet, Tab
<1>3. tab' = [tab EXCEPT ![t] = v]
  BY DEF Takes
<1> HIDE DEF v
<1>4. tab'[t] = v /\ \A u \in Tabs \ {t} : tab'[u] = tab[u]
  BY <1>3, SessionTypes DEF SessionIInv
<1>5. closing # "done" /\ Wanes
  BY Unwaned DEF SessionIInv, ClosedOK
<1>6. Starts(t)'
  BY <1>1, <1>2, <1>4 DEF Starts
<1>7. Refreshes(t)'
  BY <1>2, <1>4 DEF Refreshes, Handed, Refreshing
<1>8. tab[t].pc # "answer"
  BY DEF TabAt
<1> QED
  BY <1>1, <1>2, <1>3, <1>5, <1>6, <1>7, <1>8, TabStep

(* A refusal, or the end of a request.                                       *)
LEMMA EmptyHanded ==
  ASSUME SessionIInv, NEW t \in Tabs, Wanes, UNCHANGED <<kind, minted, spent, jar, projectVars, lost>>,
         NEW v \in Tab, tab' = [tab EXCEPT ![t] = v], v.answer = NoToken, v.token = NoToken, v.family = NoToken,
         v.pc \in {"idle", "answer", "logout"}, tab[t].pc # "answer"
  PROVE  SessionIInv'
<1>1. tab'[t] = v
  BY SessionTypes DEF SessionIInv
<1>2. Starts(t)' /\ Refreshes(t)'
  BY <1>1 DEF Starts, Refreshes, TabAt, Handed, Refreshing
<1>3. \A u \in Tabs : TabAt(u, "start") => v.family # tab[u].family
  BY TokenFacts DEF SessionIInv, TabOK, Starts
<1>4. v.pc # "start"
  OBVIOUS
<1> QED
  BY <1>2, <1>3, <1>4, TabStep

LEMMA ClearsStep ==
  ASSUME SessionIInv, NEW t \in Tabs, Wanes, UNCHANGED <<kind, minted, spent, jar, projectVars, lost>>,
         tab[t].pc # "answer", Clears(t)
  PROVE  SessionIInv'
<1> DEFINE v == [Quiet EXCEPT !.pc = "answer", !.answer = NoToken]
<1>1. v \in Tab /\ v.pc = "answer" /\ v.family = NoToken /\ v.token = NoToken /\ v.answer = NoToken
  BY DEF Quiet, Tab
<1>2. tab' = [tab EXCEPT ![t] = v]
  BY DEF Clears, Answers
<1> HIDE DEF v
<1> QED
  BY <1>1, <1>2, EmptyHanded

(* A refresh goes on with its token.                                         *)
LEMMA GoesOn ==
  ASSUME SessionIInv, NEW t \in Tabs, UNCHANGED <<kind, session, minted, spent, jar, projectVars, lost>>,
         NEW v \in Tab, tab' = [tab EXCEPT ![t] = v], tab[t].pc \in Refreshing, v.pc \in Refreshing,
         v.family = tab[t].family, v.token = tab[t].token, v.answer = tab[t].answer,
         v.pc \in {"classify", "revoke"} => ~Rotates(v.family, v.token.n)
  PROVE  SessionIInv'
<1>1. tab'[t] = v
  BY SessionTypes DEF SessionIInv
<1>2. /\ tab[t].pc # "answer" /\ v.pc # "start"
      /\ TabOK(t) /\ Wanes
  BY Unwaned DEF Refreshing, SessionIInv
<1>3. v.answer = NoToken
  BY <1>2 DEF TabOK, Delivers, TabAt
<1>4. Starts(t)'
  BY <1>1, <1>2 DEF Starts, TabAt
<1>5. Refreshes(t)'
  BY <1>1, <1>2 DEF Refreshes, TabOK, Handed, Rotates, LiveSession
<1>6. \A u \in Tabs \ {t} : TabAt(u, "start") => v.family # tab[u].family
  BY DEF SessionIInv, TabOK, Starts
<1> QED
  BY <1>2, <1>3, <1>4, <1>5, <1>6, TabStep

LEMMA BeginRefreshStep ==
  ASSUME SessionIInv, NEW t \in Tabs, BeginRefresh(t)
  PROVE  SessionIInv'
<1>1. /\ tab[t].pc = "idle" /\ Wanes
      /\ UNCHANGED <<kind, minted, spent, jar, projectVars, lost>>
  BY Unwaned DEF BeginRefresh, TabAt
<1>2. CASE jar = NoToken
  <2>1. Clears(t)
    BY <1>2 DEF BeginRefresh
  <2> QED
    BY <1>1, <2>1, ClearsStep
<1>3. CASE jar # NoToken
  <2> DEFINE pc == IF kind = "project" THEN "rotate" ELSE "membership"
             v == [Quiet EXCEPT !.pc = pc, !.family = jar.family, !.token = jar]
  <2>1. jar \in Tokens /\ jar.family \in Families /\ pc \in {"rotate", "membership"}
    BY <1>3, JarFacts
  <2>2. tab' = [tab EXCEPT ![t] = v]
    BY <1>3 DEF BeginRefresh
  <2> HIDE DEF pc
  <2>3. v \in Tab /\ v.pc = pc /\ v.family = jar.family /\ v.token = jar /\ v.answer = NoToken
    BY <2>1 DEF Quiet, Tab
  <2> HIDE DEF v
  <2>4. tab'[t] = v
    BY <2>2, SessionTypes DEF SessionIInv
  <2>5. Starts(t)'
    BY <2>1, <2>3, <2>4 DEF Starts, TabAt
  <2>6. Refreshes(t)'
    BY <1>1, <1>3, <2>1, <2>3, <2>4 DEF SessionIInv, JarOK, Refreshes, Handed, Refreshing
  <2>7. \A u \in Tabs \ {t} : TabAt(u, "start") => v.family # tab[u].family
    BY <1>3, <2>3, JarFacts
  <2>8. v.pc # "start" /\ tab[t].pc # "answer"
    BY <1>1, <2>1, <2>3
  <2> QED
    BY <1>1, <2>2, <2>3, <2>5, <2>6, <2>7, <2>8, TabStep
<1> QED
  BY <1>2, <1>3

LEMMA CheckMembershipStep ==
  ASSUME SessionIInv, NEW t \in Tabs, CheckMembership(t)
  PROVE  SessionIInv'
<1>1. /\ tab[t].pc = "membership" /\ Wanes
      /\ UNCHANGED <<kind, session, minted, spent, jar, projectVars, lost>>
  BY Unwaned DEF CheckMembership, TabAt
<1>2. CASE open
  <2> DEFINE v == [tab[t] EXCEPT !.pc = "rotate"]
  <2>1. tab[t] \in Tab /\ tab' = [tab EXCEPT ![t] = v]
    BY <1>2, SessionTypes DEF SessionIInv, CheckMembership, TabGoes
  <2>2. v \in Tab /\ v.pc = "rotate" /\ v.family = tab[t].family /\ v.token = tab[t].token /\ v.answer = tab[t].answer
    BY <2>1 DEF Tab
  <2> HIDE DEF v
  <2>3. tab[t].pc \in Refreshing /\ v.pc \in Refreshing /\ v.pc \notin {"classify", "revoke"}
    BY <1>1, <2>2 DEF Refreshing
  <2> QED
    BY <1>1, <2>1, <2>2, <2>3, GoesOn
<1>3. CASE ~open
  <2>1. Clears(t)
    BY <1>3 DEF CheckMembership
  <2> QED
    BY <1>1, <2>1, ClearsStep
<1> QED
  BY <1>2, <1>3

LEMMA ClassifyStep ==
  ASSUME SessionIInv, NEW t \in Tabs, ClassifyRotation(t)
  PROVE  SessionIInv'
<1> DEFINE s == session[tab[t].family]
           conflict == ~s.revoked /\ tab[t].inTime /\ s.previous = tab[t].token.n
<1>1. /\ tab[t].pc = "classify" /\ Wanes /\ tab[t].pc \in Refreshing
      /\ UNCHANGED <<kind, session, minted, spent, jar, projectVars, lost>>
  BY Unwaned DEF ClassifyRotation, TabAt, Refreshing
<1>2. CASE conflict
  <2> DEFINE v == [Quiet EXCEPT !.pc = "answer", !.conflict = TRUE]
  <2>1. tab' = [tab EXCEPT ![t] = v]
    BY <1>2 DEF ClassifyRotation
  <2>2. v \in Tab /\ v.pc = "answer" /\ v.family = NoToken /\ v.token = NoToken /\ v.answer = NoToken
    BY DEF Quiet, Tab
  <2> HIDE DEF v
  <2> QED
    BY <1>1, <2>1, <2>2, EmptyHanded
<1>3. CASE ~conflict
  <2> DEFINE v == [tab[t] EXCEPT !.pc = "revoke"]
  <2>1. tab[t] \in Tab /\ tab' = [tab EXCEPT ![t] = v]
    BY <1>3, SessionTypes DEF SessionIInv, ClassifyRotation, TabGoes
  <2>2. v \in Tab /\ v.pc = "revoke" /\ v.family = tab[t].family /\ v.token = tab[t].token /\ v.answer = tab[t].answer
    BY <2>1 DEF Tab
  <2> HIDE DEF v
  <2>3. v.pc \in Refreshing /\ ~Rotates(v.family, v.token.n)
    BY <1>1, <2>2 DEF Refreshing, SessionIInv, TabOK, Refreshes
  <2> QED
    BY <1>1, <2>1, <2>2, <2>3, GoesOn
<1> QED
  BY <1>2, <1>3

(* A token is made: by a login, or for a token that is spent by it.          *)
LEMMA MintStep ==
  ASSUME SessionIInv, NEW t \in Tabs, NEW f \in Families, minted[f] <= MaxExchanges,
         UNCHANGED <<kind, jar, projectVars, lost>>,
         minted' = [minted EXCEPT ![f] = minted[f] + 1],
         NEW s \in Session, session' = [session EXCEPT ![f] = s], s.current = minted[f] + 1,
         SpentIsPast', JarOK',
         NEW v \in Tab, tab' = [tab EXCEPT ![t] = v], v.token = NoToken, v.family = NoToken, ~v.conflict,
         v.answer \in {NoToken, [family |-> f, n |-> minted[f] + 1]},
         v.pc \in {"idle", "answer"}, v.answer # NoToken => v.pc = "answer", tab[t].pc # "answer",
         \A u \in Tabs : tab[u].answer # NoToken => tab[u].answer.family # f,
         \A u \in Tabs \ {t} : TabAt(u, "start") => tab[u].family # f,
         closing = "done" => f \in late
  PROVE  SessionIInv'
<1> DEFINE new == [family |-> f, n |-> minted[f] + 1]
<1>1. /\ tab' \in [Tabs -> Tab] /\ tab'[t] = v /\ \A u \in Tabs \ {t} : tab'[u] = tab[u]
      /\ tab \in [Tabs -> Tab]
  BY SessionTypes DEF SessionIInv
<1>2. UNCHANGED <<kind, jar, open, closing, late, lost>>
  BY DEF projectVars
<1>3. /\ minted \in [Families -> 0..MaxExchanges + 1] /\ minted[f] \in Nat /\ MaxExchanges \in Nat
      /\ minted' \in [Families -> 0..MaxExchanges + 1] /\ minted'[f] = minted[f] + 1
      /\ \A g \in Families \ {f} : minted'[g] = minted[g]
  BY SessionTypes, TokenFacts DEF SessionIInv
<1>4. /\ session' \in [Families -> Session] /\ session'[f] = s
      /\ \A g \in Families \ {f} : session'[g] = session[g]
  BY SessionTypes DEF SessionIInv
<1>5. SessionTypeOK'
  <2>1. \A u \in Tabs : tab'[u].conflict => tab'[u].answer = NoToken
    BY <1>1, SessionTypes DEF SessionIInv
  <2>2. spent' \subseteq Tokens
    BY DEF SpentIsPast, Tokens
  <2>3. /\ kind' \in {"project", "management"} /\ jar' \in Tokens \cup {NoToken}
        /\ open' \in BOOLEAN /\ closing' \in {"no", "row", "done"} /\ late' \subseteq Families
        /\ lost' \in BOOLEAN
    BY <1>2, SessionTypes DEF SessionIInv
  <2> QED
    BY <1>1, <1>3, <1>4, <2>1, <2>2, <2>3 DEF SessionTypeOK, Session, Tab
<1>6. \A g \in Families : LastIsCurrent(g)'
  <2>1. LastIsCurrent(f)'
    BY <1>3, <1>4 DEF LastIsCurrent
  <2>2. \A g \in Families \ {f} : LastIsCurrent(g)'
    BY <1>3, <1>4 DEF LastIsCurrent, SessionIInv
  <2> QED
    BY <2>1, <2>2
<1>7. ClosedOK'
  <2>1. SUFFICES ASSUME closing = "done"
                 PROVE  /\ ~open /\ \A u \in Tabs : tab'[u].pc = "start" => tab'[u].family \in late
                        /\ \A g \in Families \ late : ~LiveSession(g)'
    BY <1>2 DEF ClosedOK, TabAt, LiveSession
  <2>2. \A g \in Families \ late : LiveSession(g)' => LiveSession(g)
    BY <1>4, <2>1 DEF LiveSession
  <2> QED
    BY <1>1, <2>1, <2>2 DEF SessionIInv, ClosedOK, TabAt
<1>8. \A k \in Tokens : k.n <= minted[k.family] => k # new /\ k.n <= minted'[k.family]
  BY <1>3, TokenFacts
<1>9. \A u \in Tabs : tab[u].token # new /\ tab[u].answer # new
  <2>1. \A u \in Tabs : Handed(tab[u].token) /\ tab[u].token \in Tokens \cup {NoToken}
    BY <1>1 DEF SessionIInv, TabOK, Refreshes, Tab
  <2>2. \A u \in Tabs : tab[u].token # new
    BY <1>3, <1>8, <2>1, TokenFacts DEF Handed
  <2>3. \A u \in Tabs : tab[u].answer # new
    BY <1>3, TokenFacts
  <2> QED
    BY <2>2, <2>3
<1>10. jar # new
  BY <1>3, <1>8, SessionTypes, TokenFacts DEF SessionIInv, JarOK, Handed
<1>11. new # NoToken /\ new.family = f /\ new.n = minted'[f]
  BY <1>3, TokenFacts
<1> HIDE DEF new
<1>12. ASSUME NEW u \in Tabs
      PROVE  TabOK(u)'
  <2>1. TabOK(u)
    BY DEF SessionIInv
  <2>2. CASE u = t
    <3>1. Delivers(u)'
      <4>1. CASE v.answer = NoToken
        BY <1>1, <2>2, <4>1 DEF Delivers
      <4>2. CASE v.answer = new /\ v.pc = "answer"
        BY <1>1, <1>2, <1>9, <1>10, <1>11, <2>2, <4>2 DEF Delivers, TabAt
      <4> QED
        BY <4>1, <4>2 DEF new
    <3>2. Starts(u)' /\ Refreshes(u)'
      BY <1>1, <2>2 DEF Starts, Refreshes, TabAt, Handed, Refreshing
    <3> QED
      BY <3>1, <3>2 DEF TabOK
  <2>3. CASE u # t
    <3>1. tab'[u] = tab[u] /\ tab'[t] = v
      BY <1>1, <2>3
    <3>2. Delivers(u)'
      <4> DEFINE k == tab[u].answer
      <4>1. SUFFICES ASSUME k # NoToken
                     PROVE  /\ tab'[u].pc = "answer" /\ k.n = minted'[k.family] /\ jar # k
                            /\ \A w \in Tabs : tab'[w].token # k /\ (tab'[w].answer = k => w = u)
        BY <1>2, <3>1 DEF Delivers, TabAt
      <4>2. /\ tab[u].pc = "answer" /\ k.n = minted[k.family] /\ jar # k
            /\ \A w \in Tabs : tab[w].token # k /\ (tab[w].answer = k => w = u)
        BY <2>1, <4>1 DEF TabOK, Delivers, TabAt
      <4>3. k.family \in Families \ {f} /\ v.answer # k
        BY <1>1, <1>9, <4>1, TokenFacts DEF new, Tab
      <4> HIDE DEF k
      <4> QED
        BY <1>1, <1>3, <3>1, <4>1, <4>2, <4>3
    <3>3. Starts(u)'
      BY <1>1, <1>3, <2>1, <2>3, <3>1, TokenFacts DEF TabOK, Starts, TabAt
    <3>4. Refreshes(u)'
      <4>1. Handed(tab[u].token)'
        BY <1>1, <1>8, <2>1, <3>1 DEF TabOK, Refreshes, Handed, Tab
      <4>2. tab[u].pc \in Refreshing => tab[u].token # NoToken /\ tab[u].token.family = tab[u].family
        BY <2>1 DEF TabOK, Refreshes
      <4>3. ASSUME tab[u].pc \in {"classify", "revoke"}
            PROVE  ~Rotates(tab[u].family, tab[u].token.n)'
        <5>1. tab[u].family \in Families /\ tab[u].token \in Tokens /\ tab[u].token.family = tab[u].family
          BY <4>3, TokenFamily DEF Refreshing
        <5>2. ~Rotates(tab[u].family, tab[u].token.n) /\ tab[u].token.n <= minted[tab[u].family]
          BY <2>1, <4>2, <4>3, <5>1 DEF TabOK, Refreshes, Handed, Refreshing
        <5>3. CASE tab[u].family = f
          <6>1. s.current # tab[u].token.n
            BY <1>3, <5>1, <5>2, <5>3, TokenFacts
          <6> QED
            BY <1>4, <3>1, <5>3, <6>1 DEF Rotates
        <5>4. CASE tab[u].family # f
          BY <1>4, <3>1, <5>1, <5>2, <5>4 DEF Rotates, LiveSession
        <5> QED
          BY <5>3, <5>4
      <4> QED
        BY <3>1, <4>1, <4>2, <4>3 DEF Refreshes
    <3> QED
      BY <3>2, <3>3, <3>4 DEF TabOK
  <2> QED
    BY <2>2, <2>3
<1> QED
  BY <1>5, <1>6, <1>7, <1>12 DEF SessionIInv

LEMMA StartSessionStep ==
  ASSUME SessionIInv, NEW t \in Tabs, StartSession(t)
  PROVE  SessionIInv'
<1> DEFINE f == tab[t].family
           new == [family |-> f, n |-> 1]
           s == [NoSession EXCEPT !.current = 1, !.live = TRUE]
<1>1. /\ TabAt(t, "start") /\ tab[t].pc # "answer"
      /\ UNCHANGED <<kind, spent, jar, projectVars, lost>>
  BY DEF StartSession, TabAt
<1>2. f \in Families /\ minted[f] = 0 /\ \A u \in Tabs : tab[u].family = f => u = t
  BY <1>1 DEF SessionIInv, TabOK, Starts
<1>3. CASE tab' = [tab EXCEPT ![t] = Quiet] /\ UNCHANGED <<session, minted>>
  BY <1>1, <1>3, Unwaned, QuietFacts, EmptyHanded
<1>4. CASE /\ session' = [session EXCEPT ![f] = s]
           /\ minted' = [minted EXCEPT ![f] = 1]
           /\ Answers(t, new) \/ tab' = [tab EXCEPT ![t] = Quiet]
  <2> DEFINE w == [Quiet EXCEPT !.pc = "answer", !.answer = new]
             v == IF Answers(t, new) THEN w ELSE Quiet
  <2>1. /\ MaxExchanges \in Nat /\ minted[f] <= MaxExchanges /\ minted[f] + 1 = 1
        /\ minted' = [minted EXCEPT ![f] = minted[f] + 1]
        /\ minted \in [Families -> 0..MaxExchanges + 1]
    BY <1>2, <1>4, TokenFacts, SessionTypes DEF SessionIInv
  <2>2. s \in Session /\ s.current = minted[f] + 1
    <3>1. NoSession \in Session /\ 1 \in 0..MaxExchanges + 1
      BY <2>1, NoSessionFacts
    <3> QED
      BY <2>1, <3>1 DEF Session
  <2>3. new \in Tokens
    BY <1>2, <2>1, TokenFacts
  <2> HIDE DEF new
  <2>4. /\ w \in Tab /\ w.token = NoToken /\ w.family = NoToken /\ w.conflict = FALSE
        /\ w.answer = new /\ w.pc = "answer"
    BY <2>3 DEF Quiet, Tab
  <2>5. tab' = [tab EXCEPT ![t] = v]
    BY <1>4 DEF Answers
  <2>6. /\ v \in Tab /\ v.token = NoToken /\ v.family = NoToken /\ ~v.conflict
        /\ v.answer \in {NoToken, new} /\ v.pc \in {"idle", "answer"} /\ (v.answer # NoToken => v.pc = "answer")
    BY <2>4, QuietFacts
  <2> HIDE DEF s, w, v
  <2>7. \A u \in Tabs : tab[u].answer # NoToken => tab[u].answer.family # f
    <3>1. \A u \in Tabs : tab[u].answer # NoToken => tab[u].answer.n = minted[tab[u].answer.family] /\ tab[u].answer \in Tokens
      BY SessionTypes DEF SessionIInv, TabOK, Delivers, Tab
    <3> QED
      BY <1>2, <3>1, TokenFacts
  <2>8. \A u \in Tabs \ {t} : TabAt(u, "start") => tab[u].family # f
    BY <1>2
  <2>9. closing = "done" => f \in late
    BY <1>1 DEF SessionIInv, ClosedOK
  <2>10. SpentIsPast'
    <3>1. \A k \in Tokens : k.n < minted[k.family] <=> k.n < minted'[k.family]
      BY <1>2, <2>1, TokenFacts
    <3> QED
      BY <1>1, <3>1 DEF SessionIInv, SpentIsPast, Tokens
  <2>11. JarOK'
    <3>1. jar # NoToken => jar \in Tokens /\ jar.family # f
      BY <1>1, JarFacts
    <3>2. jar # NoToken => minted'[jar.family] = minted[jar.family]
      BY <2>1, <3>1, TokenFacts
    <3>3. (\A u \in Tabs : ~TabAt(u, "answer")') => \A u \in Tabs : ~TabAt(u, "answer")
      BY <1>1, <2>5 DEF TabAt
    <3> QED
      BY <1>1, <3>2, <3>3 DEF SessionIInv, JarOK, Handed
  <2>12. v.answer \in {NoToken, [family |-> f, n |-> minted[f] + 1]}
    BY <2>1, <2>6 DEF new
  <2>13. UNCHANGED <<kind, jar, projectVars, lost>> /\ tab[t].pc # "answer"
    BY <1>1
  <2>14. session' = [session EXCEPT ![f] = s] /\ f \in Families
    BY <1>2, <1>4
  <2> HIDE DEF f
  <2> QED
    BY <2>1, <2>2, <2>5, <2>6, <2>7, <2>8, <2>9, <2>10, <2>11, <2>12, <2>13, <2>14, MintStep
<1> QED
  BY <1>3, <1>4 DEF StartSession

LEMMA RotateStep ==
  ASSUME SessionIInv, NEW t \in Tabs, Rotate(t)
  PROVE  SessionIInv'
<1> DEFINE f == tab[t].family
           n == tab[t].token.n
           new == [family |-> f, n |-> minted[f] + 1]
           s == Exchanged(f, n)
<1>1. /\ tab[t].pc = "rotate" /\ tab[t].pc # "answer" /\ tab[t].pc \in Refreshing
      /\ UNCHANGED <<kind, jar, projectVars, lost>>
  BY DEF Rotate, TabAt, Refreshing
<1>2. f \in Families /\ tab[t].token \in Tokens /\ tab[t].token.family = f
  BY <1>1, TokenFamily
<1>3. CASE ~Rotates(f, n)
  <2> DEFINE v == [tab[t] EXCEPT !.pc = "classify", !.inTime = session[f].live /\ session[f].grace]
  <2>1. UNCHANGED <<kind, session, minted, spent, jar, projectVars, lost>>
    BY <1>1, <1>3 DEF Rotate
  <2>2. /\ tab[t] \in Tab /\ session[f] \in Session /\ tab \in [Tabs -> Tab]
        /\ tab' = [tab EXCEPT ![t].pc = "classify", ![t].inTime = session[f].live /\ session[f].grace]
    BY <1>2, <1>3, SessionTypes DEF SessionIInv, Rotate
  <2>3. (session[f].live /\ session[f].grace) \in BOOLEAN
    OBVIOUS
  <2>4. tab' = [tab EXCEPT ![t] = v]
    BY <2>2
  <2>5. v \in Tab /\ v.pc = "classify" /\ v.family = f /\ v.token = tab[t].token /\ v.answer = tab[t].answer
    BY <2>2, <2>3 DEF Tab
  <2> HIDE DEF v
  <2>6. v.pc \in Refreshing /\ ~Rotates(v.family, v.token.n)
    BY <1>3, <2>5 DEF Refreshing
  <2> HIDE DEF f, n
  <2> QED
    BY <1>1, <2>1, <2>4, <2>5, <2>6, GoesOn DEF f
<1>4. CASE Rotates(f, n)
  <2> DEFINE w(k) == [Quiet EXCEPT !.pc = "answer", !.answer = k]
             v == IF Answers(t, new) THEN w(new) ELSE w(NoToken)
  <2>1. /\ minted[f] <= MaxExchanges
        /\ session' = [session EXCEPT ![f] = s]
        /\ minted' = [minted EXCEPT ![f] = minted[f] + 1]
        /\ spent' = spent \cup {tab[t].token}
        /\ Answers(t, new) \/ Clears(t)
    BY <1>4 DEF Rotate
  <2>2. /\ MaxExchanges \in Nat /\ minted \in [Families -> 0..MaxExchanges + 1] /\ session[f] \in Session
        /\ minted[f] \in 0..MaxExchanges
    BY <1>2, <2>1, TokenFacts, SessionTypes DEF SessionIInv
  <2>3. n = minted[f] /\ n \in 1..MaxExchanges + 1
    BY <1>2, <1>4, TokenFacts DEF Rotates, SessionIInv, LastIsCurrent
  <2>4. s \in Session /\ s.current = minted[f] + 1
    <3>1. n \in 0..MaxExchanges + 1 /\ minted[f] + 1 \in 0..MaxExchanges + 1
      BY <2>2, <2>3
    <3>2. s = [session[f] EXCEPT !.current = minted[f] + 1, !.previous = n, !.grace = TRUE]
      BY DEF Exchanged
    <3> HIDE DEF s, n
    <3> QED
      BY <2>2, <3>1, <3>2 DEF Session
  <2>5. new \in Tokens
    BY <1>2, <2>2, TokenFacts
  <2>6. tab[t].token = [family |-> f, n |-> n]
    BY <1>2, TokenFacts
  <2>7. \A u \in Tabs : tab[u].answer # NoToken => tab[u].answer.family # f
    <3>1. SUFFICES ASSUME NEW u \in Tabs, tab[u].answer # NoToken, tab[u].answer.family = f
                   PROVE  FALSE
      OBVIOUS
    <3>2. tab[u].answer.n = minted[f] /\ tab[u].answer \in Tokens /\ tab[t].token # tab[u].answer
      BY <3>1, SessionTypes DEF SessionIInv, TabOK, Delivers, Tab
    <3> QED
      BY <2>3, <2>6, <3>1, <3>2, TokenFacts
  <2>8. \A u \in Tabs \ {t} : TabAt(u, "start") => tab[u].family # f
    BY DEF SessionIInv, TabOK, Starts
  <2>9. closing = "done" => f \in late
    BY <1>2, <1>4 DEF SessionIInv, ClosedOK, Rotates
  <2>10. SpentIsPast'
    <3>1. \A k \in Tokens : k.n < minted'[k.family] <=> k.n < minted[k.family] \/ k = tab[t].token
      <4>1. SUFFICES ASSUME NEW k \in Tokens
                     PROVE  k.n < minted'[k.family] <=> k.n < minted[k.family] \/ k = tab[t].token
        OBVIOUS
      <4>2. CASE k.family = f
        <5>1. minted'[k.family] = minted[f] + 1 /\ k.n \in Nat
          BY <1>2, <2>1, <2>2, <4>2, TokenFacts
        <5>2. k = tab[t].token <=> k.n = minted[f]
          BY <2>3, <2>6, <4>2, TokenFacts
        <5> QED
          BY <2>2, <4>2, <5>1, <5>2
      <4>3. CASE k.family # f
        BY <1>2, <2>1, <2>2, <4>3, TokenFacts
      <4> QED
        BY <4>2, <4>3
    <3>2. spent = {k \in Tokens : k.n < minted[k.family]}
      BY DEF SessionIInv, SpentIsPast
    <3>3. spent' = {k \in Tokens : k.n < minted'[k.family]}
      BY <1>2, <2>1, <3>1, <3>2
    <3> QED
      BY <3>3 DEF SpentIsPast, Tokens
  <2> HIDE DEF new
  <2>11. \A k \in {NoToken, new} : /\ w(k) \in Tab /\ w(k).token = NoToken /\ w(k).family = NoToken
                                   /\ w(k).conflict = FALSE /\ w(k).answer = k /\ w(k).pc = "answer"
    BY <2>5 DEF Quiet, Tab
  <2>12. tab' = [tab EXCEPT ![t] = v]
    BY <2>1 DEF Answers, Clears
  <2>13. /\ v \in Tab /\ v.token = NoToken /\ v.family = NoToken /\ ~v.conflict
         /\ v.answer \in {NoToken, new} /\ v.pc = "answer"
    BY <2>11
  <2> HIDE DEF s, w, v
  <2>14. JarOK'
    <3>1. TabAt(t, "answer")'
      BY <2>12, <2>13, SessionTypes DEF SessionIInv, TabAt
    <3>2. jar # NoToken => jar.family \in Families /\ jar \in Tokens /\ jar.n <= minted[jar.family]
      BY JarFacts
    <3>3. jar # NoToken => jar.n <= minted'[jar.family]
      BY <1>2, <2>1, <2>2, <3>2, TokenFacts
    <3> QED
      BY <1>1, <3>1, <3>3 DEF JarOK, Handed
  <2>15. v.answer \in {NoToken, [family |-> f, n |-> minted[f] + 1]} /\ v.pc \in {"idle", "answer"}
    BY <2>13 DEF new
  <2> HIDE DEF f, n
  <2> QED
    BY <1>1, <1>2, <2>1, <2>4, <2>7, <2>8, <2>9, <2>10, <2>12, <2>13, <2>14, <2>15, MintStep
<1> QED
  BY <1>3, <1>4

(* The end of a session.                                                     *)
LEMMA RevokedWanes ==
  ASSUME SessionIInv, NEW f \in Families, session' = Revoked(f)
  PROVE  Wanes
<1>1. session \in [Families -> Session]
  BY SessionTypes DEF SessionIInv
<1>2. Ended(f) \in Session /\ Ended(f).current = session[f].current /\ Ended(f).live = FALSE /\ Ended(f).revoked = TRUE
  <2>1. Ended(f) = [NoSession EXCEPT !.current = session[f].current, !.revoked = TRUE]
    BY DEF Ended
  <2>2. session[f].current \in 0..MaxExchanges + 1
    BY <1>1 DEF Session
  <2> QED
    BY <2>1, <2>2, NoSessionFacts DEF Session
<1>3. session' = [session EXCEPT ![f] = Ended(f)]
  BY DEF Revoked
<1> QED
  BY <1>1, <1>2, <1>3 DEF Wanes

LEMMA RevokeReusedStep ==
  ASSUME SessionIInv, NEW t \in Tabs, RevokeReused(t)
  PROVE  SessionIInv'
<1>1. tab[t].pc = "revoke" /\ tab[t].pc \in Refreshing
  BY DEF RevokeReused, TabAt, Refreshing
<1>2. session' = Revoked(tab[t].family) /\ Clears(t) /\ UNCHANGED <<kind, minted, spent, jar, projectVars, lost>>
  BY DEF RevokeReused
<1>3. Wanes
  BY <1>1, <1>2, TokenFamily, RevokedWanes
<1> QED
  BY <1>1, <1>2, <1>3, ClearsStep

LEMMA RefreshFailsStep ==
  ASSUME SessionIInv, NEW t \in Tabs, RefreshFails(t)
  PROVE  SessionIInv'
<1>1. /\ tab[t].pc # "answer" /\ Clears(t) /\ UNCHANGED session
      /\ UNCHANGED <<kind, minted, spent, jar, projectVars, lost>>
  BY DEF RefreshFails
<1> QED
  BY <1>1, Unwaned, ClearsStep

LEMMA BeginLogoutStep ==
  ASSUME SessionIInv, NEW t \in Tabs, BeginLogout(t)
  PROVE  SessionIInv'
<1> DEFINE f == IF kind = "project" \/ jar = NoToken THEN NoToken ELSE jar.family
           v == [Quiet EXCEPT !.pc = "logout", !.family = f]
<1>1. /\ tab[t].pc = "idle" /\ tab[t].pc # "answer" /\ UNCHANGED session
      /\ UNCHANGED <<kind, minted, spent, jar, projectVars, lost>>
      /\ tab' = [tab EXCEPT ![t] = v]
  BY DEF BeginLogout, TabAt
<1>2. f \in Families \cup {NoToken} /\ \A u \in Tabs : TabAt(u, "start") => f # tab[u].family
  BY JarFacts, TokenFacts DEF SessionIInv, TabOK, Starts
<1> HIDE DEF f
<1>3. /\ v \in Tab /\ v.pc = "logout" /\ v.pc # "start" /\ v.family = f /\ v.token = NoToken /\ v.answer = NoToken
  BY <1>2 DEF Quiet, Tab
<1> HIDE DEF v
<1>4. tab'[t] = v /\ Wanes
  BY <1>1, Unwaned, SessionTypes DEF SessionIInv
<1>5. Starts(t)' /\ Refreshes(t)'
  BY <1>3, <1>4 DEF Starts, Refreshes, TabAt, Handed, Refreshing
<1>6. \A u \in Tabs \ {t} : TabAt(u, "start") => v.family # tab[u].family
  BY <1>2, <1>3
<1> QED
  BY <1>1, <1>3, <1>4, <1>5, <1>6, TabStep

LEMMA LogoutStep ==
  ASSUME SessionIInv, NEW t \in Tabs, Logout(t)
  PROVE  SessionIInv'
<1>1. /\ tab[t].pc # "answer" /\ Clears(t) /\ UNCHANGED <<kind, minted, spent, jar, projectVars, lost>>
  BY DEF Logout, TabAt
<1>2. Wanes
  <2>1. CASE UNCHANGED session
    BY <2>1, Unwaned
  <2>2. CASE tab[t].family # NoToken /\ session' = Revoked(tab[t].family)
    <3>1. tab[t].family \in Families
      BY <2>2, SessionTypes DEF SessionIInv, Tab
    <3> QED
      BY <2>2, <3>1, RevokedWanes
  <2> QED
    BY <2>1, <2>2 DEF Logout
<1> QED
  BY <1>1, <1>2, ClearsStep

(* An answer reaches the browser, or does not.                               *)
LEMMA AnswerStep ==
  ASSUME SessionIInv, NEW t \in Tabs, ReceiveAnswer(t) \/ LoseAnswer(t)
  PROVE  SessionIInv'
<1>1. /\ tab' = [tab EXCEPT ![t] = Quiet] /\ tab[t].pc = "answer"
      /\ UNCHANGED <<kind, session, minted, spent, open, closing, late>>
      /\ \/ jar' = tab[t].answer /\ UNCHANGED lost
         \/ UNCHANGED jar /\ lost' = TRUE
  BY DEF ReceiveAnswer, LoseAnswer, TabAt, projectVars
<1>2. /\ tab' \in [Tabs -> Tab] /\ tab'[t] = Quiet /\ \A u \in Tabs \ {t} : tab'[u] = tab[u]
      /\ tab \in [Tabs -> Tab]
  BY <1>1, QuietFacts, SessionTypes DEF SessionIInv
<1>3. SessionTypeOK'
  <2>1. \A u \in Tabs : tab'[u].conflict => tab'[u].answer = NoToken
    BY <1>2, QuietFacts, SessionTypes DEF SessionIInv
  <2>2. jar' \in Tokens \cup {NoToken} /\ lost' \in BOOLEAN
    BY <1>1, <1>2, SessionTypes DEF SessionIInv, Tab
  <2>3. /\ kind' \in {"project", "management"} /\ session' \in [Families -> Session]
        /\ minted' \in [Families -> 0..MaxExchanges + 1] /\ spent' \subseteq Tokens
        /\ open' \in BOOLEAN /\ closing' \in {"no", "row", "done"} /\ late' \subseteq Families
    BY <1>1, SessionTypes DEF SessionIInv
  <2> QED
    BY <1>2, <2>1, <2>2, <2>3 DEF SessionTypeOK, Session, Tab
<1>4. SpentIsPast' /\ \A f \in Families : LastIsCurrent(f)'
  BY <1>1 DEF SessionIInv, SpentIsPast, LastIsCurrent, Tokens
<1>5. tab[t].answer # NoToken =>
        /\ tab[t].answer.n = minted[tab[t].answer.family] /\ tab[t].answer \in Tokens
        /\ tab[t].answer.n \in Nat
  BY <1>2, TokenFacts DEF SessionIInv, TabOK, Delivers, Tab
<1>6. JarOK'
  <2>1. CASE jar' = tab[t].answer
    BY <1>1, <1>5, <2>1 DEF JarOK, Handed
  <2>2. CASE UNCHANGED jar /\ lost'
    BY <1>1, <2>2 DEF SessionIInv, JarOK, Handed
  <2> QED
    BY <1>1, <2>1, <2>2
<1>7. ClosedOK'
  BY <1>1, <1>2, QuietFacts DEF SessionIInv, ClosedOK, TabAt, LiveSession
<1>8. ASSUME NEW u \in Tabs
      PROVE  TabOK(u)'
  <2>1. TabOK(u) /\ TabOK(t)
    BY DEF SessionIInv
  <2>2. CASE u = t
    <3>1. tab'[u] = Quiet
      BY <1>2, <2>2
    <3> QED
      BY <3>1, QuietFacts DEF TabOK, Delivers, Starts, Refreshes, TabAt, Handed, Refreshing
  <2>3. CASE u # t
    <3>1. tab'[u] = tab[u]
      BY <1>2, <2>3
    <3>2. Delivers(u)'
      <4> DEFINE k == tab[u].answer
      <4>1. SUFFICES ASSUME k # NoToken
                     PROVE  /\ tab'[u].pc = "answer" /\ k.n = minted'[k.family] /\ jar' # k
                            /\ \A w \in Tabs : tab'[w].token # k /\ (tab'[w].answer = k => w = u)
        BY <3>1 DEF Delivers, TabAt
      <4>2. /\ tab[u].pc = "answer" /\ k.n = minted[k.family] /\ jar # k
            /\ \A w \in Tabs : tab[w].token # k /\ (tab[w].answer = k => w = u)
        BY <2>1, <4>1 DEF TabOK, Delivers, TabAt
      <4> HIDE DEF k
      <4>3. jar' # k
        BY <1>1, <2>3, <4>2
      <4> QED
        BY <1>1, <1>2, <3>1, <4>1, <4>2, <4>3, QuietFacts
    <3>3. Starts(u)'
      <4>1. tab[u].pc = "start" => tab[u].family \in Families /\ \A w \in Tabs : tab[w].family = tab[u].family => w = u
        BY <2>1 DEF TabOK, Starts, TabAt
      <4>2. tab[u].pc = "start" => \A w \in Tabs : tab'[w].family = tab[u].family => w = u
        BY <1>2, <4>1, QuietFacts, TokenFacts
      <4> QED
        BY <1>1, <2>1, <3>1, <4>2 DEF TabOK, Starts, TabAt
    <3>4. Refreshes(u)'
      BY <1>1, <2>1, <3>1 DEF TabOK, Refreshes, Handed, Rotates, LiveSession
    <3> QED
      BY <3>2, <3>3, <3>4 DEF TabOK
  <2> QED
    BY <2>2, <2>3
<1> QED
  BY <1>3, <1>4, <1>6, <1>7, <1>8 DEF SessionIInv

LEMMA ExpiryStep ==
  ASSUME SessionIInv, NEW f \in Families, GracePasses(f) \/ SessionExpires(f)
  PROVE  SessionIInv'
<1>1. UNCHANGED <<kind, minted, spent, jar, tab, open, closing, late, lost>>
  BY DEF GracePasses, SessionExpires, projectVars
<1>2. session \in [Families -> Session] /\ session[f] \in Session
  BY SessionTypes DEF SessionIInv
<1>3. Wanes
  <2>1. CASE session' = [session EXCEPT ![f].grace = FALSE]
    BY <1>2, <2>1 DEF Wanes, Session
  <2>2. CASE session' = [session EXCEPT ![f].live = FALSE, ![f].grace = FALSE]
    BY <1>2, <2>2 DEF Wanes, Session
  <2> QED
    BY <2>1, <2>2 DEF GracePasses, SessionExpires
<1>4. SessionTypeOK'
  <2>1. session' \in [Families -> Session]
    BY <1>3 DEF Wanes
  <2> QED
    BY <1>1, <2>1 DEF SessionIInv, SessionTypeOK, Session, Tokens
<1>5. ClosedOK'
  BY <1>1, <1>3 DEF SessionIInv, ClosedOK, Wanes, LiveSession, TabAt
<1> QED
  BY <1>1, <1>3, <1>4, <1>5, TimeStep

LEMMA ProjectStep ==
  ASSUME SessionIInv, CloseProject \/ RevokeProjectSessions \/ ReopenProject
  PROVE  SessionIInv'
<1>1. UNCHANGED <<kind, minted, spent, jar, tab, lost>>
  BY DEF CloseProject, RevokeProjectSessions, ReopenProject
<1>2. session \in [Families -> Session] /\ minted \in [Families -> 0..MaxExchanges + 1]
  BY SessionTypes DEF SessionIInv
<1> DEFINE revoked == [f \in Families |-> IF minted[f] > 0 THEN Ended(f) ELSE session[f]]
<1>3. ASSUME session' = revoked
      PROVE  Wanes /\ \A f \in Families : ~LiveSession(f)'
  <2>1. ASSUME NEW f \in Families
        PROVE  /\ session'[f] \in Session /\ session'[f].current = session[f].current
               /\ (session'[f].live => session[f].live) /\ (session[f].revoked => session'[f].revoked)
               /\ ~(session'[f].live /\ ~session'[f].revoked)
    <3>1. CASE minted[f] > 0
      <4>1. session'[f] = Ended(f)
        BY <1>3, <3>1
      <4>2. Ended(f) = [NoSession EXCEPT !.current = session[f].current, !.revoked = TRUE]
            /\ session[f].current \in 0..MaxExchanges + 1
        BY <1>2 DEF Ended, Session
      <4> QED
        BY <4>1, <4>2, NoSessionFacts DEF Session
    <3>2. CASE ~(minted[f] > 0)
      <4>1. session'[f] = session[f] /\ minted[f] = 0
        BY <1>2, <1>3, <3>2, TokenFacts
      <4>2. ~session[f].live
        BY <4>1 DEF SessionIInv, LastIsCurrent
      <4> QED
        BY <1>2, <4>1, <4>2
    <3> QED
      BY <3>1, <3>2
  <2>2. session' \in [Families -> Session]
    BY <1>3, <2>1
  <2> QED
    BY <2>1, <2>2 DEF Wanes, LiveSession
<1>4. session' = revoked \/ UNCHANGED session
  BY DEF CloseProject, RevokeProjectSessions, ReopenProject
<1>5. Wanes
  BY <1>3, <1>4, Unwaned
<1>6. SessionTypeOK'
  <2>1. session' \in [Families -> Session]
    BY <1>5 DEF Wanes
  <2>2. {tab[t].family : t \in {u \in Tabs : TabAt(u, "start")}} \subseteq Families
    BY DEF SessionIInv, TabOK, Starts
  <2>3. open' \in BOOLEAN /\ closing' \in {"no", "row", "done"} /\ late' \subseteq Families
    BY <2>2 DEF SessionIInv, SessionTypeOK, CloseProject, RevokeProjectSessions, ReopenProject
  <2> QED
    BY <1>1, <2>1, <2>3 DEF SessionIInv, SessionTypeOK, Session, Tokens
<1>7. ClosedOK'
  <2>1. CASE CloseProject
    BY <2>1 DEF CloseProject, ClosedOK
  <2>2. CASE RevokeProjectSessions
    <3>1. SUFFICES ASSUME closing' = "done"
                   PROVE  ClosedOK'
      BY DEF ClosedOK
    <3>2. /\ session' = revoked /\ ~open /\ open' = open
          /\ late' = {tab[t].family : t \in {u \in Tabs : TabAt(u, "start")}}
      BY <2>2, <3>1 DEF RevokeProjectSessions
    <3>3. \A t \in Tabs : TabAt(t, "start")' => tab'[t].family \in late'
      BY <1>1, <3>2 DEF TabAt
    <3> QED
      BY <1>3, <3>2, <3>3 DEF ClosedOK
  <2>3. CASE ReopenProject
    BY <2>3 DEF ReopenProject, ClosedOK
  <2> QED
    BY <2>1, <2>2, <2>3
<1> QED
  BY <1>1, <1>5, <1>6, <1>7, TimeStep

LEMMA SessionsInit == SessionInit => SessionIInv
<1> SUFFICES ASSUME SessionInit PROVE SessionIInv
  OBVIOUS
<1>1. /\ session = [f \in Families |-> NoSession] /\ minted = [f \in Families |-> 0] /\ spent = {}
      /\ tab = [t \in Tabs |-> Quiet] /\ jar = NoToken /\ closing = "no" /\ open = TRUE /\ late = {} /\ lost = FALSE
      /\ kind \in {"project", "management"}
  BY DEF SessionInit
<1>2. SessionTypeOK
  <2>1. session \in [Families -> Session] /\ tab \in [Tabs -> Tab]
    BY <1>1, NoSessionFacts, QuietFacts
  <2>2. minted \in [Families -> 0..MaxExchanges + 1]
    <3>1. 0 \in 0..MaxExchanges + 1
      BY TokenFacts
    <3> QED
      BY <1>1, <3>1
  <2>3. \A t \in Tabs : tab[t].conflict => tab[t].answer = NoToken
    BY <1>1, QuietFacts
  <2> QED
    BY <1>1, <2>1, <2>2, <2>3 DEF SessionTypeOK, Session, Tab
<1>3. SpentIsPast
  BY <1>1, TokenFacts DEF SpentIsPast
<1>4. JarOK /\ ClosedOK
  BY <1>1 DEF JarOK, Handed, ClosedOK
<1>5. \A f \in Families : LastIsCurrent(f)
  BY <1>1, NoSessionFacts DEF LastIsCurrent
<1>6. \A t \in Tabs : TabOK(t)
  BY <1>1, QuietFacts DEF TabOK, Delivers, Starts, Refreshes, TabAt, Handed, Refreshing
<1> QED
  BY <1>2, <1>3, <1>4, <1>5, <1>6 DEF SessionIInv

LEMMA SessionsStep == SessionIInv /\ [SessionNext]_sessionVars => SessionIInv'
<1> SUFFICES ASSUME SessionIInv, [SessionNext]_sessionVars PROVE SessionIInv'
  OBVIOUS
<1>1. ASSUME NEW t \in Tabs, BeginLogin(t) \/ SwitchToProject(t)
      PROVE  SessionIInv'
  BY <1>1, TakesStep DEF BeginLogin, SwitchToProject
<1>2. CASE UNCHANGED sessionVars
  <2>1. /\ UNCHANGED <<kind, session, minted, spent, jar, tab, lost>> /\ UNCHANGED <<open, closing, late>>
    BY <1>2 DEF sessionVars, projectVars
  <2>2. SessionTypeOK' /\ ClosedOK'
    BY <2>1 DEF SessionIInv, SessionTypeOK, ClosedOK, TabAt, LiveSession, Tokens
  <2> QED
    BY <2>1, <2>2, Unwaned, TimeStep
<1>3. ASSUME NEW t \in Tabs, BeginRefresh(t) \/ CheckMembership(t) \/ Rotate(t) \/ ClassifyRotation(t)
      PROVE  SessionIInv'
  BY <1>3, BeginRefreshStep, CheckMembershipStep, RotateStep, ClassifyStep
<1>4. ASSUME NEW t \in Tabs, StartSession(t) \/ RevokeReused(t) \/ RefreshFails(t) \/ BeginLogout(t) \/ Logout(t)
      PROVE  SessionIInv'
  BY <1>4, StartSessionStep, RevokeReusedStep, RefreshFailsStep, BeginLogoutStep, LogoutStep
<1>5. ASSUME NEW t \in Tabs, ReceiveAnswer(t) \/ LoseAnswer(t)
      PROVE  SessionIInv'
  BY <1>5, AnswerStep
<1> QED
  BY <1>1, <1>2, <1>3, <1>4, <1>5, ExpiryStep, ProjectStep DEF SessionNext

LEMMA SessionsInductive == SessionSpec => []SessionIInv
<1> QED
  BY SessionsInit, SessionsStep, PTL DEF SessionSpec

(* The sessions, the cookie and the requests under way have their types, and *)
(* a refusal brings no cookie.                                               *)
THEOREM SessionsTypes == SessionSpec => []SessionTypeOK
<1>1. SessionIInv => SessionTypeOK
  BY DEF SessionIInv
<1> QED
  BY <1>1, SessionsInductive, PTL

(* A refresh token is exchanged once; a browser that lost no answer ends up  *)
(* with the current token or none; and no family is revoked for the use of   *)
(* its current token.                                                        *)
THEOREM SessionsAreChains == SessionSpec => []TokensAreOneChain
<1> QED
  BY ChainOfTokens, SessionsInductive, PTL

(* The revocation that follows the closing of a project leaves no session,   *)
(* but for the logins that were under way.                                   *)
THEOREM SessionsEndWithProject == SessionSpec => []ClosedEndsSessions
<1>1. SessionIInv => ClosedEndsSessions
  BY DEF SessionIInv, ClosedOK, ClosedEndsSessions
<1> QED
  BY <1>1, SessionsInductive, PTL

-----------------------------------------------------------------------------
(* Signups.                                                                  *)

\* How far a call can be, by what it asks.
PhasesOf(do) ==
  Departed \cup
  CASE do = "organise" -> {"organise", "slug", "owner", "tenant", "membership", "panelSession",
                           "undoTenant", "undoOwner"}
    [] do = "enter"    -> {"enter", "memberships", "panelSession"}
    [] do = "register" -> {"register", "unique", "insert", "session"}
    [] do = "manage"   -> {"manage", "insert"}
    [] do = "login"    -> {"login", "session"}
    [] do = "google"   -> {"google"}
    [] do = "return"   -> {"return", "known", "create"}

Phases ==
  {"organise", "slug", "owner", "tenant", "membership", "panelSession", "undoTenant", "undoOwner",
   "enter", "memberships", "register", "unique", "insert", "session", "manage", "login", "google",
   "return", "known", "create"} \cup Departed

VisitType ==
  [pc : Phases, wish : Wishes, with : SUBSET Nat, own : Nat, blind : BOOLEAN, hurt : BOOLEAN]

\* Each document is that of the call that wrote it.
DocsOK(docs) == DOMAIN docs \subseteq DOMAIN visits /\ \A n \in DOMAIN docs : docs[n] = Document(n)

\* Type correctness of the calls and of the documents, sessions and consents
\* they leave.
SignupsTypeOK ==
  /\ visits \in Seq(VisitType)
  /\ DocsOK(owners) /\ DocsOK(accounts)
  /\ DOMAIN tenants \subseteq DOMAIN visits /\ \A n \in DOMAIN tenants : tenants[n] = Wish(n).slug
  /\ owning \subseteq DOMAIN visits /\ kept \subseteq DOMAIN visits /\ consents \subseteq DOMAIN visits

\* A call met the calls that were active when it began; the others before it
\* had departed.
CameAfter(n) ==
  \A m \in DOMAIN visits : m < n => m \in visits[n].with \/ visits[m].pc \in Departed

PhaseOK(n) ==
  /\ visits[n].pc \in PhasesOf(Wish(n).do)
  /\ visits[n].pc = "stopped" => visits[n].hurt

\* The documents of a registration in each of its phases. A write that failed
\* and happened, or a rollback that failed, has hurt it.
Papers(n) ==
  LET o == n \in DOMAIN owners
      t == n \in DOMAIN tenants
      m == n \in owning
      pc == visits[n].pc
  IN /\ Wish(n).do # "organise" \/ pc \in {"organise", "slug", "owner", "refused"} => ~ o /\ ~ t /\ ~ m
     /\ Wish(n).do = "organise" =>
          /\ pc = "tenant" => o /\ ~ t /\ ~ m
          /\ pc = "membership" => o /\ t /\ ~ m
          /\ pc \in {"panelSession", "done"} => o /\ t /\ m
          /\ pc = "undoTenant" => o /\ t /\ (visits[n].hurt \/ ~ m)
          /\ pc = "undoOwner" => o /\ (visits[n].hurt \/ (~ t /\ ~ m))
          /\ pc = "failed" => visits[n].hurt \/ (o = m /\ t = m)

\* From the lookup of its address on, and of its name, a registration has no
\* double that it neither met nor overlooked.
Apart(m, n) == Meets(m, n) \/ visits[m].blind \/ visits[n].blind
AddressSeen(n) == n \in DOMAIN owners \/ visits[n].pc \in {"slug", "owner"}
OneAddress(n) ==
  AddressSeen(n) =>
    \A i \in DOMAIN owners : i # n /\ owners[i].email = Wish(n).email => Apart(i, n)
SlugSeen(n) == n \in DOMAIN tenants \/ visits[n].pc \in {"owner", "tenant"}
OneSlug(n) ==
  SlugSeen(n) => \A i \in DOMAIN tenants : i # n /\ tenants[i] = Wish(n).slug => Apart(i, n)
OneUser == \A i, j \in DOMAIN accounts : accounts[i].email = accounts[j].email => i = j

\* Past the insertion of its account, a registration of a user has left it.
AccountOK(n) ==
  visits[n].pc \in {"session", "done"} /\ Wish(n).do \in {"register", "manage"} => n \in DOMAIN accounts
SessionOK(n) ==
  visits[n].pc = "done" /\ Wish(n).do \in {"organise", "enter", "register", "login"} => n \in kept

\* A registration that is past both of its lookups.
Past(i) == Wish(i).do = "organise" /\ visits[i].pc \notin {"organise", "slug", "refused"}
\* Whose document was found is such a registration; and who was refused though
\* he is registered has found another's, or was not told what there is.
FoundOK(n) ==
  /\ visits[n].pc = "memberships" =>
       /\ visits[n].own \in DOMAIN visits /\ Past(visits[n].own)
       /\ Wish(visits[n].own).email = Wish(n).email
  /\ \A m \in DOMAIN visits :
       Wish(n).do \in {"enter", "login"} /\ visits[n].pc = "refused" /\ Registered(m, n) =>
         visits[n].blind \/ \E i \in DOMAIN visits \ {m} : Past(i) /\ Wish(i).email = Wish(n).email

\* A sign-in that has used up its consent.
Used(n) == Wish(n).do = "return" /\ (visits[n].pc \in {"known", "create"} \/ visits[n].own # 0)
ConsentsOK ==
  /\ \A s \in consents : Wish(s).do = "google" /\ visits[s].pc \in Departed
  /\ \A n \in DOMAIN visits :
       Used(n) => /\ Wish(n).state \in DOMAIN visits \ consents
                  /\ visits[Wish(n).state].pc \in Departed
  /\ \A m, n \in DOMAIN visits : Used(m) /\ Used(n) /\ Wish(m).state = Wish(n).state => m = n

CallOK(n) ==
  /\ CameAfter(n) /\ PhaseOK(n) /\ Papers(n) /\ OneAddress(n) /\ OneSlug(n)
  /\ AccountOK(n) /\ SessionOK(n) /\ FoundOK(n)

\* The inductive invariant.
SignupsIInv ==
  SignupsTypeOK /\ (\A n \in DOMAIN visits : CallOK(n)) /\ OneUser /\ ConsentsOK

-----------------------------------------------------------------------------
(* The row of a call in a step.                                              *)

LEMMA PhaseTable ==
  ASSUME NEW wish \in Wishes, NEW pc \in PhasesOf(wish.do)
  PROVE  /\ pc \in Phases
         /\ pc \in {"organise", "slug", "owner", "tenant", "membership", "undoTenant", "undoOwner"} =>
              wish.do = "organise"
         /\ pc \in {"enter", "memberships"} => wish.do = "enter"
         /\ pc = "panelSession" => wish.do \in {"organise", "enter"}
         /\ pc \in {"register", "unique"} => wish.do = "register"
         /\ pc = "manage" => wish.do = "manage"
         /\ pc = "insert" => wish.do \in {"register", "manage"}
         /\ pc = "login" => wish.do = "login"
         /\ pc = "session" => wish.do \in {"register", "login"}
         /\ pc = "google" => wish.do = "google"
         /\ pc \in {"return", "known", "create"} => wish.do = "return"
<1>1. wish.do \in {"organise", "enter", "register", "manage", "login", "google", "return"}
  BY DEF Wishes
<1> QED
  BY <1>1 DEF PhasesOf, Phases, Departed

LEMMA PhasesHold ==
  ASSUME NEW do
  PROVE  /\ Departed \subseteq PhasesOf(do)
         /\ do = "organise" =>
              {"organise", "slug", "owner", "tenant", "membership", "panelSession", "undoTenant",
               "undoOwner"} \subseteq PhasesOf(do)
         /\ do = "enter" => {"enter", "memberships", "panelSession"} \subseteq PhasesOf(do)
         /\ do = "register" => {"register", "unique", "insert", "session"} \subseteq PhasesOf(do)
         /\ do = "manage" => {"manage", "insert"} \subseteq PhasesOf(do)
         /\ do = "login" => {"login", "session"} \subseteq PhasesOf(do)
         /\ do = "google" => {"google"} \subseteq PhasesOf(do)
         /\ do = "return" => {"return", "known", "create"} \subseteq PhasesOf(do)
  BY DEF PhasesOf

\* What a call asked and whom it met never changes, and it does not forget that
\* it was blind or hurt; the other calls stay as they are.
Rows(n) ==
  /\ visits' \in Seq(VisitType) /\ DOMAIN visits' = DOMAIN visits
  /\ \A k \in DOMAIN visits : visits'[k].wish = visits[k].wish /\ visits'[k].with = visits[k].with
  /\ \A k \in DOMAIN visits \ {n} : visits'[k] = visits[k]
  /\ (visits[n].blind => visits'[n].blind) /\ (visits[n].hurt => visits'[n].hurt)

Moved(n, pc, own, blind, hurt) ==
  /\ Rows(n)
  /\ visits'[n].pc = pc /\ visits'[n].own = own
  /\ visits'[n].blind = blind /\ visits'[n].hurt = hurt

LEMMA RowChanged ==
  ASSUME visits \in Seq(VisitType), NEW n \in DOMAIN visits, NEW v \in VisitType,
         visits' = [visits EXCEPT ![n] = v],
         v.wish = visits[n].wish, v.with = visits[n].with,
         visits[n].blind => v.blind, visits[n].hurt => v.hurt
  PROVE  Moved(n, v.pc, v.own, v.blind, v.hurt)
<1>1. visits' \in Seq(VisitType) /\ DOMAIN visits' = DOMAIN visits /\ visits'[n] = v
  OBVIOUS
<1>2. \A k \in DOMAIN visits \ {n} : visits'[k] = visits[k]
  OBVIOUS
<1> QED
  BY <1>1, <1>2 DEF Moved, Rows

LEMMA RowMoves ==
  ASSUME visits \in Seq(VisitType), NEW n \in DOMAIN visits, NEW p \in Phases, NEW i \in Nat
  PROVE  /\ Turns(n, p) => Moved(n, p, visits[n].own, visits[n].blind, visits[n].hurt)
         /\ visits' = [visits EXCEPT ![n].pc = p, ![n].own = i] =>
              Moved(n, p, i, visits[n].blind, visits[n].hurt)
         /\ visits' = [visits EXCEPT ![n].pc = p, ![n].blind = TRUE] =>
              Moved(n, p, visits[n].own, TRUE, visits[n].hurt)
         /\ visits' = [visits EXCEPT ![n].pc = p, ![n].hurt = TRUE] =>
              Moved(n, p, visits[n].own, visits[n].blind, TRUE)
<1>1. visits[n] \in VisitType
  OBVIOUS
<1>2. Turns(n, p) => Moved(n, p, visits[n].own, visits[n].blind, visits[n].hurt)
  <2> DEFINE v == [visits[n] EXCEPT !.pc = p]
  <2>1. /\ v \in VisitType /\ v.wish = visits[n].wish /\ v.with = visits[n].with
        /\ v.pc = p /\ v.own = visits[n].own /\ v.blind = visits[n].blind /\ v.hurt = visits[n].hurt
    BY <1>1 DEF VisitType
  <2>2. Turns(n, p) => visits' = [visits EXCEPT ![n] = v]
    BY DEF Turns
  <2> HIDE DEF v
  <2> QED
    BY <2>1, <2>2, RowChanged
<1>3. visits' = [visits EXCEPT ![n].pc = p, ![n].own = i] =>
        Moved(n, p, i, visits[n].blind, visits[n].hurt)
  <2> DEFINE v == [visits[n] EXCEPT !.pc = p, !.own = i]
  <2>1. /\ v \in VisitType /\ v.wish = visits[n].wish /\ v.with = visits[n].with
        /\ v.pc = p /\ v.own = i /\ v.blind = visits[n].blind /\ v.hurt = visits[n].hurt
    BY <1>1 DEF VisitType
  <2>2. visits' = [visits EXCEPT ![n].pc = p, ![n].own = i] => visits' = [visits EXCEPT ![n] = v]
    OBVIOUS
  <2> HIDE DEF v
  <2> QED
    BY <2>1, <2>2, RowChanged
<1>4. visits' = [visits EXCEPT ![n].pc = p, ![n].blind = TRUE] =>
        Moved(n, p, visits[n].own, TRUE, visits[n].hurt)
  <2> DEFINE v == [visits[n] EXCEPT !.pc = p, !.blind = TRUE]
  <2>1. /\ v \in VisitType /\ v.wish = visits[n].wish /\ v.with = visits[n].with
        /\ v.pc = p /\ v.own = visits[n].own /\ v.blind = TRUE /\ v.hurt = visits[n].hurt
    BY <1>1 DEF VisitType
  <2>2. visits' = [visits EXCEPT ![n].pc = p, ![n].blind = TRUE] => visits' = [visits EXCEPT ![n] = v]
    OBVIOUS
  <2>3. (visits[n].blind => v.blind) /\ (visits[n].hurt => v.hurt)
    BY <2>1
  <2> HIDE DEF v
  <2>4. visits' = [visits EXCEPT ![n] = v] => Moved(n, v.pc, v.own, v.blind, v.hurt)
    BY <2>1, <2>3, RowChanged
  <2> QED
    BY <2>1, <2>2, <2>4 DEF Moved
<1>5. visits' = [visits EXCEPT ![n].pc = p, ![n].hurt = TRUE] =>
        Moved(n, p, visits[n].own, visits[n].blind, TRUE)
  <2> DEFINE v == [visits[n] EXCEPT !.pc = p, !.hurt = TRUE]
  <2>1. /\ v \in VisitType /\ v.wish = visits[n].wish /\ v.with = visits[n].with
        /\ v.pc = p /\ v.own = visits[n].own /\ v.blind = visits[n].blind /\ v.hurt = TRUE
    BY <1>1 DEF VisitType
  <2>2. visits' = [visits EXCEPT ![n].pc = p, ![n].hurt = TRUE] => visits' = [visits EXCEPT ![n] = v]
    OBVIOUS
  <2>3. (visits[n].blind => v.blind) /\ (visits[n].hurt => v.hurt)
    BY <2>1
  <2> HIDE DEF v
  <2>4. visits' = [visits EXCEPT ![n] = v] => Moved(n, v.pc, v.own, v.blind, v.hurt)
    BY <2>1, <2>3, RowChanged
  <2> QED
    BY <2>1, <2>2, <2>4 DEF Moved
<1> QED
  BY <1>2, <1>3, <1>4, <1>5

-----------------------------------------------------------------------------
(* A step of one call: what it leaves alone, and what it owes.               *)

Keeps(n, docs, after) ==
  /\ DOMAIN after \subseteq DOMAIN docs \cup {n}
  /\ \A k \in DOMAIN docs \ {n} : k \in DOMAIN after /\ after[k] = docs[k]
KeepsSet(n, set, after) == after \subseteq set \cup {n} /\ set \subseteq after \cup {n}

\* A call under way touches its own row and its own documents.
Mine(n) ==
  /\ visits[n].pc \notin Departed /\ Rows(n)
  /\ Keeps(n, owners, owners') /\ (n \in DOMAIN owners' => owners'[n] = Document(n))
  /\ Keeps(n, accounts, accounts') /\ (n \in DOMAIN accounts' => accounts'[n] = Document(n))
  /\ Keeps(n, tenants, tenants') /\ (n \in DOMAIN tenants' => tenants'[n] = Wish(n).slug)
  /\ KeepsSet(n, owning, owning') /\ KeepsSet(n, kept, kept')

\* It writes a document where it has looked for another before.
Looked(n) ==
  /\ AddressSeen(n)' => AddressSeen(n) \/ Holding(owners, Wish(n).email) = {} \/ visits'[n].blind
  /\ n \in DOMAIN owners' => n \in DOMAIN owners \/ visits[n].pc = "owner"
  /\ SlugSeen(n)' =>
       SlugSeen(n) \/ (\A t \in DOMAIN tenants : tenants[t] # Wish(n).slug) \/ visits'[n].blind
  /\ n \in DOMAIN tenants' => n \in DOMAIN tenants \/ visits[n].pc = "tenant"
  /\ n \in DOMAIN accounts' => n \in DOMAIN accounts \/ Holding(accounts, Wish(n).email) = {}

Stays(n) ==
  /\ PhaseOK(n)' /\ Papers(n)' /\ AccountOK(n)' /\ SessionOK(n)' /\ FoundOK(n)'
  /\ Past(n) => Past(n)'

\* A consent is used up, or given by a call that ends with it.
Consenting(n) ==
  \/ /\ consents' \subseteq consents
     /\ Used(n)' => \/ Used(n)
                    \/ Wish(n).do = "return" /\ Wish(n).state \in consents \ consents'
  \/ consents' = consents \cup {n} /\ Wish(n).do = "google" /\ visits'[n].pc \in Departed

LEMMA StepTypes ==
  ASSUME SignupsTypeOK, NEW n \in DOMAIN visits, Mine(n), Consenting(n)
  PROVE  SignupsTypeOK'
<1>1. /\ DOMAIN visits' = DOMAIN visits /\ visits' \in Seq(VisitType)
      /\ \A k \in DOMAIN visits : Document(k)' = Document(k) /\ Wish(k)' = Wish(k)
  BY DEF Mine, Rows, Document, Wish
<1>2. DocsOK(owners)'
  BY <1>1 DEF SignupsTypeOK, DocsOK, Mine, Keeps
<1>3. DocsOK(accounts)'
  BY <1>1 DEF SignupsTypeOK, DocsOK, Mine, Keeps
<1>4. DOMAIN tenants' \subseteq DOMAIN visits' /\ \A k \in DOMAIN tenants' : tenants'[k] = Wish(k)'.slug
  BY <1>1 DEF SignupsTypeOK, Mine, Keeps
<1>5. /\ owning' \subseteq DOMAIN visits' /\ kept' \subseteq DOMAIN visits'
      /\ consents' \subseteq DOMAIN visits'
  BY <1>1 DEF SignupsTypeOK, Mine, KeepsSet, Consenting
<1> QED
  BY <1>1, <1>2, <1>3, <1>4, <1>5 DEF SignupsTypeOK

\* Two calls that are both under way have met.
LEMMA ActiveMeet ==
  ASSUME SignupsIInv, NEW m \in DOMAIN visits, NEW n \in DOMAIN visits, m # n,
         visits[m].pc \notin Departed, visits[n].pc \notin Departed
  PROVE  Meets(m, n)
<1>1. m \in Nat /\ n \in Nat
  BY DEF SignupsIInv, SignupsTypeOK
<1>2. CameAfter(m) /\ CameAfter(n)
  BY DEF SignupsIInv, CallOK
<1>3. m < n \/ n < m
  BY <1>1
<1> QED
  BY <1>2, <1>3 DEF CameAfter, Meets

LEMMA StepAddress ==
  ASSUME SignupsIInv, NEW n \in DOMAIN visits, Mine(n), Looked(n), NEW k \in DOMAIN visits
  PROVE  OneAddress(k)'
<1>1. /\ \A j \in DOMAIN visits : CallOK(j)
      /\ DOMAIN owners \subseteq DOMAIN visits /\ \A j \in DOMAIN owners : owners[j] = Document(j)
      /\ \A j \in DOMAIN owners' : j \in DOMAIN visits /\ owners'[j] = Document(j)
      /\ \A j \in DOMAIN owners' : j # n => j \in DOMAIN owners
      /\ \A j \in DOMAIN visits : Wish(j)' = Wish(j) /\ Document(j).email = Wish(j).email
  BY DEF SignupsIInv, SignupsTypeOK, DocsOK, Mine, Keeps, Rows, Wish, Document
<1>2. \A i, j \in DOMAIN visits : Apart(i, j) => Apart(i, j)' /\ Apart(j, i)'
  BY DEF Apart, Meets, Mine, Rows
<1>3. \A j \in DOMAIN visits \ {n} : AddressSeen(j)' => AddressSeen(j)
  BY DEF AddressSeen, Mine, Keeps, Rows
<1> SUFFICES ASSUME AddressSeen(k)', NEW i \in DOMAIN owners', i # k, Wish(i).email = Wish(k).email
             PROVE  Apart(i, k)'
  BY <1>1 DEF OneAddress
<1>4. CASE i # n
  <2>1. i \in DOMAIN owners /\ owners[i].email = Wish(k).email
    BY <1>1, <1>4
  <2>2. CASE AddressSeen(k)
    BY <1>1, <1>2, <2>1, <2>2 DEF CallOK, OneAddress
  <2>3. CASE ~ AddressSeen(k)
    <3>1. k = n /\ (Holding(owners, Wish(n).email) = {} \/ visits'[n].blind)
      BY <1>3, <2>3 DEF Looked
    <3>2. Holding(owners, Wish(n).email) # {}
      BY <2>1, <3>1 DEF Holding
    <3> QED
      BY <3>1, <3>2 DEF Apart
  <2> QED
    BY <2>2, <2>3
<1>5. CASE i = n
  <2>1. k # n /\ AddressSeen(k)
    BY <1>3, <1>5
  <2>2. CASE n \in DOMAIN owners
    <3>1. owners[n].email = Wish(k).email
      BY <1>1, <1>5, <2>2
    <3> QED
      BY <1>1, <1>2, <1>5, <2>1, <2>2, <3>1 DEF CallOK, OneAddress
  <2>3. CASE n \notin DOMAIN owners
    <3>1. visits[n].pc = "owner"
      BY <1>5, <2>3 DEF Looked
    <3>2. CASE k \in DOMAIN owners
      <4>1. AddressSeen(n) /\ owners[k].email = Wish(n).email
        BY <1>1, <1>5, <3>1, <3>2 DEF AddressSeen
      <4>2. Apart(k, n)
        BY <1>1, <2>1, <3>2, <4>1 DEF CallOK, OneAddress
      <4> QED
        BY <1>2, <1>5, <4>2
    <3>3. CASE k \notin DOMAIN owners
      <4>1. visits[k].pc \notin Departed /\ visits[n].pc \notin Departed
        BY <2>1, <3>1, <3>3 DEF AddressSeen, Departed
      <4>2. Meets(n, k)
        BY <2>1, <4>1, ActiveMeet
      <4> QED
        BY <1>2, <1>5, <4>2 DEF Apart
    <3> QED
      BY <3>2, <3>3
  <2> QED
    BY <2>2, <2>3
<1> QED
  BY <1>4, <1>5

LEMMA StepSlug ==
  ASSUME SignupsIInv, NEW n \in DOMAIN visits, Mine(n), Looked(n), NEW k \in DOMAIN visits
  PROVE  OneSlug(k)'
<1>1. /\ \A j \in DOMAIN visits : CallOK(j)
      /\ DOMAIN tenants \subseteq DOMAIN visits /\ \A j \in DOMAIN tenants : tenants[j] = Wish(j).slug
      /\ \A j \in DOMAIN tenants' : j \in DOMAIN visits /\ tenants'[j] = Wish(j).slug
      /\ \A j \in DOMAIN tenants' : j # n => j \in DOMAIN tenants
      /\ \A j \in DOMAIN visits : Wish(j)' = Wish(j)
  BY DEF SignupsIInv, SignupsTypeOK, Mine, Keeps, Rows, Wish
<1>2. \A i, j \in DOMAIN visits : Apart(i, j) => Apart(i, j)' /\ Apart(j, i)'
  BY DEF Apart, Meets, Mine, Rows
<1>3. \A j \in DOMAIN visits \ {n} : SlugSeen(j)' => SlugSeen(j)
  BY DEF SlugSeen, Mine, Keeps, Rows
<1> SUFFICES ASSUME SlugSeen(k)', NEW i \in DOMAIN tenants', i # k, Wish(i).slug = Wish(k).slug
             PROVE  Apart(i, k)'
  BY <1>1 DEF OneSlug
<1>4. CASE i # n
  <2>1. i \in DOMAIN tenants /\ tenants[i] = Wish(k).slug
    BY <1>1, <1>4
  <2>2. CASE SlugSeen(k)
    BY <1>1, <1>2, <2>1, <2>2 DEF CallOK, OneSlug
  <2>3. CASE ~ SlugSeen(k)
    BY <1>3, <2>1, <2>3 DEF Looked, Apart
  <2> QED
    BY <2>2, <2>3
<1>5. CASE i = n
  <2>1. k # n /\ SlugSeen(k)
    BY <1>3, <1>5
  <2>2. CASE n \in DOMAIN tenants
    <3>1. tenants[n] = Wish(k).slug
      BY <1>1, <1>5, <2>2
    <3> QED
      BY <1>1, <1>2, <1>5, <2>1, <2>2, <3>1 DEF CallOK, OneSlug
  <2>3. CASE n \notin DOMAIN tenants
    <3>1. visits[n].pc = "tenant"
      BY <1>5, <2>3 DEF Looked
    <3>2. CASE k \in DOMAIN tenants
      <4>1. SlugSeen(n) /\ tenants[k] = Wish(n).slug
        BY <1>1, <1>5, <3>1, <3>2 DEF SlugSeen
      <4>2. Apart(k, n)
        BY <1>1, <2>1, <3>2, <4>1 DEF CallOK, OneSlug
      <4> QED
        BY <1>2, <1>5, <4>2
    <3>3. CASE k \notin DOMAIN tenants
      <4>1. visits[k].pc \notin Departed /\ visits[n].pc \notin Departed
        BY <2>1, <3>1, <3>3 DEF SlugSeen, Departed
      <4>2. Meets(n, k)
        BY <2>1, <4>1, ActiveMeet
      <4> QED
        BY <1>2, <1>5, <4>2 DEF Apart
    <3> QED
      BY <3>2, <3>3
  <2> QED
    BY <2>2, <2>3
<1> QED
  BY <1>4, <1>5

LEMMA StepUser ==
  ASSUME SignupsIInv, NEW n \in DOMAIN visits, Mine(n), Looked(n)
  PROVE  OneUser'
<1>1. /\ \A j \in DOMAIN accounts : accounts[j] = Document(j)
      /\ \A j \in DOMAIN accounts' : j \in DOMAIN visits
      /\ \A j \in DOMAIN accounts' : j # n => j \in DOMAIN accounts /\ accounts'[j] = accounts[j]
      /\ n \in DOMAIN accounts' => accounts'[n] = Document(n)
  BY DEF SignupsIInv, SignupsTypeOK, DocsOK, Mine, Keeps
<1>2. n \in DOMAIN accounts' /\ n \notin DOMAIN accounts =>
        \A j \in DOMAIN accounts : accounts[j].email # Document(n).email
  BY DEF Looked, Holding, Document
<1> QED
  BY <1>1, <1>2 DEF SignupsIInv, OneUser

\* The rows and papers of the other calls.
LEMMA StepOthers ==
  ASSUME SignupsIInv, NEW n \in DOMAIN visits, Mine(n), Stays(n), NEW k \in DOMAIN visits
  PROVE  CameAfter(k)' /\ PhaseOK(k)' /\ Papers(k)' /\ AccountOK(k)' /\ SessionOK(k)'
<1>1. /\ DOMAIN visits' = DOMAIN visits /\ visits[n].pc \notin Departed
      /\ \A j \in DOMAIN visits : visits'[j].with = visits[j].with
      /\ \A j \in DOMAIN visits \ {n} : visits'[j] = visits[j]
  BY DEF Mine, Rows
<1>2. CallOK(k)
  BY DEF SignupsIInv
<1>3. CameAfter(k)'
  BY <1>1, <1>2 DEF CallOK, CameAfter
<1>4. CASE k = n
  BY <1>3, <1>4 DEF Stays
<1>5. CASE k # n
  <2>1. visits'[k] = visits[k]
    BY <1>1, <1>5
  <2>2. /\ k \in DOMAIN owners' <=> k \in DOMAIN owners
        /\ k \in DOMAIN tenants' <=> k \in DOMAIN tenants
        /\ k \in DOMAIN accounts' <=> k \in DOMAIN accounts
        /\ k \in owning' <=> k \in owning
        /\ k \in kept' <=> k \in kept
    BY <1>5 DEF Mine, Keeps, KeepsSet
  <2>3. PhaseOK(k)' /\ AccountOK(k)' /\ SessionOK(k)'
    BY <1>2, <2>1, <2>2 DEF CallOK, PhaseOK, AccountOK, SessionOK, Wish
  <2>4. Papers(k)'
    BY <1>2, <2>1, <2>2 DEF CallOK, Papers, Wish
  <2> QED
    BY <1>3, <2>3, <2>4
<1> QED
  BY <1>4, <1>5

LEMMA StepFound ==
  ASSUME SignupsIInv, NEW n \in DOMAIN visits, Mine(n), Stays(n), NEW k \in DOMAIN visits
  PROVE  FoundOK(k)'
<1>1. /\ DOMAIN visits' = DOMAIN visits /\ visits[n].pc \notin Departed
      /\ \A j \in DOMAIN visits : visits'[j].with = visits[j].with /\ Wish(j)' = Wish(j)
      /\ \A j \in DOMAIN visits \ {n} : visits'[j] = visits[j]
  BY DEF Mine, Rows, Wish
<1>2. \A j \in DOMAIN visits : CallOK(j)
  BY DEF SignupsIInv
<1>3. \A j \in DOMAIN visits : Past(j) => Past(j)'
  BY <1>1 DEF Past, Stays
<1>4. CASE k = n
  BY <1>4 DEF Stays
<1>5. CASE k # n
  <2>1. visits'[k] = visits[k]
    BY <1>1, <1>5
  <2>2. FoundOK(k)
    BY <1>2 DEF CallOK
  <2>3. visits'[k].pc = "memberships" =>
          /\ visits'[k].own \in DOMAIN visits' /\ Past(visits[k].own)'
          /\ Wish(visits[k].own)'.email = Wish(k)'.email
    BY <1>1, <1>3, <2>1, <2>2 DEF FoundOK
  <2>4. ASSUME NEW m \in DOMAIN visits', (Wish(k).do \in {"enter", "login"})',
               visits'[k].pc = "refused", Registered(m, k)'
        PROVE  \/ visits'[k].blind
               \/ \E i \in DOMAIN visits' \ {m} : Past(i)' /\ (Wish(i).email = Wish(k).email)'
    <3>1. m # n
      <4>1. SUFFICES ASSUME m = n PROVE FALSE
        OBVIOUS
      <4>2. m < k /\ m \notin visits[k].with
        BY <1>1, <2>4 DEF Registered
      <4> QED
        BY <1>1, <1>2, <4>1, <4>2 DEF CallOK, CameAfter
    <3>2. Registered(m, k)
      BY <1>1, <2>1, <2>4, <3>1 DEF Registered
    <3>3. visits[k].blind \/ \E i \in DOMAIN visits \ {m} : Past(i) /\ Wish(i).email = Wish(k).email
      BY <1>1, <2>1, <2>2, <2>4, <3>2 DEF FoundOK
    <3> QED
      BY <1>1, <1>3, <2>1, <3>3
  <2>5. visits[k].own = visits'[k].own
    BY <2>1
  <2> QED
    BY <2>3, <2>4, <2>5 DEF FoundOK
<1> QED
  BY <1>4, <1>5

LEMMA StepConsents ==
  ASSUME SignupsIInv, NEW n \in DOMAIN visits, Mine(n), Consenting(n)
  PROVE  ConsentsOK'
<1>1. /\ DOMAIN visits' = DOMAIN visits /\ visits[n].pc \notin Departed
      /\ \A j \in DOMAIN visits : Wish(j)' = Wish(j)
      /\ \A j \in DOMAIN visits \ {n} : visits'[j] = visits[j]
      /\ consents \subseteq DOMAIN visits
  BY DEF Mine, Rows, Wish, SignupsIInv, SignupsTypeOK
<1>2. /\ \A s \in consents : Wish(s).do = "google" /\ visits[s].pc \in Departed
      /\ \A j \in DOMAIN visits :
           Used(j) => /\ Wish(j).state \in DOMAIN visits \ consents
                      /\ visits[Wish(j).state].pc \in Departed
      /\ \A i, j \in DOMAIN visits : Used(i) /\ Used(j) /\ Wish(i).state = Wish(j).state => i = j
  BY DEF SignupsIInv, ConsentsOK
<1>3. \A j \in DOMAIN visits \ {n} : Used(j)' <=> Used(j)
  BY <1>1 DEF Used
<1>4. \A s \in DOMAIN visits : visits[s].pc \in Departed => s # n /\ visits'[s].pc \in Departed
  BY <1>1
<1>5. CASE /\ consents' \subseteq consents
           /\ Used(n)' => \/ Used(n)
                          \/ Wish(n).do = "return" /\ Wish(n).state \in consents \ consents'
  <2>1. \A s \in consents' : Wish(s)'.do = "google" /\ visits'[s].pc \in Departed
    BY <1>1, <1>2, <1>4, <1>5
  <2>2. ASSUME NEW j \in DOMAIN visits, Used(j)'
        PROVE  Wish(j).state \in DOMAIN visits \ consents' /\ visits'[Wish(j).state].pc \in Departed
    BY <1>1, <1>2, <1>3, <1>4, <1>5, <2>2
  <2>3. ASSUME NEW i \in DOMAIN visits, NEW j \in DOMAIN visits, Used(i)', Used(j)',
               Wish(i).state = Wish(j).state
        PROVE  i = j
    BY <1>1, <1>2, <1>3, <1>5, <2>3
  <2> QED
    BY <1>1, <2>1, <2>2, <2>3 DEF ConsentsOK
<1>6. CASE consents' = consents \cup {n} /\ Wish(n).do = "google" /\ visits'[n].pc \in Departed
  <2>1. ~ Used(n)' /\ ~ Used(n)
    BY <1>1, <1>6 DEF Used
  <2>2. \A s \in consents' : Wish(s)'.do = "google" /\ visits'[s].pc \in Departed
    BY <1>1, <1>2, <1>4, <1>6
  <2>3. ASSUME NEW j \in DOMAIN visits, Used(j)'
        PROVE  Wish(j).state \in DOMAIN visits \ consents' /\ visits'[Wish(j).state].pc \in Departed
    BY <1>1, <1>2, <1>3, <1>4, <1>6, <2>1, <2>3
  <2>4. ASSUME NEW i \in DOMAIN visits, NEW j \in DOMAIN visits, Used(i)', Used(j)',
               Wish(i).state = Wish(j).state
        PROVE  i = j
    BY <1>1, <1>2, <1>3, <2>1, <2>4
  <2> QED
    BY <1>1, <2>2, <2>3, <2>4 DEF ConsentsOK
<1> QED
  BY <1>5, <1>6 DEF Consenting

\* Whatever a call does, a step that keeps to its own and stays in its phases
\* keeps the invariant.
LEMMA StepHolds ==
  ASSUME SignupsIInv, NEW n \in DOMAIN visits, Mine(n), Looked(n), Stays(n), Consenting(n)
  PROVE  SignupsIInv'
<1>1. SignupsTypeOK'
  BY StepTypes DEF SignupsIInv
<1>2. \A k \in DOMAIN visits : CallOK(k)'
  BY StepAddress, StepSlug, StepOthers, StepFound DEF CallOK
<1>3. DOMAIN visits' = DOMAIN visits
  BY DEF Mine, Rows
<1> QED
  BY <1>1, <1>2, <1>3, StepUser, StepConsents DEF SignupsIInv

LEMMA Here ==
  ASSUME SignupsIInv, NEW n \in DOMAIN visits
  PROVE  /\ visits \in Seq(VisitType) /\ visits[n] \in VisitType /\ n \in Nat \ {0}
         /\ Wish(n) \in Wishes /\ Wish(n) = visits[n].wish
         /\ visits[n].pc \in PhasesOf(Wish(n).do)
         /\ CallOK(n)
<1>1. visits \in Seq(VisitType) /\ CallOK(n)
  BY DEF SignupsIInv, SignupsTypeOK
<1>2. visits[n] \in VisitType /\ n \in Nat \ {0}
  BY <1>1
<1>3. Wish(n) \in Wishes /\ Wish(n) = visits[n].wish
  BY <1>2 DEF Wish, VisitType
<1> QED
  BY <1>1, <1>2, <1>3 DEF CallOK, PhaseOK

LEMMA QuietStep ==
  ASSUME SignupsIInv, NEW n \in DOMAIN visits, visits[n].pc \notin Departed, Rows(n),
         UNCHANGED <<owners, tenants, owning, accounts, kept>>
  PROVE  Mine(n)
  BY DEF SignupsIInv, SignupsTypeOK, DocsOK, Mine, Keeps, KeepsSet

LEMMA Unsought ==
  ASSUME NEW n, visits'[n].pc # "memberships",
         visits'[n].pc # "refused" \/ visits'[n].wish.do \notin {"enter", "login"}
  PROVE  FoundOK(n)'
  BY DEF FoundOK, Wish

LEMMA NoConsent ==
  ASSUME NEW n \in DOMAIN visits, Rows(n), UNCHANGED consents,
         Wish(n).do # "return" \/ (visits'[n].pc \in Departed /\ visits'[n].own = visits[n].own)
  PROVE  Consenting(n)
  BY DEF Consenting, Used, Rows, Wish, Departed

LEMMA CheckEmailStep ==
  ASSUME SignupsIInv, NEW n \in DOMAIN visits, CheckEmail(n)
  PROVE  Mine(n) /\ Looked(n) /\ Stays(n) /\ Consenting(n)
<1>1. /\ visits[n].pc = "organise" /\ Wish(n).do = "organise"
      /\ UNCHANGED <<owners, tenants, owning, accounts, consents, kept>>
  BY Here, PhaseTable DEF CheckEmail, Stands
<1>2. /\ Rows(n) /\ visits'[n].pc \in {"slug", "refused"}
      /\ visits'[n].pc = "slug" => Holding(owners, Wish(n).email) = {} \/ visits'[n].blind
  <2>1. "slug" \in Phases /\ "refused" \in Phases /\ 0 \in Nat
    BY DEF Phases, Departed
  <2>2. \/ Turns(n, "refused")
        \/ Holding(owners, Wish(n).email) = {} /\ Turns(n, "slug")
        \/ visits' = [visits EXCEPT ![n].pc = "slug", ![n].blind = TRUE]
    BY DEF CheckEmail, Taken
  <2> QED
    BY <2>1, <2>2, Here, RowMoves DEF Moved
<1>3. /\ visits'[n].wish = Wish(n) /\ Papers(n) /\ visits[n].pc \notin Departed
  BY <1>1, <1>2, Here DEF Rows, CallOK, Wish, Departed
<1>4. Mine(n)
  BY <1>1, <1>2, <1>3, QuietStep
<1>5. Looked(n)
  BY <1>1, <1>2, <1>3 DEF Looked, AddressSeen, SlugSeen, Papers
<1>6. PhaseOK(n)' /\ AccountOK(n)' /\ SessionOK(n)'
  BY <1>1, <1>2, <1>3, PhasesHold DEF PhaseOK, AccountOK, SessionOK, Wish, Departed
<1>7. Papers(n)'
  BY <1>1, <1>2, <1>3 DEF Papers, Wish
<1>8. FoundOK(n)' /\ (Past(n) => Past(n)')
  BY <1>1, <1>2, <1>3, Unsought DEF Past
<1>9. Consenting(n)
  BY <1>1, <1>2, NoConsent
<1> QED
  BY <1>4, <1>5, <1>6, <1>7, <1>8, <1>9 DEF Stays

LEMMA CheckSlugStep ==
  ASSUME SignupsIInv, NEW n \in DOMAIN visits, CheckSlug(n)
  PROVE  Mine(n) /\ Looked(n) /\ Stays(n) /\ Consenting(n)
<1>1. /\ visits[n].pc = "slug" /\ Wish(n).do = "organise"
      /\ UNCHANGED <<owners, tenants, owning, accounts, consents, kept>>
  BY Here, PhaseTable DEF CheckSlug, Stands
<1>2. /\ Rows(n) /\ visits'[n].pc \in {"owner", "refused"}
      /\ visits'[n].pc = "owner" =>
           (\A t \in DOMAIN tenants : tenants[t] # Wish(n).slug) \/ visits'[n].blind
  <2>1. "owner" \in Phases /\ "refused" \in Phases /\ 0 \in Nat
    BY DEF Phases, Departed
  <2>2. \/ Turns(n, "refused")
        \/ (\A t \in DOMAIN tenants : tenants[t] # Wish(n).slug) /\ Turns(n, "owner")
        \/ visits' = [visits EXCEPT ![n].pc = "owner", ![n].blind = TRUE]
    BY DEF CheckSlug, Taken
  <2> QED
    BY <2>1, <2>2, Here, RowMoves DEF Moved
<1>3. /\ visits'[n].wish = Wish(n) /\ Papers(n) /\ visits[n].pc \notin Departed
  BY <1>1, <1>2, Here DEF Rows, CallOK, Wish, Departed
<1>4. Mine(n)
  BY <1>1, <1>2, <1>3, QuietStep
<1>5. Looked(n)
  BY <1>1, <1>2, <1>3 DEF Looked, AddressSeen, SlugSeen, Papers
<1>6. PhaseOK(n)' /\ AccountOK(n)' /\ SessionOK(n)'
  BY <1>1, <1>2, <1>3, PhasesHold DEF PhaseOK, AccountOK, SessionOK, Wish, Departed
<1>7. Papers(n)'
  BY <1>1, <1>2, <1>3 DEF Papers, Wish
<1>8. FoundOK(n)' /\ (Past(n) => Past(n)')
  BY <1>1, <1>2, <1>3, Unsought DEF Past
<1>9. Consenting(n)
  BY <1>1, <1>2, NoConsent
<1> QED
  BY <1>4, <1>5, <1>6, <1>7, <1>8, <1>9 DEF Stays

LEMMA NothingMoved ==
  ASSUME SignupsIInv, NEW n \in DOMAIN visits
  PROVE  /\ Keeps(n, owners, owners) /\ Keeps(n, tenants, tenants) /\ Keeps(n, accounts, accounts)
         /\ KeepsSet(n, owning, owning) /\ KeepsSet(n, kept, kept)
         /\ n \in DOMAIN owners => owners[n] = Document(n)
         /\ n \in DOMAIN accounts => accounts[n] = Document(n)
         /\ n \in DOMAIN tenants => tenants[n] = Wish(n).slug
  BY DEF SignupsIInv, SignupsTypeOK, DocsOK, Keeps, KeepsSet

LEMMA InsertOwnerStep ==
  ASSUME SignupsIInv, NEW n \in DOMAIN visits, InsertOwner(n)
  PROVE  Mine(n) /\ Looked(n) /\ Stays(n) /\ Consenting(n)
<1>1. /\ visits[n].pc = "owner" /\ Wish(n).do = "organise" /\ visits[n].pc \notin Departed
      /\ UNCHANGED <<tenants, owning, accounts, consents, kept>>
  BY Here, PhaseTable DEF InsertOwner, Stands, Departed
<1>2. /\ Rows(n)
      /\ \/ visits'[n].pc = "tenant" /\ owners' = Beside(owners, n, Document(n))
         \/ visits'[n].pc = "failed" /\ UNCHANGED owners
         \/ visits'[n].pc = "failed" /\ visits'[n].hurt /\ owners' = Beside(owners, n, Document(n))
  <2>1. "tenant" \in Phases /\ "failed" \in Phases /\ 0 \in Nat
    BY DEF Phases, Departed
  <2>2. \/ Turns(n, "tenant") /\ owners' = Beside(owners, n, Document(n))
        \/ Turns(n, "failed") /\ UNCHANGED owners
        \/ /\ visits' = [visits EXCEPT ![n].pc = "failed", ![n].hurt = TRUE]
           /\ owners' = Beside(owners, n, Document(n))
    BY DEF InsertOwner, Attempts
  <2> QED
    BY <2>1, <2>2, Here, RowMoves DEF Moved
<1>3. visits'[n].wish = Wish(n) /\ Papers(n)
  BY <1>2, Here DEF Rows, CallOK, Wish
<1>4. /\ Keeps(n, owners, owners') /\ (n \in DOMAIN owners' => owners'[n] = Document(n))
      /\ n \in DOMAIN owners' \/ visits'[n].pc = "failed"
      /\ n \in DOMAIN owners' => n \in DOMAIN owners \/ visits'[n].pc = "tenant" \/ visits'[n].hurt
  <2>1. owners' = Beside(owners, n, Document(n)) =>
          /\ Keeps(n, owners, owners') /\ owners'[n] = Document(n)
          /\ DOMAIN owners' = DOMAIN owners \cup {n}
    BY DEF Beside, Keeps
  <2> QED
    BY <1>2, <2>1, NothingMoved
<1>5. Mine(n)
  BY <1>1, <1>2, <1>4, NothingMoved DEF Mine
<1>6. Looked(n)
  BY <1>1, <1>2, <1>3, <1>4 DEF Looked, AddressSeen, SlugSeen, Papers
<1>7. PhaseOK(n)' /\ AccountOK(n)' /\ SessionOK(n)'
  BY <1>1, <1>2, <1>3, PhasesHold DEF PhaseOK, AccountOK, SessionOK, Wish, Departed
<1>8. Papers(n)'
  BY <1>1, <1>2, <1>3, <1>4 DEF Papers, Wish
<1>9. FoundOK(n)' /\ (Past(n) => Past(n)')
  BY <1>1, <1>2, <1>3, Unsought DEF Past, Wish
<1>10. Consenting(n)
  BY <1>1, <1>2, NoConsent
<1> QED
  BY <1>5, <1>6, <1>7, <1>8, <1>9, <1>10 DEF Stays

LEMMA InsertTenantStep ==
  ASSUME SignupsIInv, NEW n \in DOMAIN visits, InsertTenant(n)
  PROVE  Mine(n) /\ Looked(n) /\ Stays(n) /\ Consenting(n)
<1>1. /\ visits[n].pc = "tenant" /\ Wish(n).do = "organise" /\ visits[n].pc \notin Departed
      /\ UNCHANGED <<owners, owning, accounts, consents, kept>>
  BY Here, PhaseTable DEF InsertTenant, Stands, Departed
<1>2. /\ Rows(n)
      /\ \/ visits'[n].pc = "membership" /\ tenants' = Beside(tenants, n, Wish(n).slug)
         \/ visits'[n].pc = "undoOwner" /\ UNCHANGED tenants
         \/ visits'[n].pc = "undoOwner" /\ visits'[n].hurt /\ tenants' = Beside(tenants, n, Wish(n).slug)
  <2>1. "membership" \in Phases /\ "undoOwner" \in Phases /\ 0 \in Nat
    BY DEF Phases, Departed
  <2>2. \/ Turns(n, "membership") /\ tenants' = Beside(tenants, n, Wish(n).slug)
        \/ Turns(n, "undoOwner") /\ UNCHANGED tenants
        \/ /\ visits' = [visits EXCEPT ![n].pc = "undoOwner", ![n].hurt = TRUE]
           /\ tenants' = Beside(tenants, n, Wish(n).slug)
    BY DEF InsertTenant, Attempts
  <2> QED
    BY <2>1, <2>2, Here, RowMoves DEF Moved
<1>3. visits'[n].wish = Wish(n) /\ Papers(n)
  BY <1>2, Here DEF Rows, CallOK, Wish
<1>4. /\ Keeps(n, tenants, tenants') /\ (n \in DOMAIN tenants' => tenants'[n] = Wish(n).slug)
      /\ n \in DOMAIN tenants' \/ visits'[n].pc = "undoOwner"
      /\ n \in DOMAIN tenants' => n \in DOMAIN tenants \/ visits'[n].pc = "membership" \/ visits'[n].hurt
  <2>1. tenants' = Beside(tenants, n, Wish(n).slug) =>
          /\ Keeps(n, tenants, tenants') /\ tenants'[n] = Wish(n).slug
          /\ DOMAIN tenants' = DOMAIN tenants \cup {n}
    BY DEF Beside, Keeps
  <2> QED
    BY <1>2, <2>1, NothingMoved
<1>5. Mine(n)
  BY <1>1, <1>2, <1>4, NothingMoved DEF Mine
<1>6. Looked(n)
  BY <1>1, <1>2, <1>3, <1>4 DEF Looked, AddressSeen, SlugSeen, Papers
<1>7. PhaseOK(n)' /\ AccountOK(n)' /\ SessionOK(n)'
  BY <1>1, <1>2, <1>3, PhasesHold DEF PhaseOK, AccountOK, SessionOK, Wish, Departed
<1>8. Papers(n)'
  BY <1>1, <1>2, <1>3, <1>4 DEF Papers, Wish
<1>9. FoundOK(n)' /\ (Past(n) => Past(n)')
  BY <1>1, <1>2, <1>3, Unsought DEF Past, Wish
<1>10. Consenting(n)
  BY <1>1, <1>2, NoConsent
<1> QED
  BY <1>5, <1>6, <1>7, <1>8, <1>9, <1>10 DEF Stays

LEMMA InsertMembershipStep ==
  ASSUME SignupsIInv, NEW n \in DOMAIN visits, InsertMembership(n)
  PROVE  Mine(n) /\ Looked(n) /\ Stays(n) /\ Consenting(n)
<1>1. /\ visits[n].pc = "membership" /\ Wish(n).do = "organise" /\ visits[n].pc \notin Departed
      /\ UNCHANGED <<owners, tenants, accounts, consents, kept>>
  BY Here, PhaseTable DEF InsertMembership, Stands, Departed
<1>2. /\ Rows(n)
      /\ \/ visits'[n].pc = "panelSession" /\ owning' = owning \cup {n}
         \/ visits'[n].pc = "undoTenant" /\ UNCHANGED owning
         \/ visits'[n].pc = "undoTenant" /\ visits'[n].hurt /\ owning' = owning \cup {n}
  <2>1. "panelSession" \in Phases /\ "undoTenant" \in Phases /\ 0 \in Nat
    BY DEF Phases, Departed
  <2>2. \/ Turns(n, "panelSession") /\ owning' = owning \cup {n}
        \/ Turns(n, "undoTenant") /\ UNCHANGED owning
        \/ /\ visits' = [visits EXCEPT ![n].pc = "undoTenant", ![n].hurt = TRUE]
           /\ owning' = owning \cup {n}
    BY DEF InsertMembership, Attempts
  <2> QED
    BY <2>1, <2>2, Here, RowMoves DEF Moved
<1>3. visits'[n].wish = Wish(n) /\ Papers(n)
  BY <1>2, Here DEF Rows, CallOK, Wish
<1>4. Mine(n)
  <2>1. KeepsSet(n, owning, owning')
    BY <1>2 DEF KeepsSet
  <2> QED
    BY <1>1, <1>2, <2>1, NothingMoved DEF Mine
<1>5. Looked(n)
  BY <1>1, <1>2, <1>3 DEF Looked, AddressSeen, SlugSeen, Papers
<1>6. PhaseOK(n)' /\ AccountOK(n)' /\ SessionOK(n)'
  BY <1>1, <1>2, <1>3, PhasesHold DEF PhaseOK, AccountOK, SessionOK, Wish, Departed
<1>7. Papers(n)'
  BY <1>1, <1>2, <1>3 DEF Papers, Wish
<1>8. FoundOK(n)' /\ (Past(n) => Past(n)')
  BY <1>1, <1>2, <1>3, Unsought DEF Past, Wish
<1>9. Consenting(n)
  BY <1>1, <1>2, NoConsent
<1> QED
  BY <1>4, <1>5, <1>6, <1>7, <1>8, <1>9 DEF Stays

LEMMA UndoTenantStep ==
  ASSUME SignupsIInv, NEW n \in DOMAIN visits, UndoTenant(n)
  PROVE  Mine(n) /\ Looked(n) /\ Stays(n) /\ Consenting(n)
<1>1. /\ visits[n].pc = "undoTenant" /\ Wish(n).do = "organise" /\ visits[n].pc \notin Departed
      /\ UNCHANGED <<owners, owning, accounts, consents, kept>>
  BY Here, PhaseTable DEF UndoTenant, Stands, Departed
<1>2. /\ Rows(n) /\ visits'[n].pc = "undoOwner"
      /\ \/ visits'[n].hurt = visits[n].hurt /\ tenants' = Without(tenants, n)
         \/ visits'[n].hurt /\ UNCHANGED tenants
  <2>1. "undoOwner" \in Phases /\ 0 \in Nat
    BY DEF Phases
  <2>2. \/ Turns(n, "undoOwner") /\ tenants' = Without(tenants, n)
        \/ /\ visits' = [visits EXCEPT ![n].pc = "undoOwner", ![n].hurt = TRUE]
           /\ UNCHANGED tenants
    BY DEF UndoTenant
  <2> QED
    BY <2>1, <2>2, Here, RowMoves DEF Moved
<1>3. visits'[n].wish = Wish(n) /\ Papers(n)
  BY <1>2, Here DEF Rows, CallOK, Wish
<1>4. /\ Keeps(n, tenants, tenants') /\ (n \in DOMAIN tenants' => tenants'[n] = Wish(n).slug)
      /\ n \in DOMAIN tenants' => n \in DOMAIN tenants /\ visits'[n].hurt
  <2>1. tenants' = Without(tenants, n) =>
          Keeps(n, tenants, tenants') /\ DOMAIN tenants' = DOMAIN tenants \ {n}
    BY DEF Without, Keeps
  <2> QED
    BY <1>2, <2>1, NothingMoved
<1>5. Mine(n)
  BY <1>1, <1>2, <1>4, NothingMoved DEF Mine
<1>6. Looked(n)
  BY <1>1, <1>2, <1>3, <1>4 DEF Looked, AddressSeen, SlugSeen, Papers
<1>7. PhaseOK(n)' /\ AccountOK(n)' /\ SessionOK(n)'
  BY <1>1, <1>2, <1>3, PhasesHold DEF PhaseOK, AccountOK, SessionOK, Wish, Departed
<1>8. Papers(n)'
  BY <1>1, <1>2, <1>3, <1>4 DEF Papers, Wish
<1>9. FoundOK(n)' /\ (Past(n) => Past(n)')
  BY <1>1, <1>2, <1>3, Unsought DEF Past, Wish
<1>10. Consenting(n)
  BY <1>1, <1>2, NoConsent
<1> QED
  BY <1>5, <1>6, <1>7, <1>8, <1>9, <1>10 DEF Stays

LEMMA UndoOwnerStep ==
  ASSUME SignupsIInv, NEW n \in DOMAIN visits, UndoOwner(n)
  PROVE  Mine(n) /\ Looked(n) /\ Stays(n) /\ Consenting(n)
<1>1. /\ visits[n].pc = "undoOwner" /\ Wish(n).do = "organise" /\ visits[n].pc \notin Departed
      /\ UNCHANGED <<tenants, owning, accounts, consents, kept>>
  BY Here, PhaseTable DEF UndoOwner, Stands, Departed
<1>2. /\ Rows(n) /\ visits'[n].pc = "failed"
      /\ \/ visits'[n].hurt = visits[n].hurt /\ owners' = Without(owners, n)
         \/ visits'[n].hurt /\ UNCHANGED owners
  <2>1. "failed" \in Phases /\ 0 \in Nat
    BY DEF Phases, Departed
  <2>2. \/ Turns(n, "failed") /\ owners' = Without(owners, n)
        \/ /\ visits' = [visits EXCEPT ![n].pc = "failed", ![n].hurt = TRUE]
           /\ UNCHANGED owners
    BY DEF UndoOwner
  <2> QED
    BY <2>1, <2>2, Here, RowMoves DEF Moved
<1>3. visits'[n].wish = Wish(n) /\ Papers(n)
  BY <1>2, Here DEF Rows, CallOK, Wish
<1>4. /\ Keeps(n, owners, owners') /\ (n \in DOMAIN owners' => owners'[n] = Document(n))
      /\ n \in DOMAIN owners' => n \in DOMAIN owners /\ visits'[n].hurt
  <2>1. owners' = Without(owners, n) =>
          Keeps(n, owners, owners') /\ DOMAIN owners' = DOMAIN owners \ {n}
    BY DEF Without, Keeps
  <2> QED
    BY <1>2, <2>1, NothingMoved
<1>5. Mine(n)
  BY <1>1, <1>2, <1>4, NothingMoved DEF Mine
<1>6. Looked(n)
  BY <1>1, <1>2, <1>3, <1>4 DEF Looked, AddressSeen, SlugSeen, Papers
<1>7. PhaseOK(n)' /\ AccountOK(n)' /\ SessionOK(n)'
  BY <1>1, <1>2, <1>3, PhasesHold DEF PhaseOK, AccountOK, SessionOK, Wish, Departed
<1>8. Papers(n)'
  BY <1>1, <1>2, <1>3, <1>4 DEF Papers, Wish
<1>9. FoundOK(n)' /\ (Past(n) => Past(n)')
  BY <1>1, <1>2, <1>3, Unsought DEF Past, Wish
<1>10. Consenting(n)
  BY <1>1, <1>2, NoConsent
<1> QED
  BY <1>5, <1>6, <1>7, <1>8, <1>9, <1>10 DEF Stays

\* A login that found its document, or is refused for a reason.
LEMMA TenantLoginFound ==
  ASSUME SignupsIInv, NEW n \in DOMAIN visits, Wish(n).do = "enter", Rows(n), visits[n].pc = "enter",
         visits'[n].pc \in {"memberships", "refused"},
         \/ \E i \in Holding(owners, Wish(n).email) :
              /\ visits'[n].pc = "memberships" => visits'[n].own = i
              /\ visits'[n].pc = "refused" =>
                   owners[i].secret = NoSecret \/ owners[i].secret # Wish(n).secret
         \/ visits'[n].pc = "refused" /\ (Holding(owners, Wish(n).email) = {} \/ visits'[n].blind)
  PROVE  FoundOK(n)'
<1>1. /\ DOMAIN visits' = DOMAIN visits
      /\ \A j \in DOMAIN visits : Wish(j)' = Wish(j) /\ visits'[j].with = visits[j].with
      /\ \A j \in DOMAIN visits \ {n} : visits'[j] = visits[j]
  BY DEF Rows, Wish
<1>2. /\ \A j \in DOMAIN visits : Papers(j)
      /\ \A j \in DOMAIN owners : j \in DOMAIN visits /\ owners[j] = Document(j)
      /\ Wish(n).secret # NoSecret
  BY Here DEF SignupsIInv, SignupsTypeOK, DocsOK, CallOK, Wishes
<1>3. ASSUME NEW i \in Holding(owners, Wish(n).email)
      PROVE  /\ i \in DOMAIN visits /\ i # n /\ Past(i)' /\ Wish(i)'.email = Wish(n).email
             /\ owners[i].secret = Wish(i).secret
  <2>1. i \in DOMAIN owners /\ i \in DOMAIN visits /\ Wish(i).email = Wish(n).email
    BY <1>2 DEF Holding, Document
  <2>2. Past(i)
    BY <1>2, <2>1 DEF Past, Papers
  <2>3. i # n
    BY <2>2 DEF Past
  <2> QED
    BY <1>1, <1>2, <2>1, <2>2, <2>3 DEF Past, Document
<1>4. visits'[n].pc = "memberships" =>
        (/\ visits[n].own \in DOMAIN visits /\ Past(visits[n].own)
         /\ Wish(visits[n].own).email = Wish(n).email)'
  BY <1>1, <1>3
<1>5. ASSUME NEW m \in DOMAIN visits', visits'[n].pc = "refused", Registered(m, n)'
      PROVE  \/ visits'[n].blind
             \/ \E i \in DOMAIN visits' \ {m} : Past(i)' /\ (Wish(i).email = Wish(n).email)'
  <2>1. /\ m \in DOMAIN visits \ {n} /\ visits[m].pc = "done" /\ Wish(m).do = "organise"
        /\ Wish(m).email = Wish(n).email /\ Wish(m).secret = Wish(n).secret
    BY <1>1, <1>5 DEF Registered
  <2>2. m \in DOMAIN owners
    BY <1>2, <2>1 DEF Papers
  <2>3. m \in Holding(owners, Wish(n).email) /\ owners[m].secret = Wish(n).secret
    BY <1>2, <2>1, <2>2 DEF Holding, Document
  <2>4. CASE visits'[n].blind
    BY <2>4
  <2>5. CASE ~ visits'[n].blind
    <3>1. PICK i \in Holding(owners, Wish(n).email) :
            owners[i].secret = NoSecret \/ owners[i].secret # Wish(n).secret
      BY <1>5, <2>3, <2>5
    <3>2. i # m
      BY <1>2, <2>3, <3>1
    <3> QED
      BY <1>1, <1>3, <3>2
  <2> QED
    BY <2>4, <2>5
<1> QED
  BY <1>4, <1>5 DEF FoundOK

LEMMA TenantLoginStep ==
  ASSUME SignupsIInv, NEW n \in DOMAIN visits, TenantLogin(n)
  PROVE  Mine(n) /\ Looked(n) /\ Stays(n) /\ Consenting(n)
<1>1. /\ visits[n].pc = "enter" /\ Wish(n).do = "enter" /\ visits[n].pc \notin Departed
      /\ UNCHANGED <<owners, tenants, owning, accounts, consents, kept>>
  BY Here, PhaseTable DEF TenantLogin, Find, Stands, Departed
<1>2. /\ Rows(n) /\ visits'[n].pc \in {"memberships", "refused"}
      /\ \/ \E i \in Holding(owners, Wish(n).email) :
              /\ visits'[n].pc = "memberships" => visits'[n].own = i
              /\ visits'[n].pc = "refused" =>
                   owners[i].secret = NoSecret \/ owners[i].secret # Wish(n).secret
         \/ visits'[n].pc = "refused" /\ (Holding(owners, Wish(n).email) = {} \/ visits'[n].blind)
  <2>1. "memberships" \in Phases /\ "refused" \in Phases /\ 0 \in Nat
    BY DEF Phases, Departed
  <2>2. CASE \E i \in Holding(owners, Wish(n).email) :
               visits' = IF owners[i].secret # NoSecret /\ owners[i].secret = Wish(n).secret
                         THEN [visits EXCEPT ![n].pc = "memberships", ![n].own = i]
                         ELSE [visits EXCEPT ![n].pc = "refused"]
    <3>1. PICK i \in Holding(owners, Wish(n).email) :
            visits' = IF owners[i].secret # NoSecret /\ owners[i].secret = Wish(n).secret
                      THEN [visits EXCEPT ![n].pc = "memberships", ![n].own = i]
                      ELSE [visits EXCEPT ![n].pc = "refused"]
      BY <2>2
    <3>2. i \in Nat
      BY Here DEF Holding, SignupsIInv, SignupsTypeOK, DocsOK
    <3>3. CASE owners[i].secret # NoSecret /\ owners[i].secret = Wish(n).secret
      <4>1. Moved(n, "memberships", i, visits[n].blind, visits[n].hurt)
        BY <2>1, <3>1, <3>2, <3>3, Here, RowMoves
      <4> QED
        BY <4>1 DEF Moved
    <3>4. CASE ~ (owners[i].secret # NoSecret /\ owners[i].secret = Wish(n).secret)
      <4>1. Turns(n, "refused")
        BY <3>1, <3>4 DEF Turns
      <4>2. Moved(n, "refused", visits[n].own, visits[n].blind, visits[n].hurt)
        BY <2>1, <4>1, Here, RowMoves
      <4> QED
        BY <3>4, <4>2 DEF Moved
    <3> QED
      BY <3>3, <3>4
  <2>3. CASE \/ Holding(owners, Wish(n).email) = {} /\ Turns(n, "refused")
             \/ visits' = [visits EXCEPT ![n].pc = "refused", ![n].blind = TRUE]
    BY <2>1, <2>3, Here, RowMoves DEF Moved
  <2> QED
    BY <2>2, <2>3 DEF TenantLogin, Find
<1>3. /\ visits'[n].wish = Wish(n) /\ Papers(n)
  BY <1>2, Here DEF Rows, CallOK, Wish
<1>4. Mine(n)
  BY <1>1, <1>2, QuietStep
<1>5. Looked(n)
  BY <1>1, <1>2, <1>3 DEF Looked, AddressSeen, SlugSeen
<1>6. PhaseOK(n)' /\ AccountOK(n)' /\ SessionOK(n)'
  BY <1>1, <1>2, <1>3, PhasesHold DEF PhaseOK, AccountOK, SessionOK, Wish, Departed
<1>7. Papers(n)'
  BY <1>1, <1>2, <1>3 DEF Papers, Wish
<1>8. FoundOK(n)'
  BY <1>1, <1>2, TenantLoginFound
<1>9. (Past(n) => Past(n)') /\ Consenting(n)
  BY <1>1, <1>2, NoConsent DEF Past
<1> QED
  BY <1>4, <1>5, <1>6, <1>7, <1>8, <1>9 DEF Stays

\* A user who is registered is found, and nobody else under his address.
LEMMA LoginFound ==
  ASSUME SignupsIInv, NEW n \in DOMAIN visits, Wish(n).do = "login", Rows(n),
         visits'[n].pc \in {"session", "refused"},
         visits'[n].pc = "refused" =>
           \/ \E i \in Holding(accounts, Wish(n).email) :
                accounts[i].secret = NoSecret \/ accounts[i].secret # Wish(n).secret
           \/ Holding(accounts, Wish(n).email) = {} \/ visits'[n].blind
  PROVE  FoundOK(n)'
<1>1. /\ DOMAIN visits' = DOMAIN visits
      /\ \A j \in DOMAIN visits : Wish(j)' = Wish(j) /\ visits'[j].with = visits[j].with
      /\ \A j \in DOMAIN visits \ {n} : visits'[j] = visits[j]
  BY DEF Rows, Wish
<1>2. /\ \A j \in DOMAIN visits : AccountOK(j)
      /\ \A j \in DOMAIN accounts : accounts[j] = Document(j)
      /\ \A i, j \in DOMAIN accounts : accounts[i].email = accounts[j].email => i = j
      /\ Wish(n).secret # NoSecret
  BY Here DEF SignupsIInv, SignupsTypeOK, DocsOK, CallOK, Wishes, OneUser
<1>3. ASSUME NEW m \in DOMAIN visits', visits'[n].pc = "refused", Registered(m, n)'
      PROVE  visits'[n].blind
  <2>1. /\ m \in DOMAIN visits \ {n} /\ visits[m].pc = "done" /\ Wish(m).do \in {"register", "manage"}
        /\ Wish(m).email = Wish(n).email /\ Wish(m).secret = Wish(n).secret
    BY <1>1, <1>3 DEF Registered
  <2>2. m \in DOMAIN accounts
    BY <1>2, <2>1 DEF AccountOK
  <2>3. m \in Holding(accounts, Wish(n).email) /\ accounts[m].secret = Wish(n).secret
    BY <1>2, <2>1, <2>2 DEF Holding, Document
  <2>4. \A i \in Holding(accounts, Wish(n).email) : i = m
    BY <1>2, <2>2, <2>3 DEF Holding
  <2> QED
    BY <1>2, <1>3, <2>3, <2>4
<1> QED
  BY <1>3 DEF FoundOK

LEMMA LoginStep ==
  ASSUME SignupsIInv, NEW n \in DOMAIN visits, Login(n)
  PROVE  Mine(n) /\ Looked(n) /\ Stays(n) /\ Consenting(n)
<1>1. /\ visits[n].pc = "login" /\ Wish(n).do = "login" /\ visits[n].pc \notin Departed
      /\ UNCHANGED <<owners, tenants, owning, accounts, consents, kept>>
  BY Here, PhaseTable DEF Login, Find, Stands, Departed
<1>2. /\ Rows(n) /\ visits'[n].pc \in {"session", "refused"}
      /\ visits'[n].pc = "refused" =>
           \/ \E i \in Holding(accounts, Wish(n).email) :
                accounts[i].secret = NoSecret \/ accounts[i].secret # Wish(n).secret
           \/ Holding(accounts, Wish(n).email) = {} \/ visits'[n].blind
  <2>1. "session" \in Phases /\ "refused" \in Phases /\ 0 \in Nat
    BY DEF Phases, Departed
  <2>2. CASE \E i \in Holding(accounts, Wish(n).email) :
               visits' = IF accounts[i].secret # NoSecret /\ accounts[i].secret = Wish(n).secret
                         THEN [visits EXCEPT ![n].pc = "session", ![n].own = i]
                         ELSE [visits EXCEPT ![n].pc = "refused"]
    <3>1. PICK i \in Holding(accounts, Wish(n).email) :
            visits' = IF accounts[i].secret # NoSecret /\ accounts[i].secret = Wish(n).secret
                      THEN [visits EXCEPT ![n].pc = "session", ![n].own = i]
                      ELSE [visits EXCEPT ![n].pc = "refused"]
      BY <2>2
    <3>2. i \in Nat
      BY Here DEF Holding, SignupsIInv, SignupsTypeOK, DocsOK
    <3>3. CASE accounts[i].secret # NoSecret /\ accounts[i].secret = Wish(n).secret
      <4>1. Moved(n, "session", i, visits[n].blind, visits[n].hurt)
        BY <2>1, <3>1, <3>2, <3>3, Here, RowMoves
      <4> QED
        BY <4>1 DEF Moved
    <3>4. CASE ~ (accounts[i].secret # NoSecret /\ accounts[i].secret = Wish(n).secret)
      <4>1. Turns(n, "refused")
        BY <3>1, <3>4 DEF Turns
      <4>2. Moved(n, "refused", visits[n].own, visits[n].blind, visits[n].hurt)
        BY <2>1, <4>1, Here, RowMoves
      <4> QED
        BY <3>4, <4>2 DEF Moved
    <3> QED
      BY <3>3, <3>4
  <2>3. CASE \/ Holding(accounts, Wish(n).email) = {} /\ Turns(n, "refused")
             \/ visits' = [visits EXCEPT ![n].pc = "refused", ![n].blind = TRUE]
    BY <2>1, <2>3, Here, RowMoves DEF Moved
  <2> QED
    BY <2>2, <2>3 DEF Login, Find
<1>3. /\ visits'[n].wish = Wish(n) /\ Papers(n)
  BY <1>2, Here DEF Rows, CallOK, Wish
<1>4. Mine(n)
  BY <1>1, <1>2, QuietStep
<1>5. Looked(n)
  BY <1>1, <1>2, <1>3 DEF Looked, AddressSeen, SlugSeen
<1>6. PhaseOK(n)' /\ AccountOK(n)' /\ SessionOK(n)'
  BY <1>1, <1>2, <1>3, PhasesHold DEF PhaseOK, AccountOK, SessionOK, Wish, Departed
<1>7. Papers(n)'
  BY <1>1, <1>2, <1>3 DEF Papers, Wish
<1>8. FoundOK(n)'
  BY <1>1, <1>2, LoginFound
<1>9. (Past(n) => Past(n)') /\ Consenting(n)
  BY <1>1, <1>2, NoConsent DEF Past
<1> QED
  BY <1>4, <1>5, <1>6, <1>7, <1>8, <1>9 DEF Stays

LEMMA SelectMembershipStep ==
  ASSUME SignupsIInv, NEW n \in DOMAIN visits, SelectMembership(n)
  PROVE  Mine(n) /\ Looked(n) /\ Stays(n) /\ Consenting(n)
<1>1. /\ visits[n].pc = "memberships" /\ Wish(n).do = "enter" /\ visits[n].pc \notin Departed
      /\ UNCHANGED <<owners, tenants, owning, accounts, consents, kept>>
  BY Here, PhaseTable DEF SelectMembership, Stands, Departed
<1>2. /\ Rows(n) /\ visits'[n].pc \in {"refused", "failed", "panelSession"}
      /\ visits'[n].pc = "refused" => visits[n].own \notin owning
  <2>1. "panelSession" \in Phases /\ "refused" \in Phases /\ "failed" \in Phases /\ 0 \in Nat
    BY DEF Phases, Departed
  <2>2. \/ visits[n].own \notin owning /\ Turns(n, "refused")
        \/ Turns(n, "failed")
        \/ Turns(n, "panelSession")
    BY DEF SelectMembership
  <2> QED
    BY <2>1, <2>2, Here, RowMoves DEF Moved
<1>3. /\ visits'[n].wish = Wish(n) /\ Papers(n)
  BY <1>2, Here DEF Rows, CallOK, Wish
<1>4. Mine(n)
  BY <1>1, <1>2, QuietStep
<1>5. Looked(n)
  BY <1>1, <1>2, <1>3 DEF Looked, AddressSeen, SlugSeen
<1>6. PhaseOK(n)' /\ AccountOK(n)' /\ SessionOK(n)'
  BY <1>1, <1>2, <1>3, PhasesHold DEF PhaseOK, AccountOK, SessionOK, Wish, Departed
<1>7. Papers(n)'
  BY <1>1, <1>2, <1>3 DEF Papers, Wish
<1>8. FoundOK(n)'
  <2>1. /\ DOMAIN visits' = DOMAIN visits
        /\ \A j \in DOMAIN visits : Wish(j)' = Wish(j) /\ visits'[j].with = visits[j].with
        /\ \A j \in DOMAIN visits \ {n} : visits'[j] = visits[j]
        /\ \A j \in DOMAIN visits : Papers(j)
    BY <1>2 DEF Rows, Wish, SignupsIInv, CallOK
  <2>2. PICK i \in DOMAIN visits : i = visits[n].own /\ Past(i) /\ Wish(i).email = Wish(n).email
    BY <1>1, Here DEF CallOK, FoundOK
  <2>3. i # n
    BY <1>1, <2>2 DEF Past
  <2>4. Past(i)' /\ Wish(i)'.email = Wish(n)'.email
    BY <2>1, <2>2, <2>3 DEF Past
  <2>5. ASSUME NEW m \in DOMAIN visits', visits'[n].pc = "refused", Registered(m, n)'
        PROVE  \E j \in DOMAIN visits' \ {m} : Past(j)' /\ (Wish(j).email = Wish(n).email)'
    <3>1. m \in DOMAIN visits \ {n} /\ visits[m].pc = "done" /\ Wish(m).do = "organise"
      BY <1>1, <2>1, <2>5 DEF Registered
    <3>2. m \in owning
      BY <2>1, <3>1 DEF Papers
    <3>3. i # m
      BY <1>2, <2>2, <2>5, <3>2
    <3> QED
      BY <2>1, <2>2, <2>4, <3>3
  <2> QED
    BY <1>2, <2>5 DEF FoundOK
<1>9. (Past(n) => Past(n)') /\ Consenting(n)
  BY <1>1, <1>2, NoConsent DEF Past
<1> QED
  BY <1>4, <1>5, <1>6, <1>7, <1>8, <1>9 DEF Stays

LEMMA AssignRoleStep ==
  ASSUME SignupsIInv, NEW n \in DOMAIN visits, AssignRole(n) \/ CountAddress(n)
  PROVE  Mine(n) /\ Looked(n) /\ Stays(n) /\ Consenting(n)
<1>1. /\ visits[n].pc \in {"register", "unique", "manage"} /\ Wish(n).do \in {"register", "manage"}
      /\ visits[n].pc = "register" => Wish(n).do = "register"
      /\ visits[n].pc \notin Departed
      /\ UNCHANGED <<owners, tenants, owning, accounts, consents, kept>>
  BY Here, PhaseTable DEF AssignRole, CountAddress, Stands, Departed
<1>2. /\ Rows(n) /\ visits'[n].pc \in {"unique", "insert", "refused"}
      /\ visits'[n].pc = "unique" => visits[n].pc = "register"
  <2>1. "unique" \in Phases /\ "insert" \in Phases /\ "refused" \in Phases /\ 0 \in Nat
    BY DEF Phases, Departed
  <2>2. \/ visits[n].pc = "register" /\ Turns(n, "unique")
        \/ Turns(n, "insert")
        \/ Turns(n, "refused")
    BY DEF AssignRole, CountAddress, Stands
  <2> QED
    BY <2>1, <2>2, Here, RowMoves DEF Moved
<1>3. visits'[n].wish = Wish(n) /\ Papers(n)
  BY <1>2, Here DEF Rows, CallOK, Wish
<1>4. Mine(n)
  BY <1>1, <1>2, QuietStep
<1>5. Looked(n)
  BY <1>1, <1>2, <1>3 DEF Looked, AddressSeen, SlugSeen
<1>6. PhaseOK(n)' /\ AccountOK(n)' /\ SessionOK(n)'
  BY <1>1, <1>2, <1>3, PhasesHold DEF PhaseOK, AccountOK, SessionOK, Wish, Departed
<1>7. Papers(n)'
  BY <1>1, <1>2, <1>3 DEF Papers, Wish
<1>8. FoundOK(n)' /\ (Past(n) => Past(n)')
  BY <1>1, <1>2, <1>3, Unsought DEF Past
<1>9. Consenting(n)
  BY <1>1, <1>2, NoConsent
<1> QED
  BY <1>4, <1>5, <1>6, <1>7, <1>8, <1>9 DEF Stays

LEMMA InsertAccountStep ==
  ASSUME SignupsIInv, NEW n \in DOMAIN visits, InsertAccount(n)
  PROVE  Mine(n) /\ Looked(n) /\ Stays(n) /\ Consenting(n)
<1>1. /\ visits[n].pc = "insert" /\ Wish(n).do \in {"register", "manage"} /\ visits[n].pc \notin Departed
      /\ UNCHANGED <<owners, tenants, owning, consents, kept>>
  BY Here, PhaseTable DEF InsertAccount, Stands, Departed
<1> DEFINE next == IF Wish(n).do = "register" THEN "session" ELSE "done"
<1>2. /\ Rows(n)
      /\ \/ visits'[n].pc = "failed" /\ UNCHANGED accounts
         \/ /\ (visits'[n].pc = "failed" \/ visits'[n].pc = next)
            /\ Holding(accounts, Wish(n).email) = {} /\ accounts' = Beside(accounts, n, Document(n))
  <2>1. next \in Phases /\ "failed" \in Phases /\ 0 \in Nat
    BY DEF Phases, Departed
  <2>2. \/ Turns(n, "failed") /\ UNCHANGED accounts
        \/ /\ Holding(accounts, Wish(n).email) = {} /\ accounts' = Beside(accounts, n, Document(n))
           /\ \/ Turns(n, next)
              \/ visits' = [visits EXCEPT ![n].pc = "failed", ![n].hurt = TRUE]
    BY DEF InsertAccount, Attempts
  <2> HIDE DEF next
  <2> QED
    BY <2>1, <2>2, Here, RowMoves DEF Moved
<1>3. visits'[n].wish = Wish(n) /\ Papers(n)
  BY <1>2, Here DEF Rows, CallOK, Wish
<1>4. /\ Keeps(n, accounts, accounts') /\ (n \in DOMAIN accounts' => accounts'[n] = Document(n))
      /\ n \in DOMAIN accounts' => n \in DOMAIN accounts \/ Holding(accounts, Wish(n).email) = {}
      /\ visits'[n].pc # "failed" => n \in DOMAIN accounts'
      /\ visits'[n].pc = "failed" \/ visits'[n].pc = next
  <2>1. accounts' = Beside(accounts, n, Document(n)) =>
          /\ Keeps(n, accounts, accounts') /\ accounts'[n] = Document(n)
          /\ DOMAIN accounts' = DOMAIN accounts \cup {n}
    BY DEF Beside, Keeps
  <2> QED
    BY <1>2, <2>1, NothingMoved
<1>5. Mine(n)
  BY <1>1, <1>2, <1>4, NothingMoved DEF Mine
<1>6. Looked(n)
  BY <1>1, <1>3, <1>4 DEF Looked, AddressSeen, SlugSeen
<1>7. PhaseOK(n)' /\ AccountOK(n)' /\ SessionOK(n)'
  BY <1>1, <1>3, <1>4, PhasesHold DEF PhaseOK, AccountOK, SessionOK, Wish, Departed
<1>8. Papers(n)'
  BY <1>1, <1>3 DEF Papers, Wish
<1>9. FoundOK(n)' /\ (Past(n) => Past(n)')
  BY <1>1, <1>3, <1>4, Unsought DEF Past
<1>10. Consenting(n)
  BY <1>1, <1>2, NoConsent
<1> QED
  BY <1>5, <1>6, <1>7, <1>8, <1>9, <1>10 DEF Stays

LEMMA KeepStep ==
  ASSUME SignupsIInv, NEW n \in DOMAIN visits, StartTenantSession(n) \/ StartProjectSession(n)
  PROVE  Mine(n) /\ Looked(n) /\ Stays(n) /\ Consenting(n)
<1>1. /\ visits[n].pc \in {"panelSession", "session"} /\ visits[n].pc \notin Departed
      /\ visits[n].pc = "panelSession" => Wish(n).do \in {"organise", "enter"}
      /\ visits[n].pc = "session" => Wish(n).do \in {"register", "login"}
      /\ UNCHANGED <<owners, tenants, owning, accounts, consents>>
  BY Here, PhaseTable DEF StartTenantSession, StartProjectSession, Keep, Stands, Departed
<1>2. /\ Rows(n) /\ visits'[n].pc \in {"done", "failed"}
      /\ kept' = kept \/ kept' = kept \cup {n}
      /\ visits'[n].pc = "done" => n \in kept'
  <2>1. "done" \in Phases /\ "failed" \in Phases /\ 0 \in Nat
    BY DEF Phases, Departed
  <2>2. \/ Turns(n, "done") /\ kept' = kept \cup {n}
        \/ Turns(n, "failed") /\ UNCHANGED kept
        \/ visits' = [visits EXCEPT ![n].pc = "failed", ![n].hurt = TRUE] /\ kept' = kept \cup {n}
    BY DEF StartTenantSession, StartProjectSession, Keep, Attempts
  <2> QED
    BY <2>1, <2>2, Here, RowMoves DEF Moved
<1>3. /\ visits'[n].wish = Wish(n) /\ Papers(n) /\ AccountOK(n)
  BY <1>2, Here DEF Rows, CallOK, Wish
<1>4. Mine(n)
  BY <1>1, <1>2, NothingMoved DEF Mine, KeepsSet
<1>5. Looked(n)
  BY <1>1, <1>2, <1>3 DEF Looked, AddressSeen, SlugSeen
<1>6. PhaseOK(n)' /\ AccountOK(n)' /\ SessionOK(n)'
  BY <1>1, <1>2, <1>3, PhasesHold DEF PhaseOK, AccountOK, SessionOK, Wish, Departed
<1>7. Papers(n)'
  BY <1>1, <1>2, <1>3 DEF Papers, Wish
<1>8. FoundOK(n)' /\ (Past(n) => Past(n)')
  BY <1>1, <1>2, <1>3, Unsought DEF Past, Wish
<1>9. Consenting(n)
  BY <1>1, <1>2, NoConsent
<1> QED
  BY <1>4, <1>5, <1>6, <1>7, <1>8, <1>9 DEF Stays

LEMMA GoogleLoginStep ==
  ASSUME SignupsIInv, NEW n \in DOMAIN visits, GoogleLogin(n)
  PROVE  Mine(n) /\ Looked(n) /\ Stays(n) /\ Consenting(n)
<1>1. /\ visits[n].pc = "google" /\ Wish(n).do = "google" /\ visits[n].pc \notin Departed
      /\ UNCHANGED <<owners, tenants, owning, accounts, kept>>
  BY Here, PhaseTable DEF GoogleLogin, Stands, Departed
<1>2. /\ Rows(n) /\ visits'[n].pc \in {"done", "failed", "refused"}
      /\ consents' = consents \/ consents' = consents \cup {n}
  <2>1. "done" \in Phases /\ "failed" \in Phases /\ "refused" \in Phases /\ 0 \in Nat
    BY DEF Phases, Departed
  <2>2. /\ \/ Turns(n, "done") \/ Turns(n, "failed") \/ Turns(n, "refused")
           \/ visits' = [visits EXCEPT ![n].pc = "failed", ![n].hurt = TRUE]
        /\ consents' = consents \/ consents' = consents \cup {n}
    BY DEF GoogleLogin, Attempts, Inactive
  <2> QED
    BY <2>1, <2>2, Here, RowMoves DEF Moved
<1>3. visits'[n].wish = Wish(n) /\ Papers(n)
  BY <1>2, Here DEF Rows, CallOK, Wish
<1>4. Mine(n)
  BY <1>1, <1>2, QuietStep
<1>5. Looked(n)
  BY <1>1, <1>2, <1>3 DEF Looked, AddressSeen, SlugSeen
<1>6. PhaseOK(n)' /\ AccountOK(n)' /\ SessionOK(n)'
  BY <1>1, <1>2, <1>3, PhasesHold DEF PhaseOK, AccountOK, SessionOK, Wish, Departed
<1>7. Papers(n)'
  BY <1>1, <1>2, <1>3 DEF Papers, Wish
<1>8. FoundOK(n)' /\ (Past(n) => Past(n)')
  BY <1>1, <1>2, <1>3, Unsought DEF Past
<1>9. Consenting(n)
  BY <1>1, <1>2, <1>3, NoConsent DEF Consenting, Departed
<1> QED
  BY <1>4, <1>5, <1>6, <1>7, <1>8, <1>9 DEF Stays

LEMMA ConsumeStateStep ==
  ASSUME SignupsIInv, NEW n \in DOMAIN visits, ConsumeState(n)
  PROVE  Mine(n) /\ Looked(n) /\ Stays(n) /\ Consenting(n)
<1>1. /\ visits[n].pc = "return" /\ Wish(n).do = "return" /\ visits[n].pc \notin Departed
      /\ UNCHANGED <<owners, tenants, owning, accounts, kept>>
      /\ consents' = consents \ {Wish(n).state}
  BY Here, PhaseTable DEF ConsumeState, Stands, Departed
<1>2. /\ Rows(n) /\ visits'[n].pc \in {"known", "refused"} /\ visits'[n].own = visits[n].own
      /\ visits'[n].pc = "known" => Wish(n).state \in consents
  <2>1. "known" \in Phases /\ "refused" \in Phases /\ 0 \in Nat
    BY DEF Phases, Departed
  <2>2. (Wish(n).state \in consents /\ Turns(n, "known")) \/ Turns(n, "refused")
    BY DEF ConsumeState, Inactive
  <2> QED
    BY <2>1, <2>2, Here, RowMoves DEF Moved
<1>3. visits'[n].wish = Wish(n) /\ Papers(n)
  BY <1>2, Here DEF Rows, CallOK, Wish
<1>4. Mine(n)
  BY <1>1, <1>2, QuietStep
<1>5. Looked(n)
  BY <1>1, <1>2, <1>3 DEF Looked, AddressSeen, SlugSeen
<1>6. PhaseOK(n)' /\ AccountOK(n)' /\ SessionOK(n)'
  BY <1>1, <1>2, <1>3, PhasesHold DEF PhaseOK, AccountOK, SessionOK, Wish, Departed
<1>7. Papers(n)'
  BY <1>1, <1>2, <1>3 DEF Papers, Wish
<1>8. FoundOK(n)' /\ (Past(n) => Past(n)')
  BY <1>1, <1>2, <1>3, Unsought DEF Past
<1>9. Consenting(n)
  BY <1>1, <1>2, <1>3 DEF Consenting, Used, Wish
<1> QED
  BY <1>4, <1>5, <1>6, <1>7, <1>8, <1>9 DEF Stays

LEMMA FindGoogleUserStep ==
  ASSUME SignupsIInv, NEW n \in DOMAIN visits, FindGoogleUser(n)
  PROVE  Mine(n) /\ Looked(n) /\ Stays(n) /\ Consenting(n)
<1>1. /\ visits[n].pc = "known" /\ Wish(n).do = "return" /\ visits[n].pc \notin Departed
      /\ UNCHANGED <<owners, tenants, owning, accounts, consents, kept>>
  BY Here, PhaseTable DEF FindGoogleUser, Stands, Departed
<1>2. Rows(n) /\ visits'[n].pc \in {"done", "create", "failed"}
  <2>1. "done" \in Phases /\ "create" \in Phases /\ "failed" \in Phases /\ 0 \in Nat
    BY DEF Phases, Departed
  <2>2. \A i \in Holding(accounts, Wish(n).email) : i \in Nat
    BY Here DEF Holding, SignupsIInv, SignupsTypeOK, DocsOK
  <2>3. \/ \E i \in Holding(accounts, Wish(n).email) :
             visits' = [visits EXCEPT ![n].pc = "done", ![n].own = i]
        \/ visits' = [visits EXCEPT ![n].pc = "create", ![n].blind = TRUE]
        \/ Turns(n, "create") \/ Turns(n, "failed")
    BY DEF FindGoogleUser
  <2>4. \A i \in Nat : visits' = [visits EXCEPT ![n].pc = "done", ![n].own = i] =>
          Moved(n, "done", i, visits[n].blind, visits[n].hurt)
    BY <2>1, Here, RowMoves
  <2>5. visits' = [visits EXCEPT ![n].pc = "create", ![n].blind = TRUE] =>
          Moved(n, "create", visits[n].own, TRUE, visits[n].hurt)
    BY <2>1, Here, RowMoves
  <2>6. \A p \in {"create", "failed"} : Turns(n, p) =>
          Moved(n, p, visits[n].own, visits[n].blind, visits[n].hurt)
    BY <2>1, Here, RowMoves
  <2> QED
    BY <2>2, <2>3, <2>4, <2>5, <2>6 DEF Moved
<1>3. visits'[n].wish = Wish(n) /\ Papers(n)
  BY <1>2, Here DEF Rows, CallOK, Wish
<1>4. Mine(n)
  BY <1>1, <1>2, QuietStep
<1>5. Looked(n)
  BY <1>1, <1>2, <1>3 DEF Looked, AddressSeen, SlugSeen
<1>6. PhaseOK(n)' /\ AccountOK(n)' /\ SessionOK(n)'
  BY <1>1, <1>2, <1>3, PhasesHold DEF PhaseOK, AccountOK, SessionOK, Wish, Departed
<1>7. Papers(n)'
  BY <1>1, <1>2, <1>3 DEF Papers, Wish
<1>8. FoundOK(n)' /\ (Past(n) => Past(n)')
  BY <1>1, <1>2, <1>3, Unsought DEF Past
<1>9. Consenting(n)
  BY <1>1 DEF Consenting, Used
<1> QED
  BY <1>4, <1>5, <1>6, <1>7, <1>8, <1>9 DEF Stays

LEMMA CreateGoogleUserStep ==
  ASSUME SignupsIInv, NEW n \in DOMAIN visits, CreateGoogleUser(n)
  PROVE  Mine(n) /\ Looked(n) /\ Stays(n) /\ Consenting(n)
<1>1. /\ visits[n].pc = "create" /\ Wish(n).do = "return" /\ visits[n].pc \notin Departed
      /\ UNCHANGED <<owners, tenants, owning, consents, kept>>
  BY Here, PhaseTable DEF CreateGoogleUser, Stands, Departed
<1>2. /\ Rows(n) /\ visits'[n].pc \in {"done", "failed"}
      /\ \/ UNCHANGED accounts
         \/ Holding(accounts, Wish(n).email) = {} /\ accounts' = Beside(accounts, n, Document(n))
  <2>1. "done" \in Phases /\ "failed" \in Phases /\ n \in Nat
    BY Here DEF Phases, Departed
  <2>2. /\ \/ visits' = [visits EXCEPT ![n].pc = "done", ![n].own = n]
           \/ visits' = [visits EXCEPT ![n].pc = "failed", ![n].hurt = TRUE]
           \/ Turns(n, "failed")
        /\ \/ UNCHANGED accounts
           \/ Holding(accounts, Wish(n).email) = {} /\ accounts' = Beside(accounts, n, Document(n))
    BY DEF CreateGoogleUser
  <2>3. visits' = [visits EXCEPT ![n].pc = "done", ![n].own = n] =>
          Moved(n, "done", n, visits[n].blind, visits[n].hurt)
    BY <2>1, Here, RowMoves
  <2>4. visits' = [visits EXCEPT ![n].pc = "failed", ![n].hurt = TRUE] =>
          Moved(n, "failed", visits[n].own, visits[n].blind, TRUE)
    BY <2>1, Here, RowMoves
  <2>5. Turns(n, "failed") => Moved(n, "failed", visits[n].own, visits[n].blind, visits[n].hurt)
    BY <2>1, Here, RowMoves
  <2> QED
    BY <2>2, <2>3, <2>4, <2>5 DEF Moved
<1>3. visits'[n].wish = Wish(n) /\ Papers(n)
  BY <1>2, Here DEF Rows, CallOK, Wish
<1>4. /\ Keeps(n, accounts, accounts') /\ (n \in DOMAIN accounts' => accounts'[n] = Document(n))
      /\ n \in DOMAIN accounts' => n \in DOMAIN accounts \/ Holding(accounts, Wish(n).email) = {}
  <2>1. accounts' = Beside(accounts, n, Document(n)) =>
          Keeps(n, accounts, accounts') /\ accounts'[n] = Document(n)
    BY DEF Beside, Keeps
  <2> QED
    BY <1>2, <2>1, NothingMoved
<1>5. Mine(n)
  BY <1>1, <1>2, <1>4, NothingMoved DEF Mine
<1>6. Looked(n)
  BY <1>1, <1>2, <1>3, <1>4 DEF Looked, AddressSeen, SlugSeen
<1>7. PhaseOK(n)' /\ AccountOK(n)' /\ SessionOK(n)'
  BY <1>1, <1>2, <1>3, PhasesHold DEF PhaseOK, AccountOK, SessionOK, Wish, Departed
<1>8. Papers(n)'
  BY <1>1, <1>3 DEF Papers, Wish
<1>9. FoundOK(n)' /\ (Past(n) => Past(n)')
  BY <1>1, <1>2, <1>3, Unsought DEF Past
<1>10. Consenting(n)
  BY <1>1 DEF Consenting, Used
<1> QED
  BY <1>5, <1>6, <1>7, <1>8, <1>9, <1>10 DEF Stays

LEMMA CrashStep ==
  ASSUME SignupsIInv, NEW n \in DOMAIN visits, Crashes(n)
  PROVE  Mine(n) /\ Looked(n) /\ Stays(n) /\ Consenting(n)
<1>1. /\ visits[n].pc \notin Departed
      /\ UNCHANGED <<owners, tenants, owning, accounts, consents, kept>>
  BY DEF Crashes, Active
<1>2. Rows(n) /\ visits'[n].pc = "stopped" /\ visits'[n].hurt /\ visits'[n].own = visits[n].own
  <2>1. "stopped" \in Phases /\ 0 \in Nat
    BY DEF Phases, Departed
  <2> QED
    BY <2>1, Here, RowMoves DEF Crashes, Moved
<1>3. visits'[n].wish = Wish(n) /\ Papers(n)
  BY <1>2, Here DEF Rows, CallOK, Wish
<1>4. Mine(n)
  BY <1>1, <1>2, QuietStep
<1>5. Looked(n)
  BY <1>1, <1>2 DEF Looked, AddressSeen, SlugSeen
<1>6. PhaseOK(n)' /\ AccountOK(n)' /\ SessionOK(n)'
  BY <1>2, <1>3, PhasesHold DEF PhaseOK, AccountOK, SessionOK, Wish, Departed
<1>7. Papers(n)'
  BY <1>1, <1>2, <1>3 DEF Papers, Wish
<1>8. FoundOK(n)' /\ (Past(n) => Past(n)')
  BY <1>2, <1>3, Unsought DEF Past, Wish
<1>9. Consenting(n)
  BY <1>1, <1>2, NoConsent DEF Departed
<1> QED
  BY <1>4, <1>5, <1>6, <1>7, <1>8, <1>9 DEF Stays

-----------------------------------------------------------------------------
(* Calls that come, consents that lapse.                                     *)

LEMMA BeginsStep ==
  ASSUME SignupsIInv, NEW wish \in Wishes, Begins(wish)
  PROVE  SignupsIInv'
<1> DEFINE v == [pc |-> wish.do, wish |-> wish, with |-> Active,
                 own |-> 0, blind |-> FALSE, hurt |-> FALSE]
<1>0. PICK n \in Nat : n = Len(visits) + 1
  BY DEF SignupsIInv, SignupsTypeOK
<1>1. /\ visits \in Seq(VisitType) /\ n \notin DOMAIN visits
      /\ DOMAIN visits = 1..Len(visits) /\ DOMAIN visits \subseteq Nat
  BY <1>0 DEF SignupsIInv, SignupsTypeOK
<1>2. /\ wish.do \in {"organise", "enter", "register", "manage", "login", "google", "return"}
      /\ wish.do \in Phases /\ wish.do \in PhasesOf(wish.do) /\ wish.do \notin Departed
  BY PhasesHold DEF Wishes, Phases, Departed
<1>3. v \in VisitType
  BY <1>1, <1>2 DEF VisitType, Active
<1>4. /\ visits' = Append(visits, v)
      /\ UNCHANGED <<owners, tenants, owning, accounts, consents, kept>>
  BY DEF Begins
<1> HIDE DEF v
<1>5. /\ visits' \in Seq(VisitType) /\ DOMAIN visits' = DOMAIN visits \cup {n}
      /\ \A k \in DOMAIN visits : visits'[k] = visits[k] /\ Wish(k)' = Wish(k)
      /\ visits'[n] = v
  <2>1. visits' \in Seq(VisitType) /\ Len(visits') = n /\ visits'[n] = v
    BY <1>0, <1>1, <1>3, <1>4
  <2>2. \A k \in DOMAIN visits : visits'[k] = visits[k]
    BY <1>1, <1>3, <1>4
  <2>3. DOMAIN visits' = 1..n
    BY <2>1
  <2> QED
    BY <1>0, <1>1, <2>1, <2>2, <2>3 DEF Wish
<1>6. \A k \in DOMAIN visits : k < n /\ k # n
  BY <1>0, <1>1
<1>7. /\ Wish(n)' = wish /\ v.pc = wish.do /\ v.own = 0
      /\ v.with = {k \in DOMAIN visits : visits[k].pc \notin Departed}
  BY <1>5 DEF v, Wish, Active
<1>8. SignupsTypeOK'
  <2>1. \A k \in DOMAIN visits : Document(k)' = Document(k)
    BY <1>5 DEF Document
  <2>2. DocsOK(owners)' /\ DocsOK(accounts)'
    BY <1>4, <1>5, <2>1 DEF SignupsIInv, SignupsTypeOK, DocsOK
  <2> QED
    BY <1>4, <1>5, <2>2 DEF SignupsIInv, SignupsTypeOK
<1>9. n \notin DOMAIN owners /\ n \notin DOMAIN tenants /\ n \notin owning /\ n \notin consents
  BY <1>1, <1>6 DEF SignupsIInv, SignupsTypeOK, DocsOK
<1>10. CallOK(n)'
  <2>1. CameAfter(n)'
    BY <1>5, <1>6, <1>7 DEF CameAfter
  <2>2. PhaseOK(n)' /\ AccountOK(n)' /\ SessionOK(n)'
    BY <1>2, <1>5, <1>7 DEF PhaseOK, AccountOK, SessionOK, Departed
  <2>3. Papers(n)'
    BY <1>2, <1>4, <1>5, <1>7, <1>9 DEF Papers
  <2>4. OneAddress(n)' /\ OneSlug(n)'
    BY <1>2, <1>4, <1>5, <1>7, <1>9 DEF OneAddress, OneSlug, AddressSeen, SlugSeen
  <2>5. FoundOK(n)'
    BY <1>2, <1>5, <1>7, Unsought
  <2> QED
    BY <2>1, <2>2, <2>3, <2>4, <2>5 DEF CallOK
<1>11. ASSUME NEW k \in DOMAIN visits
       PROVE  CallOK(k)'
  <2>1. CallOK(k) /\ visits'[k] = visits[k] /\ Wish(k)' = Wish(k) /\ k # n
    BY <1>5, <1>6 DEF SignupsIInv
  <2>2. CameAfter(k)'
    <3>1. k \in Nat /\ n \in Nat /\ ~ (n < k)
      BY <1>1, <1>6
    <3> QED
      BY <1>5, <2>1, <3>1 DEF CallOK, CameAfter
  <2>3. PhaseOK(k)' /\ AccountOK(k)' /\ SessionOK(k)'
    BY <1>4, <2>1 DEF CallOK, PhaseOK, AccountOK, SessionOK
  <2>4. Papers(k)'
    BY <1>4, <2>1 DEF CallOK, Papers
  <2>5. \A i \in DOMAIN visits : Apart(i, k) => Apart(i, k)'
    BY <1>5 DEF Apart, Meets
  <2>6. OneAddress(k)'
    BY <1>4, <2>1, <2>5 DEF CallOK, OneAddress, AddressSeen, SignupsIInv, SignupsTypeOK, DocsOK
  <2>7. OneSlug(k)'
    BY <1>4, <2>1, <2>5 DEF CallOK, OneSlug, SlugSeen, SignupsIInv, SignupsTypeOK
  <2>8. FoundOK(k)'
    <3>1. \A j \in DOMAIN visits : Past(j) => Past(j)'
      BY <1>5 DEF Past
    <3>2. visits'[k].pc = "memberships" =>
            (/\ visits[k].own \in DOMAIN visits /\ Past(visits[k].own)
             /\ Wish(visits[k].own).email = Wish(k).email)'
      BY <1>5, <2>1, <3>1 DEF CallOK, FoundOK
    <3>3. ASSUME NEW m \in DOMAIN visits', (Wish(k).do \in {"enter", "login"})',
                 visits'[k].pc = "refused", Registered(m, k)'
          PROVE  \/ visits'[k].blind
                 \/ \E i \in DOMAIN visits' \ {m} : Past(i)' /\ (Wish(i).email = Wish(k).email)'
      <4>1. m \in DOMAIN visits
        <5>1. m < k /\ k \in Nat /\ n \in Nat /\ ~ (n < k)
          BY <1>1, <1>6, <3>3 DEF Registered
        <5> QED
          BY <1>5, <5>1
      <4>2. Registered(m, k)
        BY <1>5, <2>1, <3>3, <4>1 DEF Registered
      <4>3. visits[k].blind \/ \E i \in DOMAIN visits \ {m} : Past(i) /\ Wish(i).email = Wish(k).email
        BY <2>1, <3>3, <4>1, <4>2 DEF CallOK, FoundOK
      <4> QED
        BY <1>5, <2>1, <3>1, <4>3
    <3> QED
      BY <3>2, <3>3 DEF FoundOK
  <2> QED
    BY <2>2, <2>3, <2>4, <2>6, <2>7, <2>8 DEF CallOK
<1>12. OneUser'
  BY <1>4 DEF SignupsIInv, OneUser
<1>13. ConsentsOK'
  <2>1. ~ Used(n)'
    BY <1>2, <1>5, <1>7 DEF Used
  <2>2. \A k \in DOMAIN visits : Used(k)' <=> Used(k)
    BY <1>5 DEF Used
  <2> QED
    BY <1>4, <1>5, <2>1, <2>2 DEF SignupsIInv, SignupsTypeOK, ConsentsOK
<1> QED
  BY <1>5, <1>8, <1>10, <1>11, <1>12, <1>13 DEF SignupsIInv

LEMMA LapseStep ==
  ASSUME SignupsIInv, NEW s, ConsentLapses(s)
  PROVE  SignupsIInv'
<1>1. UNCHANGED <<owners, tenants, owning, accounts, kept, visits>> /\ consents' \subseteq consents
  BY DEF ConsentLapses
<1>2. SignupsTypeOK' /\ OneUser'
  BY <1>1 DEF SignupsIInv, SignupsTypeOK, DocsOK, Document, Wish, OneUser
<1>3. ConsentsOK'
  BY <1>1 DEF SignupsIInv, ConsentsOK, Used, Wish
<1>4. \A n \in DOMAIN visits : CallOK(n)'
  BY <1>1 DEF SignupsIInv, CallOK, CameAfter, PhaseOK, Papers, OneAddress, AddressSeen, OneSlug,
              SlugSeen, Apart, Meets, AccountOK, SessionOK, FoundOK, Past, Registered, Wish
<1> QED
  BY <1>1, <1>2, <1>3, <1>4 DEF SignupsIInv

LEMMA SignupsHold == SignupsSpec => []SignupsIInv
<1>1. SignupsInit => SignupsIInv
  <2> SUFFICES ASSUME SignupsInit PROVE SignupsIInv
    OBVIOUS
  <2>1. visits \in Seq(VisitType) /\ DOMAIN visits = {}
    BY DEF SignupsInit
  <2>2. /\ DOMAIN owners = {} /\ DOMAIN tenants = {} /\ DOMAIN accounts = {}
        /\ owning = {} /\ kept = {} /\ consents = {}
    BY DEF SignupsInit
  <2> QED
    BY <2>1, <2>2 DEF SignupsIInv, SignupsTypeOK, DocsOK, OneUser, ConsentsOK
<1>2. SignupsIInv /\ [SignupsNext]_signupVars => SignupsIInv'
  <2> SUFFICES ASSUME SignupsIInv, [SignupsNext]_signupVars PROVE SignupsIInv'
    OBVIOUS
  <2>1. CASE Len(visits) < Len(Visits) /\ \E wish \in Visits[Len(visits) + 1] : Begins(wish)
    <3>1. PICK wish \in Visits[Len(visits) + 1] : Begins(wish)
      BY <2>1
    <3>2. Len(visits) \in Nat /\ Len(Visits) \in Nat /\ DOMAIN Visits = 1..Len(Visits)
      BY VisitsAssumption DEF SignupsIInv, SignupsTypeOK
    <3>3. Len(visits) + 1 \in DOMAIN Visits
      BY <2>1, <3>2
    <3>4. wish \in Wishes
      BY <3>1, <3>3, VisitsAssumption
    <3> QED
      BY <3>1, <3>4, BeginsStep
  <2>2. ASSUME NEW n \in DOMAIN visits,
               \/ CheckEmail(n) \/ CheckSlug(n) \/ InsertOwner(n) \/ InsertTenant(n)
               \/ InsertMembership(n) \/ UndoTenant(n) \/ UndoOwner(n)
        PROVE  SignupsIInv'
    BY <2>2, CheckEmailStep, CheckSlugStep, InsertOwnerStep, InsertTenantStep,
       InsertMembershipStep, UndoTenantStep, UndoOwnerStep, StepHolds
  <2>3. ASSUME NEW n \in DOMAIN visits,
               \/ TenantLogin(n) \/ Login(n) \/ SelectMembership(n) \/ AssignRole(n) \/ CountAddress(n)
               \/ InsertAccount(n) \/ StartTenantSession(n) \/ StartProjectSession(n)
        PROVE  SignupsIInv'
    BY <2>3, TenantLoginStep, LoginStep, SelectMembershipStep, AssignRoleStep, InsertAccountStep,
       KeepStep, StepHolds
  <2>4. ASSUME NEW n \in DOMAIN visits,
               \/ GoogleLogin(n) \/ ConsumeState(n) \/ FindGoogleUser(n) \/ CreateGoogleUser(n)
               \/ Crashes(n)
        PROVE  SignupsIInv'
    BY <2>4, GoogleLoginStep, ConsumeStateStep, FindGoogleUserStep, CreateGoogleUserStep, CrashStep,
       StepHolds
  <2>5. CASE \E s \in consents : ConsentLapses(s)
    BY <2>5, LapseStep
  <2>6. CASE UNCHANGED signupVars
    BY <2>6 DEF signupVars, SignupsIInv, SignupsTypeOK, DocsOK, Document, Wish, OneUser, ConsentsOK,
                Used, CallOK, CameAfter, PhaseOK, Papers, OneAddress, AddressSeen, OneSlug,
                SlugSeen, Apart, Meets, AccountOK, SessionOK, FoundOK, Past, Registered
  <2> QED
    BY <2>1, <2>2, <2>3, <2>4, <2>5, <2>6 DEF SignupsNext
<1> QED
  BY <1>1, <1>2, PTL DEF SignupsSpec

\* Type correctness of the calls (their phases by what they ask) and of the
\* documents, sessions and consents: each is that of the call that wrote it.
THEOREM SignupsTypes == SignupsSpec => []SignupsTypeOK
<1>1. SignupsIInv => SignupsTypeOK
  BY DEF SignupsIInv
<1> QED
  BY <1>1, SignupsHold, PTL

\* What a registration or a login was answered stays true for those who come
\* after it: one account for an address, a registration whole or taken back, its
\* owner let in, one browser for a consent (tenantAuthController.go,
\* authController.go), for any calls, however many at a time.
THEOREM SignupsKeepTheirWord == SignupsSpec => []AccountsKeepTheirWord
<1>1. SignupsIInv => AccountsKeepTheirWord
  <2> SUFFICES ASSUME SignupsIInv PROVE AccountsKeepTheirWord
    OBVIOUS
  <2>1. \A n \in DOMAIN visits : CallOK(n)
    BY DEF SignupsIInv
  <2>2. OneAccountEach
    <3>1. ASSUME NEW i \in DOMAIN owners, NEW j \in DOMAIN owners, i # j,
                 owners[i].email = owners[j].email
          PROVE  Meets(i, j) \/ visits[i].blind \/ visits[j].blind
      <4>1. j \in DOMAIN visits /\ Wish(j).email = owners[j].email
        BY DEF SignupsIInv, SignupsTypeOK, DocsOK, Document
      <4> QED
        BY <2>1, <3>1, <4>1 DEF CallOK, OneAddress, AddressSeen, Apart
    <3>2. ASSUME NEW i \in DOMAIN tenants, NEW j \in DOMAIN tenants, i # j, tenants[i] = tenants[j]
          PROVE  Meets(i, j) \/ visits[i].blind \/ visits[j].blind
      <4>1. j \in DOMAIN visits /\ Wish(j).slug = tenants[j]
        BY DEF SignupsIInv, SignupsTypeOK
      <4> QED
        BY <2>1, <3>2, <4>1 DEF CallOK, OneSlug, SlugSeen, Apart
    <3> QED
      BY <3>1, <3>2 DEF OneAccountEach, SignupsIInv, OneUser
  <2>3. Wholly
    BY <2>1 DEF CallOK, Wholly, Papers, PhaseOK, Departed
  <2>4. GetsIn
    <3>1. ASSUME NEW n \in DOMAIN visits, NEW m \in DOMAIN visits, Wish(n).do \in {"enter", "login"},
                 Registered(m, n), visits[n].pc = "refused"
          PROVE  \/ visits[n].blind
                 \/ \E i \in DOMAIN visits \ {m} :
                      Wish(i).do = "organise" /\ Wish(i).email = Wish(n).email /\ visits[i].pc # "refused"
      <4>1. visits[n].blind \/ \E i \in DOMAIN visits \ {m} : Past(i) /\ Wish(i).email = Wish(n).email
        BY <2>1, <3>1 DEF CallOK, FoundOK
      <4> QED
        BY <4>1 DEF Past
    <3> QED
      BY <3>1 DEF GetsIn, Stands
  <2>5. EnteredOnce
    BY <2>1 DEF EnteredOnce, SignupsIInv, ConsentsOK, Used, CallOK, SessionOK, Stands
  <2> QED
    BY <2>2, <2>3, <2>4, <2>5 DEF AccountsKeepTheirWord
<1> QED
  BY <1>1, SignupsHold, PTL
=============================================================================
