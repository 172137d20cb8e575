------------------------------ MODULE MCSignups -------------------------------
(* Two people and one address; three calls, two at a time.                   *)
EXTENDS Signups

Visit(do, email, secret, slug, state) ==
  [do |-> do, email |-> email, secret |-> secret, slug |-> slug, state |-> state]

Organise(secret, slug) == Visit("organise", "ann", secret, slug, 0)
EnterWith(secret) == Visit("enter", "ann", secret, "", 0)
Register(secret) == Visit("register", "ann", secret, "", 0)
Manage == Visit("manage", "ann", "mine", "", 0)
LogIn(secret) == Visit("login", "ann", secret, "", 0)
Google == Visit("google", "", NoSecret, "", 0)
Return(email) == Visit("return", email, NoSecret, "", 1)

ThreeVisits ==
  << {Organise("mine", "acme"), Register("mine"), Google},
     {Organise("other", "acme"), Organise("other", "bolt"), Manage, Register("other"), Return("ann")},
     {EnterWith("mine"), LogIn("mine"), Return("ann"), Return("bob")} >>
=============================================================================
