----------------------------- MODULE MCRequests ------------------------------
(* Two requests of a caller under one key on the route of a write; a     *)
(* limit of two writes in a window.                                           *)
EXTENDS Requests

Limit(name, limit, subject, publicOnly, authenticatedOnly) ==
  [name |-> name, limit |-> limit, subject |-> subject,
   publicOnly |-> publicOnly, authenticatedOnly |-> authenticatedOnly]

Public == <<Limit("public", 2, "ip", TRUE, FALSE)>>
General == <<Limit("general", 3, "user", FALSE, TRUE)>>
Writing(limit) == <<Limit("write", limit, "userOrIp", FALSE, FALSE)>>

WriteRoute == <<Public, General, Writing(2)>>
ShortRoute == <<Public, Writing(1)>>

Call(user, header, key, hash) == [user |-> user, header |-> header, key |-> key, hash |-> hash]
KeyedWrites == {Call("ann", TRUE, "k", "a"), Call("ann", TRUE, "k", "b")}
Probing == {Call("ann", TRUE, Unkeyed, "a"), Call("", FALSE, Unkeyed, "a")}
=============================================================================
