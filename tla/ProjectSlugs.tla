---------------------------- MODULE ProjectSlugs ----------------------------
(***************************************************************************)
(* The slug mappings in Redis: the requests of a project name it by its    *)
(* slug, and both the REST handlers (utils/tenantContext.go) and the       *)
(* WebSocket hub (ws/hub.go) keep the project a slug led to under one key. *)
(* Updates and deletions of projects delete the keys of the slugs they     *)
(* know (ProjectLifecycle, Invalidate), after their write.                 *)
(***************************************************************************)
EXTENDS ProjectLifecycle

CONSTANTS
  Resolvers,   \* lookups of a slug made at the same time
  Ways,        \* the ways of this instance: "rest", "ws" or both
  RedisFails   \* BOOLEAN: a call of Redis may fail

ASSUME WaysAssumption == Ways \subseteq {"rest", "ws"} /\ RedisFails \in BOOLEAN

VARIABLES
  mapping,     \* Redis: the project kept for each slug
  look         \* the lookups

slugVars == <<mapping, look>>
allVars == <<vars, slugVars>>

NoLookup == [pc |-> "idle", via |-> "rest", slug |-> NoOne, p |-> NoOne, since |-> {}, busy |-> {}]

SlugsInit ==
  /\ Init
  /\ mapping = [s \in Slugs |-> NoOne]
  /\ look = [w \in Resolvers |-> NoLookup]

(* The active projects under their slugs, and the projects a request is    *)
(* being served for; a lookup remembers those of its time.                 *)
Live == {<<p, row[p].slug>> : p \in {q \in Projects : Active(q)}}
Busy == {req[r].p : r \in Requests} \cap Projects
Watch == look' = [w \in Resolvers |-> IF look[w].pc = "idle" THEN look[w]
                                      ELSE [look[w] EXCEPT !.since = @ \cup Live', !.busy = @ \cup Busy']]

InvalidateProjectSlugMappings(r) ==
  /\ Invalidate(r)
  /\ \/ mapping' = [s \in Slugs |-> IF s \in {req[r].old, req[r].slug} THEN NoOne ELSE mapping[s]]
     \/ RedisFails /\ UNCHANGED mapping
  /\ UNCHANGED look

-----------------------------------------------------------------------------
Step(w, pc, p) == look' = [look EXCEPT ![w].pc = pc, ![w].p = p]

StartLookup(w) ==
  \E s \in Slugs, via \in Ways :
    /\ look[w].pc \in {"idle", "answered"} /\ used.ops < MaxOps
    /\ look' = [look EXCEPT ![w] = [pc |-> "cache", via |-> via, slug |-> s, p |-> NoOne,
                                   since |-> Live, busy |-> Busy]]
    /\ used' = [used EXCEPT !.ops = @ + 1]
    /\ UNCHANGED <<row, stored, grants, owner, held, req, disturbed, mapping>>

(* Fault: a mapping that is found is trusted. *)
FaultTrustMapping(w) ==
  LET p == mapping[look[w].slug] IN
  /\ look[w].pc = "cache"
  /\ IF p = NoOne THEN Step(w, "find", NoOne) ELSE Step(w, "answered", p)
  /\ UNCHANGED <<vars, mapping>>
(* A mapping is looked at by REST again, and trusted by the hub; the       *)
(* circuit breaker may be open, which is a miss.                           *)
ReadMapping(w) ==
  LET p == mapping[look[w].slug] IN
  /\ look[w].pc = "cache"
  /\ \/ (p = NoOne \/ RedisFails) /\ Step(w, "find", NoOne)
     \/ p # NoOne /\ Step(w, IF look[w].via = "rest" THEN "verify" ELSE "answered", p)
  /\ UNCHANGED <<vars, mapping>>

(* verifyCachedProjectActive: the project, not the slug, is looked at. *)
VerifyActive(w) ==
  /\ look[w].pc = "verify"
  /\ \/ Active(look[w].p) /\ Step(w, "answered", look[w].p) /\ UNCHANGED mapping
     \/ ~Active(look[w].p) /\ Step(w, "answered", NoOne) /\ mapping' = [mapping EXCEPT ![look[w].slug] = NoOne]
  /\ UNCHANGED vars

(* The row under the slug; REST asks for an active one. *)
FindProject(w) ==
  LET found == {p \in Projects : /\ Present(p) /\ row[p].slug = look[w].slug
                                 /\ look[w].via = "rest" => row[p].active} IN
  /\ look[w].pc = "find"
  /\ IF found = {} THEN Step(w, "answered", NoOne) ELSE \E p \in found : Step(w, "store", p)
  /\ UNCHANGED <<vars, mapping>>

(* The mapping is stored, by REST in the background; Redis may fail. *)
StoreMapping(w) ==
  /\ look[w].pc = "store"
  /\ \/ mapping' = [mapping EXCEPT ![look[w].slug] = look[w].p]
     \/ RedisFails /\ UNCHANGED mapping
  /\ Step(w, "answered", look[w].p)
  /\ UNCHANGED vars

MappingExpires(s) ==
  /\ mapping[s] # NoOne
  /\ mapping' = [mapping EXCEPT ![s] = NoOne]
  /\ UNCHANGED <<vars, look>>

SlugsNext ==
  \/ \E r \in Requests :
       \/ RequestStep(r) /\ Watch /\ UNCHANGED mapping
       \/ InvalidateProjectSlugMappings(r)
  \/ \E w \in Resolvers : \/ StartLookup(w) \/ ReadMapping(w) \/ VerifyActive(w)
                          \/ FindProject(w) \/ StoreMapping(w)
  \/ \E s \in Slugs : MappingExpires(s)

SlugsSpec == SlugsInit /\ [][SlugsNext]_allVars

-----------------------------------------------------------------------------
SlugsTypeOK ==
  /\ TypeOK
  /\ mapping \in [Slugs -> Projects \cup {NoOne}]
  /\ look \in [Resolvers -> [pc : {"idle", "cache", "verify", "find", "store", "answered"}, via : {"rest", "ws"},
                             slug : Slugs \cup {NoOne}, p : Projects \cup {NoOne},
                             since : SUBSET (Projects \X Slugs), busy : SUBSET Projects]]

Answered(w) == look[w].pc = "answered" /\ look[w].p # NoOne

(* A mapping never outlives the deactivation or deletion of its project:   *)
(* whatever mapping is stored late, a REST request is served for a project *)
(* only if it was active at some moment since the request came.            *)
ServedWhileActive ==
  \A w \in Resolvers : Answered(w) /\ look[w].via = "rest" => \E s \in Slugs : <<look[w].p, s>> \in look[w].since

(* What the comment of InvalidateProjectSlugMappings promises: renamed,    *)
(* deactivated and deleted projects stop resolving.  Once the update or    *)
(* the deletion of a project has been answered, a slug resolves to it only *)
(* if it is active under this slug.                                        *)
StopsResolving ==
  \A w \in Resolvers :
    Answered(w) /\ look[w].p \notin look[w].busy => <<look[w].p, look[w].slug>> \in look[w].since
=============================================================================
