------------------------------ MODULE LinkCache ------------------------------
(***************************************************************************)
(* The links table and the Redis redirect cache in front of it, under      *)
(* concurrent requests of the API: Resolve (every redirect and preview),   *)
(* Create, Update, Delete and Bulk of LinkService, the worker's prune, the *)
(* TTL of a cache entry and the passing of time that expires links.        *)
(*                                                                         *)
(* One statement against PostgreSQL or Redis is one step, so any two       *)
(* requests interleave between their statements.  A link is reduced to     *)
(* what decides a redirect: its destination, status, expiry and version.   *)
(* Its divert rules, which an update replaces in its transaction only when *)
(* it names them, are left out.                                            *)
(* A caller who may not see a link gets the answer for an unknown id, so   *)
(* ownership is not repeated here.                                         *)
(***************************************************************************)
EXTENDS Naturals

CONSTANTS
    Aliases,    \* short codes
    Ids,        \* link ids, fresh for every insert (postgres.NewID)
    Dests,      \* destinations
    Expiries,   \* values of expires_at; Never stands for NULL
    Proc,       \* request goroutines, over all API processes
    MaxTime,    \* bound on the clock
    MaxEdits,   \* bound on the update, delete and bulk requests started
    Grace,      \* runtime setting prune_grace_seconds, in clock units
    Faults,     \* TRUE: Redis calls may fail, requests may die half-way
    None,       \* no cache entry, no request, no link in hand
    Unborn,     \* an id not used yet
    Gone,       \* an id whose row was hard-deleted
    Unset       \* a field the request does not mention

Never    == 0
Statuses == {"active", "disabled"}

\* What a redirect is decided from, and what the cache stores (domain.Link).
Link == [id: Ids, alias: Aliases, version: Nat, dest: Dests,
         status: Statuses \cup {"deleted"}, expiry: Expiries]

\* A row of the table; retired: deleted_at is set.
Row == [link: Link, retired: BOOLEAN]

ASSUME LinkCacheAssumption ==
    /\ MaxTime \in Nat /\ MaxEdits \in Nat /\ Grace \in Nat
    /\ Never \in Expiries /\ Expiries \subseteq 0..MaxTime
    /\ Faults \in BOOLEAN
    /\ None \notin Link /\ None \notin Aliases
    /\ Unborn \notin Row /\ Gone \notin Row /\ Unborn # Gone
    /\ Unset \notin Dests /\ Unset \notin Statuses /\ Unset \notin Expiries

Patch == [dest: Dests \cup {Unset}, status: Statuses \cup {Unset},
          expiry: Expiries \cup {Unset}]

\* The SET clauses of the bulk statements.
BulkChange == [action: {"delete"}]
         \cup [action: {"status"}, value: Statuses]
         \cup [action: {"expiry"}, value: Expiries]

VARIABLES
    links,    \* the links table: a row per id, with its deleted_at
    cache,    \* Redis: the entry under each alias
    now,      \* the clock both processes and the database read
    pc,       \* how far each request has got
    patch,    \* the body of each update request
    copy,     \* the link each request has in hand
    todo,     \* aliases a bulk request has yet to evict
    edits     \* update, delete and bulk requests started so far

vars == <<links, cache, now, pc, patch, copy, todo, edits>>
db   == <<links, now, edits>>

Stages == {"idle", "resolve_read", "resolve_fill", "create_fill", "update_write",
           "update_reread", "update_fill", "delete_write", "delete_evict",
           "bulk_evict", "answered"}

TypeOK ==
    /\ links \in [Ids -> Row \cup {Unborn, Gone}]
    /\ cache \in [Aliases -> Link \cup {None}]
    /\ now \in 0..MaxTime
    /\ pc \in [Proc -> Stages]
    /\ patch \in [Proc -> Patch \cup {None}]
    /\ copy \in [Proc -> Link \cup Aliases \cup {None}]
    /\ todo \in [Proc -> SUBSET Aliases]
    /\ edits \in 0..MaxEdits

Init ==
    /\ links = [i \in Ids |-> Unborn]
    /\ cache = [a \in Aliases |-> None]
    /\ now = 0
    /\ pc = [p \in Proc |-> "idle"]
    /\ patch = [p \in Proc |-> None]
    /\ copy = [p \in Proc |-> None]
    /\ todo = [p \in Proc |-> {}]
    /\ edits = 0

-----------------------------------------------------------------------------
(* The table                                                               *)

Exists(i) == links[i] \notin {Unborn, Gone}

\* deleted_at IS NULL, the filter of every query on links.
Live(i) == Exists(i) /\ ~links[i].retired

\* The row holding an alias, retired or not: the column is UNIQUE.
Holder(a) == {i \in Ids : Exists(i) /\ links[i].link.alias = a}

\* GetLinkByAlias.
LiveHolder(a) == {i \in Holder(a) : Live(i)}

\* isUsable, evaluated when the link is about to be served.
Usable(l) == l.status = "active" /\ (l.expiry = Never \/ l.expiry > now)

\* The link a request would be redirected by, were this its lookup's result.
Target(l) == IF l # None /\ Usable(l) THEN l.dest ELSE None

\* One UPDATE statement: new field values, version+1, updated_at.
Updated(row, dest, status, expiry) ==
    LET l == row.link
    IN  [row EXCEPT !.link = [l EXCEPT !.dest = dest, !.status = status,
                                       !.expiry = expiry, !.version = l.version + 1]]

Retire(row) ==
    LET l == row.link
    IN  [row EXCEPT !.retired = TRUE,
                    !.link = [l EXCEPT !.status = "deleted", !.version = l.version + 1]]

-----------------------------------------------------------------------------
(* Requests: common parts                                                  *)

Goto(p, stage) == pc' = [pc EXCEPT ![p] = stage]
Carry(p, x)    == copy' = [copy EXCEPT ![p] = x]

\* The handler answers; x is the link it answers with, None for an error.
Answer(p, x) ==
    /\ Goto(p, "answered") /\ Carry(p, x)
    /\ patch' = [patch EXCEPT ![p] = None]
    /\ todo'  = [todo EXCEPT ![p] = {}]

\* SetLink / DeleteLink; the error is ignored by every caller.
Put(a, x) ==
    \/ cache' = [cache EXCEPT ![a] = x]
    \/ Faults /\ UNCHANGED cache

StartEdit == edits < MaxEdits /\ edits' = edits + 1

-----------------------------------------------------------------------------
(* LinkService.Resolve                                                     *)

\* GET from Redis.  A hit is the whole answer, also when it is not usable.
ResolveHit(p, a) ==
    /\ pc[p] = "idle" /\ cache[a] # None
    /\ Answer(p, IF Usable(cache[a]) THEN cache[a] ELSE None)
    /\ UNCHANGED <<db, cache>>

ResolveMiss(p, a) ==
    /\ pc[p] = "idle" /\ (cache[a] = None \/ Faults)
    /\ Goto(p, "resolve_read") /\ Carry(p, a)
    /\ UNCHANGED <<db, cache, patch, todo>>

ResolveRead(p) ==
    /\ pc[p] = "resolve_read"
    /\ IF \E i \in LiveHolder(copy[p]) : Usable(links[i].link)
       THEN /\ \E i \in LiveHolder(copy[p]) : Carry(p, links[i].link)
            /\ Goto(p, "resolve_fill")
            /\ UNCHANGED <<patch, todo>>
       ELSE Answer(p, None)
    /\ UNCHANGED <<db, cache>>

ResolveFill(p) ==
    /\ pc[p] = "resolve_fill"
    /\ Put(copy[p].alias, copy[p])
    /\ Answer(p, copy[p])
    /\ UNCHANGED db

-----------------------------------------------------------------------------
(* LinkService.Create, from its INSERT on                                  *)

Create(p, i, a, d, e) ==
    /\ pc[p] = "idle" /\ links[i] = Unborn
    /\ LET link == [id |-> i, alias |-> a, version |-> 1, dest |-> d,
                    status |-> "active", expiry |-> e]
       IN  IF Holder(a) = {}
           THEN /\ links' = [links EXCEPT ![i] = [link |-> link, retired |-> FALSE]]
                /\ Goto(p, "create_fill") /\ Carry(p, link)
                /\ UNCHANGED <<patch, todo>>
           ELSE /\ Answer(p, None) /\ UNCHANGED links
    /\ UNCHANGED <<cache, now, edits>>

CreateFill(p) ==
    /\ pc[p] = "create_fill"
    /\ Put(copy[p].alias, copy[p])
    /\ Answer(p, copy[p])
    /\ UNCHANGED db

-----------------------------------------------------------------------------
(* LinkService.Update                                                      *)

\* GetLink, then the request's fields laid over the copy.
UpdateRead(p, i, r) ==
    /\ pc[p] = "idle" /\ StartEdit
    /\ IF Live(i)
       THEN LET l == links[i].link
                Pick(new, old) == IF new = Unset THEN old ELSE new
            IN  /\ Carry(p, [l EXCEPT !.dest = Pick(r.dest, @),
                                      !.status = Pick(r.status, @),
                                      !.expiry = Pick(r.expiry, @)])
                /\ patch' = [patch EXCEPT ![p] = r]
                /\ Goto(p, "update_write")
                /\ UNCHANGED todo
       ELSE Answer(p, None)
    /\ UNCHANGED <<links, cache, now>>

\* Mutant of UpdateWrite: no "deleted_at IS NULL" in the UPDATE.
UpdateWriteAnyRow(p) ==
    /\ pc[p] = "update_write"
    /\ IF Exists(copy[p].id)
       THEN /\ links' = [links EXCEPT ![copy[p].id] =
                            Updated(@, copy[p].dest, copy[p].status, copy[p].expiry)]
            /\ Goto(p, "update_reread")
            /\ UNCHANGED <<patch, copy, todo>>
       ELSE Answer(p, None) /\ UNCHANGED links
    /\ UNCHANGED <<cache, now, edits>>

\* Mutant of UpdateWrite: the request's fields are written, omitted ones too.
UpdateWriteNoMerge(p) ==
    /\ pc[p] = "update_write"
    /\ Live(copy[p].id)
    /\ links' = [links EXCEPT ![copy[p].id] =
                     Updated(@, patch[p].dest, patch[p].status, patch[p].expiry)]
    /\ Goto(p, "update_reread")
    /\ UNCHANGED <<cache, now, edits, patch, copy, todo>>

\* Store.UpdateLink: the whole copy is written back, whatever is there now.
UpdateWrite(p) ==
    /\ pc[p] = "update_write"
    /\ IF Live(copy[p].id)
       THEN /\ links' = [links EXCEPT ![copy[p].id] =
                            Updated(@, copy[p].dest, copy[p].status, copy[p].expiry)]
            /\ Goto(p, "update_reread")
            /\ UNCHANGED <<patch, copy, todo>>
       ELSE Answer(p, None) /\ UNCHANGED links
    /\ UNCHANGED <<cache, now, edits>>

\* Mutant of UpdateReread: the draft is cached instead of the stored row.
UpdateKeepDraft(p) ==
    /\ pc[p] = "update_reread"
    /\ Goto(p, "update_fill")
    /\ UNCHANGED <<db, cache, patch, copy, todo>>

UpdateReread(p) ==
    /\ pc[p] = "update_reread"
    /\ IF Live(copy[p].id)
       THEN /\ Carry(p, links[copy[p].id].link)
            /\ Goto(p, "update_fill")
            /\ UNCHANGED <<patch, todo>>
       ELSE Answer(p, None)
    /\ UNCHANGED <<db, cache>>

UpdateFill(p) ==
    /\ pc[p] = "update_fill"
    /\ Put(copy[p].alias, copy[p])
    /\ Answer(p, copy[p])
    /\ UNCHANGED db

-----------------------------------------------------------------------------
(* LinkService.Delete                                                      *)

DeleteRead(p, i) ==
    /\ pc[p] = "idle" /\ StartEdit
    /\ IF Live(i)
       THEN /\ Carry(p, links[i].link) /\ Goto(p, "delete_write")
            /\ UNCHANGED <<patch, todo>>
       ELSE Answer(p, None)
    /\ UNCHANGED <<links, cache, now>>

DeleteWrite(p) ==
    /\ pc[p] = "delete_write"
    /\ IF Live(copy[p].id)
       THEN /\ links' = [links EXCEPT ![copy[p].id] = Retire(@)]
            /\ Goto(p, "delete_evict")
            /\ UNCHANGED <<patch, copy, todo>>
       ELSE Answer(p, None) /\ UNCHANGED links
    /\ UNCHANGED <<cache, now, edits>>

DeleteEvict(p) ==
    /\ pc[p] = "delete_evict"
    /\ Put(copy[p].alias, None)
    /\ Answer(p, None)
    /\ UNCHANGED db

-----------------------------------------------------------------------------
(* LinkService.Bulk: delete, disable, enable, set_expiry.  (tag and untag  *)
(* change nothing a redirect is decided from.)                             *)

BulkWrite(p, S, c) ==
    /\ pc[p] = "idle" /\ StartEdit
    /\ LET hit == {i \in S : Live(i)}
           After(row) ==
               CASE c.action = "delete" -> Retire(row)
                 [] c.action = "status" ->
                        Updated(row, row.link.dest, c.value, row.link.expiry)
                 [] c.action = "expiry" ->
                        Updated(row, row.link.dest, row.link.status, c.value)
       IN  IF hit # {}
           THEN /\ links' = [i \in Ids |->
                                IF i \in hit THEN After(links[i]) ELSE links[i]]
                /\ todo' = [todo EXCEPT ![p] = {links[i].link.alias : i \in hit}]
                /\ Goto(p, "bulk_evict")
                /\ UNCHANGED <<patch, copy>>
           ELSE Answer(p, None) /\ UNCHANGED links
    /\ UNCHANGED <<cache, now>>

\* evict: one DEL per alias, in the order RETURNING produced them.
BulkEvict(p) ==
    /\ pc[p] = "bulk_evict"
    /\ \E a \in todo[p] :
          /\ Put(a, None)
          /\ IF todo[p] = {a}
             THEN Answer(p, None)
             ELSE /\ todo' = [todo EXCEPT ![p] = @ \ {a}]
                  /\ UNCHANGED <<pc, patch, copy>>
    /\ UNCHANGED db

-----------------------------------------------------------------------------
(* The rest of the world                                                   *)

\* The connection is done with the answer.
Hangup(p) ==
    /\ pc[p] = "answered"
    /\ Goto(p, "idle") /\ Carry(p, None)
    /\ UNCHANGED <<db, cache, patch, todo>>

\* The API process dies, or the 30 s timeout cancels every later statement.
Die(p) ==
    /\ Faults /\ pc[p] \notin {"idle", "answered"}
    /\ Goto(p, "idle") /\ Carry(p, None)
    /\ patch' = [patch EXCEPT ![p] = None]
    /\ todo'  = [todo EXCEPT ![p] = {}]
    /\ UNCHANGED <<db, cache>>

\* The worker's Store.PruneExpiredLinks: expired long enough, retired or not.
\* (One pass deletes at most PRUNE_LIMIT rows, 1000; there are never as many.)
Prunable(i) ==
    /\ Exists(i)
    /\ links[i].link.expiry # Never
    /\ links[i].link.expiry + Grace < now

Prune ==
    /\ \E i \in Ids : Prunable(i)
    /\ links' = [i \in Ids |-> IF Prunable(i) THEN Gone ELSE links[i]]
    /\ UNCHANGED <<cache, now, pc, patch, copy, todo, edits>>

\* Mutant of CacheExpire: SET without a TTL, so no entry goes by itself.
CacheExpireNoTTL(a) == FALSE /\ UNCHANGED vars /\ cache[a] # None

\* Redis drops an entry five minutes after its SET, or earlier (a flush).
CacheExpire(a) ==
    /\ cache[a] # None
    /\ cache' = [cache EXCEPT ![a] = None]
    /\ UNCHANGED <<db, pc, patch, copy, todo>>

Tick ==
    /\ now < MaxTime
    /\ now' = now + 1
    /\ UNCHANGED <<links, cache, pc, patch, copy, todo, edits>>

-----------------------------------------------------------------------------
\* A request's first statement.
Begin(p) ==
    \/ \E a \in Aliases : ResolveHit(p, a) \/ ResolveMiss(p, a)
    \/ \E i \in Ids, a \in Aliases, d \in Dests, e \in Expiries : Create(p, i, a, d, e)
    \/ \E i \in Ids, r \in Patch : UpdateRead(p, i, r)
    \/ \E i \in Ids : DeleteRead(p, i)
    \/ \E S \in SUBSET Ids, c \in BulkChange : BulkWrite(p, S, c)

\* A request's later statements.
Continue(p) ==
    \/ ResolveRead(p) \/ ResolveFill(p) \/ CreateFill(p)
    \/ UpdateWrite(p) \/ UpdateReread(p) \/ UpdateFill(p)
    \/ DeleteWrite(p) \/ DeleteEvict(p) \/ BulkEvict(p) \/ Hangup(p)

Environment == Prune \/ Tick \/ \E a \in Aliases : CacheExpire(a)

Next == (\E p \in Proc : Begin(p) \/ Continue(p) \/ Die(p)) \/ Environment

\* A request that has begun goes on, and Redis expires every entry.  Nothing
\* makes clients send requests, links be edited or the worker prune.
Fairness ==
    /\ \A p \in Proc : WF_vars(Continue(p))
    /\ \A a \in Aliases : WF_vars(CacheExpire(a))

Spec == Init /\ [][Next]_vars
FairSpec == Spec /\ Fairness

\* The same requests and prunes, one at a time.
Quiet == \A p \in Proc : pc[p] \in {"idle", "answered"}

SerialNext ==
    \/ \E p \in Proc : /\ Begin(p) \/ Continue(p)
                       /\ \A q \in Proc \ {p} : pc[q] = "idle"
    \/ Quiet /\ Prune
    \/ Tick
    \/ \E a \in Aliases : CacheExpire(a)

SerialSpec == Init /\ [][SerialNext]_vars

-----------------------------------------------------------------------------
(* Properties                                                              *)

\* What an alias redirects to according to the table, and to the cache.
TableTarget(a) == IF LiveHolder(a) = {} THEN None
                  ELSE Target(links[CHOOSE i \in LiveHolder(a) : TRUE].link)
CacheTarget(a) == Target(cache[a])

Coherent(a) == cache[a] # None => CacheTarget(a) = TableTarget(a)

\* Every link outside the table that somebody may serve or cache: the cache's
\* entries and what requests have read back or are about to answer with.
Holding == {"resolve_fill", "create_fill", "update_fill", "answered"}
Copies == {cache[a] : a \in Aliases} \cup {copy[p] : p \in {q \in Proc : pc[q] \in Holding}}

\* l is a version of its row: not ahead of it, and the row's content exactly
\* if it has the row's version.
VersionOf(l, row) ==
    /\ l.alias = row.link.alias
    /\ l.version <= row.link.version
    /\ l.version = row.link.version => l = row.link

\* A copy is a state of its link that the database really held, and two
\* copies of one version agree: a visitor is never sent by a mixture of two
\* edits, however fills, updates and bulk edits overlap (Update reads the row
\* back before it caches it).
CopiesAreVersions == \A l \in Copies \ {None} :
    /\ links[l.id] # Unborn
    /\ Exists(l.id) => VersionOf(l, links[l.id])
    /\ \A m \in Copies \ {None} : l.id = m.id /\ l.version = m.version => l = m

\* What a request has in hand at each stage.
StageCopies == \A p \in Proc :
    /\ pc[p] = "idle" => copy[p] = None
    /\ pc[p] = "bulk_evict" => copy[p] = None
    /\ pc[p] = "resolve_read" => copy[p] \in Aliases
    /\ pc[p] = "answered" => copy[p] \in Link \cup {None}
    /\ pc[p] \notin {"idle", "bulk_evict", "resolve_read", "answered"} => copy[p] \in Link

\* A row is the one its id names.
RowIds == \A i \in Ids : Exists(i) => links[i].link.id = i

\* The inductive invariant.
IInv == TypeOK /\ StageCopies /\ RowIds /\ CopiesAreVersions

\* A retired link is final: no update or bulk edit that was already under way
\* changes it or brings it back; only a prune removes it (deleted_at IS NULL
\* in UpdateLink and bulkLinkUpdate).
RetiredIsFinal == [][\A i \in Ids :
    Exists(i) /\ links[i].retired => links'[i] \in {links[i], Gone}]_vars

\* Whatever raced, failed or died, once edits stop the cache comes to answer
\* as the table does and stays so: an entry is not refreshed by being read,
\* so the TTL ends every stale one.
EventuallyCoherent == <>[](\A a \in Aliases : Coherent(a))

\* An alias without a live link that the cache serves with nobody left to evict it.
ServedThoughRetired(a) ==
    /\ LiveHolder(a) = {} /\ CacheTarget(a) # None
    /\ \A p \in Proc : pc[p] \notin {"delete_evict", "bulk_evict"}

\* smoke-api.mjs:1045 "a deleted link stops redirecting"; store.go:333-334:
\* "Soft-deleted links are excluded so callers cannot resolve a short code
\* that was retired".  A redirect does not bring back what was deleted and
\* evicted since it read the link (links.go:304-311).
RetiredNeverResolves == [][\A p \in Proc, a \in Aliases :
    ResolveFill(p) /\ ServedThoughRetired(a)' => ServedThoughRetired(a)]_vars

\* requests.go:35-36: a request tells "leave unchanged" (omitted / null) from
\* "remove the expiry".  An update that omits the expiry leaves the row the one
\* it has (links.go:426 writes back the copy read at links.go:346).
OmittedExpiryKept == [][\A p \in Proc :
    UpdateWrite(p) /\ Live(copy[p].id) /\ patch[p].expiry = Unset
        => links'[copy[p].id].link.expiry = links[copy[p].id].link.expiry]_vars
=============================================================================
