------------------------------ MODULE OidcSignIn ------------------------------
(***************************************************************************)
(* Signing in through an external identity provider: authorization         *)
(* requests, callbacks, and the accounts made for first-time identities.   *)
(*                                                                         *)
(* Each step is one statement against PostgreSQL or one exchange with the  *)
(* provider.  Rows inserted by an open transaction are kept with the       *)
(* callback that runs it: nobody reads them before Commit, but an insert   *)
(* with the same unique key waits for that transaction to end.             *)
(***************************************************************************)
EXTENDS Integers, FiniteSets, TLC

CONSTANTS
    Providers,  \* oidc_providers.id; the slug never changes and is as good
    Subjects,   \* subjects the providers vouch for
    States,     \* random states, never drawn twice
    Accounts,   \* admin_users.id
    Bases,      \* names derived from claims
    Suffixes,   \* oidcUsernameSuffixes
    Attempts,   \* oidcProvisionAttempts
    Procs,      \* request goroutines
    None        \* NULL; no row

Identities == Providers \X Subjects
Names == Bases \X (1..Suffixes)

ASSUME OidcAssumption ==
    /\ Suffixes \in Nat \ {0} /\ Attempts \in Nat \ {0}
    /\ None \notin Providers \cup Subjects \cup States \cup Accounts \cup Names

\* For the model checker: what may change names.
Symmetry ==
    Permutations(Procs) \cup Permutations(States) \cup Permutations(Accounts) \cup Permutations(Providers)

VARIABLES
    enabled,    \* providers that may be signed in with
    auto,       \* providers with auto_provision
    deleted,    \* providers that are no more
    started,    \* the provider an authorization request is for
    request,    \* whether it may be claimed
    name,       \* admin_users.username
    identity,   \* oidc_identities: the account of a provider and subject
    pc,         \* how far each HTTP request has got
    provider,   \* the provider it has read
    provisions, \* its auto_provision then
    state,      \* the state it presents
    subject,    \* the subject of its ID token
    user,       \* the account it found, inserted, or is signing in
    wanted,     \* the name it is looking at
    tries,      \* attempts at a name it has lost
    lost,       \* ghost: the names it lost
    bound,      \* ghost: every binding there has been
    exchanged   \* ghost: codes exchanged for a request

rows     == <<enabled, auto, deleted, name, identity>>
requests == <<started, request>>
callback == <<provider, provisions, state, subject>>
naming   == <<user, wanted, tries, lost>>
ghosts   == <<bound, exchanged>>
vars == <<rows, requests, pc, callback, naming, ghosts>>

Stages == {"idle", "start", "claim", "exchange", "find", "search", "insert", "bind",
           "commit", "winner", "welcome"}

TypeOK ==
    /\ enabled \subseteq Providers /\ auto \subseteq Providers /\ deleted \subseteq Providers
    /\ started \in [States -> Providers \cup {None}]
    /\ request \in [States -> {"new", "open", "consumed", "gone"}]
    /\ name \in [Accounts -> Names \cup {None}]
    /\ identity \in [Identities -> Accounts \cup {None}]
    /\ pc \in [Procs -> Stages]
    /\ provider \in [Procs -> Providers \cup {None}] /\ provisions \in [Procs -> BOOLEAN]
    /\ state \in [Procs -> States \cup {None}] /\ subject \in [Procs -> Subjects \cup {None}]
    /\ user \in [Procs -> Accounts \cup {None}] /\ wanted \in [Procs -> Names \cup {None}]
    /\ tries \in [Procs -> 0..(Attempts - 1)] /\ lost \in [Procs -> SUBSET Names]
    /\ bound \subseteq Identities \X Accounts /\ exchanged \in [States -> Nat]

Init ==
    /\ enabled \in SUBSET Providers /\ auto \in SUBSET Providers /\ deleted = {}
    /\ started = [s \in States |-> None] /\ request = [s \in States |-> "new"]
    /\ name = [a \in Accounts |-> None]
    /\ identity = [i \in Identities |-> None]
    /\ pc = [p \in Procs |-> "idle"]
    /\ provider = [p \in Procs |-> None] /\ provisions = [p \in Procs |-> FALSE]
    /\ state = [p \in Procs |-> None] /\ subject = [p \in Procs |-> None]
    /\ user = [p \in Procs |-> None] /\ wanted = [p \in Procs |-> None]
    /\ tries = [p \in Procs |-> 0] /\ lost = [p \in Procs |-> {}]
    /\ bound = {} /\ exchanged = [s \in States |-> 0]

-----------------------------------------------------------------------------
Goto(p, from, to) == pc[p] = from /\ pc' = [pc EXCEPT ![p] = to]

End(p) ==
    /\ pc'         = [pc EXCEPT ![p] = "idle"]
    /\ provider'   = [provider EXCEPT ![p] = None]
    /\ provisions' = [provisions EXCEPT ![p] = FALSE]
    /\ state'      = [state EXCEPT ![p] = None]
    /\ subject'    = [subject EXCEPT ![p] = None]
    /\ user'       = [user EXCEPT ![p] = None]
    /\ wanted'     = [wanted EXCEPT ![p] = None]
    /\ tries'      = [tries EXCEPT ![p] = 0]
    /\ lost'       = [lost EXCEPT ![p] = {}]

\* An error, a refusal by the provider, a cancelled request or a crash: an open
\* transaction is rolled back.
Fail(p) == pc[p] # "idle" /\ End(p) /\ UNCHANGED <<rows, requests, ghosts>>

Identity(p) == <<provider[p], subject[p]>>

\* The uncommitted inserts of a callback's transaction.
PendingUser(p)     == pc[p] \in {"bind", "commit"}
PendingIdentity(p) == pc[p] = "commit"
Fresh(a) == name[a] = None /\ \A q \in Procs : PendingUser(q) => user[q] # a

NameLocked(n)     == \E q \in Procs : PendingUser(q) /\ wanted[q] = n
IdentityLocked(i) == \E q \in Procs : PendingIdentity(q) /\ Identity(q) = i
NameTaken(n)      == \E a \in Accounts : name[a] = n

-----------------------------------------------------------------------------
(* Start                                                                   *)

\* GetOIDCProviderBySlug, for Start and for Callback.
ReadProvider(p, k) ==
    /\ k \in enabled \ deleted
    /\ provider'   = [provider EXCEPT ![p] = k]
    /\ provisions' = [provisions EXCEPT ![p] = k \in auto]

Start(p, k) ==
    /\ Goto(p, "idle", "start") /\ ReadProvider(p, k)
    /\ UNCHANGED <<rows, requests, state, subject, naming, ghosts>>

\* A provider deleted meanwhile fails the foreign key.
CreateOIDCRequest(p, s) ==
    /\ pc[p] = "start" /\ request[s] = "new" /\ provider[p] \notin deleted
    /\ started' = [started EXCEPT ![s] = provider[p]]
    /\ request' = [request EXCEPT ![s] = "open"]
    /\ End(p)
    /\ UNCHANGED <<rows, ghosts>>

Expire(s) ==
    /\ request[s] = "open"
    /\ request' = [request EXCEPT ![s] = "gone"]
    /\ UNCHANGED <<rows, started, pc, callback, naming, ghosts>>

-----------------------------------------------------------------------------
(* Callback                                                                *)

\* A browser returns, perhaps again and perhaps to another provider's address,
\* with a state it was given; one that does not match its cookie goes nowhere.
Callback(p, k, s) ==
    /\ started[s] # None
    /\ Goto(p, "idle", "claim") /\ ReadProvider(p, k)
    /\ state' = [state EXCEPT ![p] = s]
    /\ UNCHANGED <<rows, requests, subject, naming, ghosts>>

\* Mutant of Claim: no "consumed_at IS NULL".
ClaimAgain(p) ==
    LET s == state[p] IN
    /\ Goto(p, "claim", "exchange") /\ request[s] \in {"open", "consumed"}
    /\ request' = [request EXCEPT ![s] = "consumed"]
    /\ started[s] = provider[p]
    /\ UNCHANGED <<rows, started, callback, naming, ghosts>>

Claim(p) ==
    LET s == state[p] IN
    /\ Goto(p, "claim", "exchange") /\ request[s] = "open"
    /\ request' = [request EXCEPT ![s] = "consumed"]
    /\ started[s] = provider[p]
    /\ UNCHANGED <<rows, started, callback, naming, ghosts>>

\* A request of another provider is spent all the same.
ClaimMismatch(p) ==
    /\ pc[p] = "claim" /\ request[state[p]] = "open" /\ started[state[p]] # provider[p]
    /\ request' = [request EXCEPT ![state[p]] = "consumed"]
    /\ End(p)
    /\ UNCHANGED <<rows, started, ghosts>>

\* The token exchange and the checks of the ID token.
Exchange(p, sub) ==
    /\ Goto(p, "exchange", "find")
    /\ subject' = [subject EXCEPT ![p] = sub]
    /\ exchanged' = [exchanged EXCEPT ![state[p]] = @ + 1]
    /\ UNCHANGED <<rows, requests, provider, provisions, state, naming, bound>>

\* FindOIDCIdentity, before provisioning and after losing the race for it.
Find(p) ==
    /\ pc[p] \in {"find", "winner"} /\ identity[Identity(p)] # None
    /\ pc' = [pc EXCEPT ![p] = "welcome"]
    /\ user' = [user EXCEPT ![p] = identity[Identity(p)]]
    /\ UNCHANGED <<rows, requests, callback, wanted, tries, lost, ghosts>>

\* deriveUsername, if new accounts were allowed when the provider was read.
FindNone(p, b) ==
    /\ Goto(p, "find", "search") /\ identity[Identity(p)] = None /\ provisions[p]
    /\ wanted' = [wanted EXCEPT ![p] = <<b, 1>>]
    /\ UNCHANGED <<rows, requests, callback, user, tries, lost, ghosts>>

-----------------------------------------------------------------------------
(* uniqueUsername and ProvisionOIDCUser                                    *)

\* The last candidate is used whether taken or not.
SearchTaken(p) ==
    /\ pc[p] = "search" /\ NameTaken(wanted[p])
    /\ IF wanted[p][2] < Suffixes
       THEN pc' = pc /\ wanted' = [wanted EXCEPT ![p] = <<@[1], @[2] + 1>>]
       ELSE pc' = [pc EXCEPT ![p] = "insert"] /\ wanted' = wanted
    /\ UNCHANGED <<rows, requests, callback, user, tries, lost, ghosts>>

SearchFree(p) ==
    /\ Goto(p, "search", "insert") /\ ~NameTaken(wanted[p])
    /\ UNCHANGED <<rows, requests, callback, naming, ghosts>>

InsertUser(p, a) ==
    /\ Goto(p, "insert", "bind") /\ Fresh(a)
    /\ ~NameLocked(wanted[p]) /\ ~NameTaken(wanted[p])
    /\ user' = [user EXCEPT ![p] = a]
    /\ UNCHANGED <<rows, requests, callback, wanted, tries, lost, ghosts>>

\* Mutant of LoseName: the loop has no bound.
LoseNameForever(p) ==
    /\ NameTaken(wanted[p])
    /\ tries' = [tries EXCEPT ![p] = @ + 1]
    /\ lost' = [lost EXCEPT ![p] = @ \cup {wanted[p]}]
    /\ UNCHANGED <<rows, requests, callback, user, ghosts>>

LoseName(p) ==
    /\ NameTaken(wanted[p]) /\ tries[p] + 1 < Attempts
    /\ tries' = [tries EXCEPT ![p] = @ + 1]
    /\ lost' = [lost EXCEPT ![p] = @ \cup {wanted[p]}]
    /\ UNCHANGED <<rows, requests, callback, user, ghosts>>

\* Mutant of NameConflict: the same name again.
NameConflictSame(p) == Goto(p, "insert", "insert") /\ LoseName(p) /\ wanted' = wanted

\* The insert is refused, and another name looked for.
NameConflict(p) ==
    /\ Goto(p, "insert", "search") /\ LoseName(p)
    /\ wanted' = [wanted EXCEPT ![p] = <<@[1], 1>>]

InsertIdentity(p) ==
    /\ Goto(p, "bind", "commit") /\ provider[p] \notin deleted
    /\ ~IdentityLocked(Identity(p)) /\ identity[Identity(p)] = None
    /\ UNCHANGED <<rows, requests, callback, naming, ghosts>>

\* Mutant of IdentityConflict: the account inserted is kept, and welcome.
IdentityConflictKeep(p) ==
    /\ Goto(p, "bind", "welcome") /\ provider[p] \notin deleted
    /\ identity[Identity(p)] # None
    /\ name' = [name EXCEPT ![user[p]] = wanted[p]]
    /\ UNCHANGED <<enabled, auto, deleted, identity, requests, callback, naming, ghosts>>

\* The insert is refused, the transaction rolled back.
IdentityConflict(p) ==
    /\ Goto(p, "bind", "winner") /\ identity[Identity(p)] # None
    /\ user' = [user EXCEPT ![p] = None]
    /\ UNCHANGED <<rows, requests, callback, wanted, tries, lost, ghosts>>

Commit(p) ==
    /\ Goto(p, "commit", "welcome")
    /\ name' = [name EXCEPT ![user[p]] = wanted[p]]
    /\ identity' = [identity EXCEPT ![Identity(p)] = user[p]]
    /\ bound' = bound \cup {<<Identity(p), user[p]>>}
    /\ UNCHANGED <<enabled, auto, deleted, requests, callback, naming, exchanged>>

\* GetUserByID, where a disabled account fails; what CompleteLogin does next is
\* in SecondFactor.
Welcome(p) ==
    /\ pc[p] = "welcome" /\ End(p)
    /\ UNCHANGED <<rows, requests, ghosts>>

-----------------------------------------------------------------------------
(* Everybody else                                                          *)

Others == <<requests, pc, callback, naming, ghosts>>

\* An administrator edits a provider that exists; those of the run all do.
UpdateProvider(k) ==
    /\ k \notin deleted
    /\ enabled' \in {enabled \cup {k}, enabled \ {k}} /\ auto' \in {auto \cup {k}, auto \ {k}}
    /\ UNCHANGED <<deleted, name, identity, Others>>

\* Mutant of DeleteProvider: no ON DELETE CASCADE from oidc_identities.
DeleteProviderBare(k) ==
    /\ k \notin deleted
    /\ deleted' = deleted \cup {k}
    /\ request' = [s \in States |-> IF started[s] = k THEN "gone" ELSE request[s]]
    /\ UNCHANGED <<enabled, auto, name, identity, started, pc, callback, naming, ghosts>>

\* Bindings and requests go with the provider; an uncommitted binding to it is
\* waited for.
DeleteProvider(k) ==
    /\ k \notin deleted
    /\ ~ \E p \in Procs : PendingIdentity(p) /\ provider[p] = k
    /\ deleted' = deleted \cup {k}
    /\ identity' = [i \in Identities |-> IF i[1] = k THEN None ELSE identity[i]]
    /\ request' = [s \in States |-> IF started[s] = k THEN "gone" ELSE request[s]]
    /\ UNCHANGED <<enabled, auto, name, started, pc, callback, naming, ghosts>>

\* An account made without a provider.
CreateUser(a, n) ==
    /\ Fresh(a) /\ ~NameLocked(n) /\ ~NameTaken(n)
    /\ name' = [name EXCEPT ![a] = n]
    /\ UNCHANGED <<enabled, auto, deleted, identity, Others>>

Step(p) ==
    \/ \E s \in States : CreateOIDCRequest(p, s)
    \/ Claim(p) \/ ClaimMismatch(p)
    \/ \E sub \in Subjects : Exchange(p, sub)
    \/ Find(p) \/ \E b \in Bases : FindNone(p, b)
    \/ SearchTaken(p) \/ SearchFree(p)
    \/ \E a \in Accounts : InsertUser(p, a)
    \/ NameConflict(p) \/ InsertIdentity(p) \/ IdentityConflict(p) \/ Commit(p) \/ Welcome(p)

Next ==
    \/ \E p \in Procs :
        \/ \E k \in Providers : Start(p, k) \/ \E s \in States : Callback(p, k, s)
        \/ Step(p) \/ Fail(p)
    \/ \E k \in Providers : UpdateProvider(k) \/ DeleteProvider(k)
    \/ \E a \in Accounts, n \in Names : CreateUser(a, n)
    \/ \E s \in States : Expire(s)

Spec == Init /\ [][Next]_vars

-----------------------------------------------------------------------------
(* Properties                                                              *)

\* Whatever callbacks race, and whatever is deleted, an identity only ever leads
\* to one account, and an account to one identity; and a callback is let in as
\* the account its identity was bound to (resolveAccount, ProvisionOIDCUser).
OneAccountEach ==
    /\ \A x, y \in bound : x[1] = y[1] <=> x[2] = y[2]
    /\ \A p \in Procs : pc[p] = "welcome" => <<Identity(p), user[p]>> \in bound

\* No row outlives what it refers to, nor is lost before: a binding is in the
\* table for as long as its provider is ("an identity row pointing at an account
\* that was never created", ON DELETE CASCADE).
NothingDangles ==
    /\ \A x \in bound : x[1][1] \notin deleted => identity[x[1]] = x[2]
    /\ \A i \in Identities : identity[i] # None => name[identity[i]] # None /\ i[1] \notin deleted

\* However often a callback is repeated, one code is exchanged for a request.
RedeemedOnce == \A s \in States : exchanged[s] <= 1

\* Each attempt at a name is lost to another account, until names run out: "the
\* next round picks another".
AnotherNameEachTry == \A p \in Procs :
    (\A n \in lost[p] : n[2] < Suffixes) => tries[p] = Cardinality(lost[p])

\* The inductive invariant.  What a callback holds at each stage ...
Held == \A p \in Procs :
    /\ pc[p] # "idle" => provider[p] # None
    /\ pc[p] \notin {"idle", "start"} => state[p] # None
    /\ pc[p] \notin {"idle", "start", "claim", "exchange"} => subject[p] # None
    /\ pc[p] \in {"search", "insert", "bind", "commit"} => wanted[p] # None
    /\ PendingUser(p) => user[p] # None /\ name[user[p]] = None
    /\ PendingIdentity(p) => identity[Identity(p)] = None /\ provider[p] \notin deleted
    /\ pc[p] = "welcome" => <<Identity(p), user[p]>> \in bound

\* ... which no two hold at once ...
Apart == \A p, q \in Procs : p # q =>
    /\ ~(PendingUser(p) /\ PendingUser(q) /\ user[p] = user[q])
    /\ ~(PendingIdentity(p) /\ PendingIdentity(q) /\ Identity(p) = Identity(q))
    /\ ~(pc[p] = "exchange" /\ pc[q] = "exchange" /\ state[p] = state[q])

\* ... bindings are rows, or their provider is gone ...
Bindings ==
    /\ OneAccountEach /\ NothingDangles
    /\ \A x \in bound : name[x[2]] # None
    /\ \A i \in Identities : identity[i] # None => <<i, identity[i]>> \in bound

\* ... a request nobody has claimed has seen no code ...
Redeemed ==
    /\ RedeemedOnce
    /\ \A s \in States :
        /\ request[s] = "new" <=> started[s] = None
        /\ request[s] \in {"new", "open"} => exchanged[s] = 0
    /\ \A p \in Procs : pc[p] = "exchange" =>
        request[state[p]] \notin {"new", "open"} /\ exchanged[state[p]] = 0

\* ... and a name that was lost is another's for good.
Losing ==
    /\ AnotherNameEachTry
    /\ \A p \in Procs :
        /\ IsFiniteSet(lost[p]) /\ \A n \in lost[p] : NameTaken(n)
        /\ pc[p] = "insert" => wanted[p] \notin lost[p] \/ wanted[p][2] = Suffixes

IInv == TypeOK /\ Held /\ Apart /\ Bindings /\ Redeemed /\ Losing
=============================================================================
