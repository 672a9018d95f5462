# purels: verification

purels is a self-hosted URL shortener: an HTTP API in Go (`src/cmd/purels-api`),
a background worker (`src/cmd/purels-worker`), PostgreSQL, Redis and a console
in React (`src/web`). This directory holds TLA+ models of it: of the parts of
the server where several requests or processes meet in shared state, and of
what runs in a browser, where calls, their answers, timers and a user meet in
the state of a page. TLC configurations check them on small instances, and TLAPS
proofs show the properties that matter most for instances of any size.

`PROJECT.json` is the index: components, runs, the source lines each definition
stands for, hazards, findings, theorems. Paths below are relative to
`src/internal/` unless they start with `src/`; those of the browser's side are
relative to `src/web/src/` where it is the subject.

## 1. The system

| Component | State | Operations | Meets |
|---|---|---|---|
| Accounts and roles (`store/postgres/roles.go`, `service/users.go`, `service/roles.go`) | tables `admin_users`, `roles` | sign-up, bootstrap, edit an account, edit a role's scopes | concurrent administrators, sign-ups, reboots |
| Links and redirects (`service/links.go`, `cache/redis/cache.go`) | tables `links` and `link_rules`, Redis entry per alias with a TTL | resolve, create, update, delete, bulk edit, prune | every request of every API process, the worker's prune |
| Visits (`service/links.go` Record, `store/postgres/store.go` AggregateClicks, `worker/worker.go`) | tables `click_events`, `link_click_daily` | record, roll up, prune | several workers, pruning, deletion cascades |
| Runtime settings (`config/runtime_provider.go`, `store/postgres/runtime_settings.go`) | table `runtime_settings`, a snapshot pointer per process | boot, poll, PUT, PATCH | API and worker processes, goroutines of one process |
| Second factor (`service/auth.go`, `service/twofactor.go`, `store/postgres/mfa.go`) | secrets, recovery codes, login challenges | enrol, confirm, disable, reset, challenge, verify | two requests with one challenge or one code |
| Link creation (`service/links.go`, `security/security.go`) | quota count, destination index, alias sequence | create, import | bursts of creates |
| Sign-in with a provider (`service/oidc.go`, `store/postgres/oidc.go`) | pending sign-in requests, identities | start, callback, provision, edit and delete a provider | repeated callbacks, two first sign-ins, administrators |
| Rate limiter (`http/middleware/ratelimit.go`) | a Redis counter per client and route | count, expire | all requests of a client; failures of Redis |
| Captcha and analytics settings (`service/captcha.go`, `service/analytics.go`) | a row each, a published snapshot each | save, refresh | concurrent saves |
| Health sweep (`worker/worker.go`, `service/health.go`) | last check of each link | select, probe, record | edits of the destinations probed |
| Sessions, CSRF, API tokens (`service/auth.go`, `service/tokens.go`) | tables `sessions`, `api_tokens` | sign in, out, revoke | the middleware of every request |
| Audit, statistics, CSV, gallery | append-only rows or none | append, read, render | nothing on the server decides on them |
| Pages of the console (`web/src/app/home`) | React state of each page; the calls it waits for | load, filter, page, select, create, save, delete, import, export | answers in any order, the page's own handlers, other administrators |
| Settings forms (`web/src/components/settings`) | a draft, what was saved and its revision, per form; the set of dirty forms | load, edit, save, discard, reload, leave | the other form of the page, other administrators, the language |
| Signing in and registering (`web/src/app/login`, `register`, `lib/api-client.ts`) | cookies of the browser, a CSRF token per tab; a challenge token | sign in, second step, sign out, change something; register | other tabs, expiry, the challenge widget |
| Shell, languages, notices, trackers (`web/src/components`) | drawer, menu, scopes, what trackers were told; locale cookie; notices with timers | navigate, resize, switch, notify, dismiss | the router, scripts that load late, the clock |
| The page in front of a destination (`http/handler/gallery/redirect.js`) | time left, one timer, paused, leaving | tick, stop, start again, put away, restore | the browser's back-forward cache, tabs in front, late timers |

Requests are goroutines of an API process. A handler is a sequence of SQL
statements and Redis commands with nothing held in between, so requests
interleave between any two of them; a transaction is READ COMMITTED, so a
statement inside one still sees what others have committed meanwhile. Redis
calls may fail, and nearly every caller ignores that by design. A request ends
early when its client goes away or `middleware.Timeout` fires
(`http/router.go:16`), and a process may die between any two steps.

In the browser, every page has one thread and no lock. A handler that awaits a
call goes on with what its closure captured, whatever was clicked or answered
meanwhile; `request()` (`src/web/src/lib/api-client.ts:506-562`) neither queues
nor cancels nor limits a call in time, so answers arrive in any order, and a
connection that breaks before or after the API did what it was asked looks the
same (`network`). Tabs share cookies and nothing else.

What makes each component correct, and hard:

* *Accounts*: the console must stay administrable: an enabled account that may
  manage users and one that may manage roles. Two edits, each harmless, may
  together remove the last one.
* *Links*: a redirect answers with something the table held; a retired link
  stays retired; the cache comes to agree with the table. Reads, writes and
  evictions of several requests interleave.
* *Visits*: every visit is counted once. Workers overlap, die half-way, and
  deadlock with each other and with pruning.
* *Settings*: one document for each revision everywhere; no process goes back;
  nobody's save is overwritten unseen; all processes catch up.
* *Second factor*: attempts are bounded and a recovery code or challenge is good
  once, with verifications running in parallel.
* *Creation*: no two links share an alias; the quota and `UNIQUE_URLS` are
  checked in another statement than the INSERT.
* *Sign-in*: a pending request is redeemed once; an identity belongs to one
  account, whose name is looked for outside the insert. Repeated and simultaneous
  callbacks race for all three.
* *Rate limiter*: a window ends; its counter and expiry are set in two calls.
* *Pages*: a spinner ends and a control comes back whatever fails; what is shown
  is what the controls ask for, where the code takes care of it; what is shown
  once, or was typed, is not taken away by an answer; a confirmation that closes
  by itself means success; "nothing yet" means that somebody said so.
* *Signing in*: no change goes out under another tab's later session.
* *Registering*: a challenge token is offered once.
* *Timers and trackers*: one timer each, none left behind to act on another, no
  time counted in which a countdown did not run, no page counted twice.

## 2. Modules

Every component has a specification with one action per statement or step, an
`MC` module where its constants need definitions, and, where something is proved, a `_proofs`
module (`WebPages_proofs` and `WebShell_proofs` for the browser's side). Where a component has a promise that can be said more simply, that is a
module too, and the refinement is a property of the run.

| Modules | Models |
|---|---|
| `AuthzTables` | the tables, what an edit makes of them, which capability is held by whom |
| `AuthzPolicy` | the promise: an edit is checked and applied in one step |
| `Authz` | concurrent requests: authorise, lock, UPDATE, count, commit |
| `LinkCache` | links, Redis entries and the handlers that read and write both |
| `ClickTables`, `ClickLedger` | visits and daily rows; the promise: counting and removing in one step |
| `ClickRollup` | workers, row locks, deadlocks and prunes |
| `RuntimeSettings` | the settings row, processes, pollers, saves |
| `SecondFactor` | enrolment, recovery codes, challenges and the sign-ins that answer them |
| `OidcSignIn` | authorization requests, callbacks, the accounts and bindings they make, deletion of providers |
| `ConsoleCalls` | `request()`: the calls a page has in flight and how they end |
| `ListPage`; `AuditPage`, `LinksPage` | paging; the audit trail; the list of links with bulk actions, deletion, CSV |
| `LinkFields`; `NewLinkPage`, `EditLinkPage` | rule editor and domain picker; the two forms of a link |
| `UsersPage`, `RolesPage`, `TokensPage`, `SecurityPage` | accounts; roles; API tokens; the second factor of an account |
| `DashboardPage`, `StatsPage` | the overview; the statistics |
| `SettingsHome`, `SettingsForms`, `OidcPage` | the settings overview and its search; the forms with their draft guard; the sign-in providers |
| `Navigation`; `Shell` | what an account may reach; sidebar, menu, sign-out and trackers |
| `BrowserSession`, `RegisterPage` | tabs, cookies, CSRF tokens and sign-in; registration behind a challenge |
| `SiteLanguage`, `Toasts`, `Countdown` | language and theme; notices and the copy button; the page in front of a destination |
| `WebPages` | the composition: one of these pages is open |

### Authz

`users`, `role`, `status` and `scopes` are the two tables; `pc`, `actor`, `edit`
and `lock` a request and `authzLockKey`. `Authorise` is the middleware's single
join (`http/middleware/middleware.go:17-69`) with the checks of
`UserService.Update`; `LockAuthz`, `Write`, `RequireUsersHolder`,
`RequireRolesHolder`, `Commit` are the statements of `Store.UpdateUser` and
`Store.UpdateRoleScopes`; `Finish` is a refusal and `Abort` a cancelled request.
The uncommitted UPDATE is kept as the pending `edit`, so that others do not see
it before `Commit`. `SignUp` and `Bootstrap` insert without the lock, as
`Store.CreateUser`, `Store.ProvisionOIDCUser` and `Store.CreateAdminIfMissing`
do. (The last is described in `src/README.md:257` as happening "if the table is
empty"; the statement is `ON CONFLICT (username) DO NOTHING`, so `Bootstrap` may
insert into a table with accounts in it.)

### LinkCache

`links` holds a row per id with a `version` that counts its writes (a ghost: no
handler reads it), `cache` an entry per alias, and each request its stage, its
edit and the copies it carries. A handler's statements are actions of their own:
`ResolveMiss` → `ResolveRead` → `ResolveFill`; `UpdateRead` → `UpdateWrite` →
`UpdateReread` → `UpdateFill`; and so on. `Put` is a Redis write that may
fail, `CacheExpire` the TTL, `Hangup` and `Die` a request that ends early. Divert
rules are left out: an update replaces them, in its own transaction, only when the
request names them (`store/postgres/store.go:558`), and no property is about them.
Titles, tags and domains decide no redirect and are left out too.

### ClickTables, ClickLedger, ClickRollup

`visits`, `daily` and `claims` with the row locks PostgreSQL takes: a rollup
locks its batch with `FOR UPDATE SKIP LOCKED` (`store/postgres/store.go:1087`),
then upserts one daily row for each link and day *in the order of a Go map*,
then marks the batch; the insert into `link_click_daily` takes a share lock on
the link through its foreign key. A prune locks links, then their visits and
daily rows by cascade. `ahead` is the queue of waiters of a daily row. Circles
of waiters arise, and `AbortVictim` is PostgreSQL's deadlock detector.
`src/deploy/compose.yaml` runs one worker; `SKIP LOCKED` is there for several,
and the model has several. `ClickLedger` is the promise: a visit is counted, or
removed with its link, in one step.

### RuntimeSettings

`row` is the single row (or none), `boot` how far each process has got in
`NewRuntimeProvider`, `snap` its `RuntimeProvider.current`. A goroutine (the
poller of a process, or a request) has its stage, the settings it `got` from a
statement, the pointer it has `seen` in `publish`'s loop, and the `patch` it
still has to write. `Load` and `Swap` are the two halves of the
compare-and-swap. Initially there is no row, or a row from before migration
000019, whose `totp_enabled` is NULL; `Adopt` fills it without a new revision.
Validation is left out: every document of the model is a valid one, and a
refused request changes nothing.

### SecondFactor

`secret`, `confirmed` and `codes` are an account's columns and its rows of
`mfa_recovery_codes`; `holder`, `attempts` and `state` a challenge. A sign-in is
`Login` → `Decide` → `CreateChallenge` (or straight to `CreateSession`), an answer
to a challenge `Claim` → `ReadFactor` → `SpendRecoveryCode` → `Consume` →
`Identify` → `CreateSession`, an enrolment `Enroll`, then `ConfirmRead` →
`ConfirmTOTP`; `DisableFind` → `DisableRead` → `DisableClear` and `Reset` undo it.
Each is one statement, except that a transaction of `store/postgres/mfa.go` is one
step: it begins by updating the account's row, whose lock orders those of one
account, and a `SpendRecoveryCode` that meets it waits or comes before it. A
TOTP code is represented by the secret it was computed from (`VerifyTOTP` accepts
one for about ninety seconds, and as often as it is presented). What the switch
says is a free choice at `Login`; it is `RuntimeSettings` that models it. `drawn`,
`issued`, `proved`, `looks`, `spent` and `minted` are ghosts that no step reads,
except to draw fresh secrets and codes and to say which codes anybody can present.

### OidcSignIn

`started` and `request` are the rows of `oidc_auth_requests`, `identity` those of
`oidc_identities`, `name` the usernames of `admin_users`. A sign-in is `Start` →
`CreateOIDCRequest`, then, when the browser comes back, `Callback` → `Claim` →
`Exchange` → `Find`; a known identity goes on to `Welcome`, a new one from
`FindNone` to the search for a name (`SearchTaken`, `SearchFree`: one `FindUser` for
each candidate) and the transaction of `ProvisionOIDCUser`: `InsertUser` →
`InsertIdentity` → `Commit`. Its rows stay with the callback until `Commit`, and an
insert with the same unique key waits for it: `NameLocked` and `IdentityLocked`
stand in the guards. What the constraints refuse is `NameConflict`, which looks for
another name as long as there are attempts left, and `IdentityConflict`, which
rolls back and returns the winner's account. `Fail` is every other end of a
request, at any stage. Beside them requests expire, administrators edit and delete
providers (with the cascades of `src/migrations/000011_oidc.up.sql`), and accounts
are registered under names of their own.

A browser may return with any state that was handed out, as often as it likes, and
to another provider's address. A slug is as good as the provider's id, as it never
changes and a deleted provider does not return. The token exchange with its checks
is one step with the subject as its outcome; the discovery cache, addresses, and
the disabling of accounts (which makes `GetUserByID` fail: `Fail` at "welcome") are
abstracted. `auto_provision` is what it was when the provider was read, as in the
code. What happens to the account that is let in is in `SecondFactor`; `bound`,
`exchanged` and `lost` are ghosts.

### What runs in the browser

Every page module has the same four variables (`ConsoleCalls`): `ui`, the state
the component keeps in `useState` and `useRef`; `calls`, the calls in flight;
`db`, as much of what the API keeps as the page can tell apart; and `clicks`,
which bounds the run. A `Call` carries the handler that goes on with its answer
and what its closure captured. `Serve(i)` is the API doing call *i*, `Deliver(i)`
its answer reaching the page: the continuation of the handler up to its next
`await`, with its `catch` and `finally`. `Answers(i)` always holds `NetworkError`
as well, so an answer may be lost after the API acted and a call before it did;
`Reads` answers a read when its answer arrives, where the moment cannot be told.
Effects that depend on state run in the same step as the change they depend on,
as React runs them before it handles the next event. `Click` is what a user can
do: a control that the page renders disabled, or hides, is not enabled. Other
administrators and other tabs act between any two steps, as far as they can be
seen. `Waiting` is what `Settles` is about: a spinner, a disabled control, a
notice that is to go.

Three modules differ. `StatsPage` keeps for each of its four parts the one load
whose `cancelled` flag is down, as cancelled answers change nothing. In
`BrowserSession` the calls are of several tabs and `db` holds the sessions:
`LiveCookie` and `Csrf` are the middleware (`http/middleware/middleware.go:30-95`).
A document that is loaded anew forgets its calls: the API still serves them, and their
answers reach nobody (`Forgotten`, `DeliverToNobody`).
In `Countdown` and `Toasts` a timer is a call that the browser answers, early or
late, and clearing it takes it out of the calls. `redirect.js` listens to `pagehide`
and `pageshow` and to nothing else, so in `Countdown` a page that is `away` has no
timers, while one in the `background` counts down and leaves like any other.

The pages share nothing, so `WebPages` mounts one of them: the behaviours of the
composition are the behaviours of each. Data is reduced to what a page tells
apart: a text is one of two or three, a search one of two with the links it hits,
a role or provider one of two configurations. Wording, layout, and focus (but for
the drawer's) are left out.

## 3. Runs

| Run | Checks | Expect |
|---|---|---|
| `authz` | types; `CapabilityHeld`; refinement of `AuthzPolicy`; every edit ends | pass |
| `authz_actor` | "whoever makes a change is still there to undo it" (`service/users.go:21-22`) | violation |
| `link_cache` | types; `CopiesAreVersions`; `RetiredIsFinal`; eventual coherence | pass |
| `link_cache_retired` | "a deleted link stops redirecting" | violation |
| `link_cache_lost` | an omitted expiry is left unchanged | violation |
| `click_rollup` | types; `Tally`; refinement of `ClickLedger`; every visit is counted | pass |
| `runtime_settings` | types; one document per revision; read-your-writes; never back; patches keep other fields; convergence | pass |
| `second_factor` | types; `GuessesBounded`; `SpentOnce`; `CodesMatchSecret` | pass |
| `second_factor_mint` | "the same challenge cannot mint a second" session (`service/auth.go:169`) | violation |
| `second_factor_proved` | confirmed only once a code of it was produced (`src/migrations/000010_totp.up.sql:9-11`) | violation |
| `oidc_sign_in` | types; `OneAccountEach`; `NothingDangles`; `RedeemedOnce`; `AnotherNameEachTry` | pass |
| `web_pages` | each page of the browser's side, see below | pass |

`web_pages` checks, over all pages: `TypeOK`; `Settles`; `ShownIsAsked` (the parts
of the statistics, the link that is edited, the settings overview, the selection
of links, the language); `ActsAsSignedIn` (two tabs and their CSRF tokens);
`SecretsStay` (a token's secret, the recovery codes); `DraftKept` and
`SavesOverWhatIsShown` (settings forms); `ClosedIsDeleted` (the confirmation of a
deletion); `ZeroIsAnswered` (the dashboard); `FreshToken` (registration);
`CountedOnce` (trackers); `NeverEarly` (the countdown); `TimersTended` (exactly one
timer for each notification shown and, unless it was pushed out, none for one that
went; one for the countdown while it runs). `DraftKept` says two things of the forms:
an open form's draft, a secret too, is taken by nothing but its author's own step in
that form or a save of what it shows, and the guard's set of dirty forms is exactly
the forms with a draft. Whether it asks is a matter of the exit: a link asks
(`FollowLink`), Back and sign-out do not (`LeaveUnasked`).

`CHECK_DEADLOCK FALSE` is set where the bounded world legitimately ends (all
visits taken, all ids used up, all providers deleted, a page left or out of clicks).

### Bounds

* `authz`: two requests, two accounts, two roles and two scopes, and every edit
  over them. A lost capability needs two edits in flight and two holders; both
  are there, and so are a sign-up and a boot during an edit. (231,000 states)
* `link_cache`: one alias, two links (so an alias can be used again after a
  prune), two requests, expiries that pass during the run, at most two edits
  (`MaxEdits`) and a clock of two ticks (`MaxTime`). Each race listed needs two
  requests on one alias and at most two edits. (1,116,000 states)
* `click_rollup`: four visits of two links over two workers with a batch of two,
  and one prune. Two workers with two daily rows each is the smallest instance
  that deadlocks; the prune adds the other circle. `MaxPrunes` bounds prunes
  because they are hourly and visits here are few. (118,000 states)
* `runtime_settings`: two processes with different environments, a poller and a
  request in each, two settings of two values and three revisions: a patch that
  has read the first revision, a save that makes the second, and what the patch
  would make the third. (1,220,000 states)
* `second_factor*`: one account, one challenge, a `Limit` of two, two requests,
  two secrets (one enrolment replaces the other) and two batches of recovery
  codes (one confirmation replaces the other). The races are all about one
  account or one challenge; that accounts do not meet is for the theorems.
  (1,673,000 states)
* `oidc_sign_in`: two providers with one subject, two authorization requests, two
  callbacks, two accounts, two names of one base and three attempts, as in the
  code. Two callbacks race for one request, one identity or one name; the second
  provider makes mismatched callbacks and two identities that want one name; a
  registered account takes a name too, so that names run out. (834,000 states)

* `web_pages`: two of everything that two things can happen to (rows, roles,
  tokens, providers, tabs, ranges, forms), the calls a user lets pile up before
  clicking again (`MaxCalls`: two where two loads can overlap, three or four where
  a page starts with as many) and the clicks of one visit (`MaxClicks`: three to
  eight). Two overlapping calls are enough for an answer that comes late, and each
  mutant is caught within these bounds. Two notices are kept at once where the
  code keeps `feedback-queue.ts:10`'s number, so that the oldest is pushed out.
  (710,000 states)

### Fairness

* `authz`: a request that can take its next step does (goroutines run), and a
  waiter that is again and again able to get the advisory lock gets it
  (PostgreSQL queues them). Nothing forces a request to arrive.
* `link_cache`: a request goes on, and entries with a TTL expire (five minutes
  at most, `service/links.go`). No retry or eviction is assumed to succeed.
* `click_rollup`: a worker that has begun goes on and one that is idle runs again
  (a ticker, `worker/worker.go:65-80`); prunes go on; a prune that is again and
  again able to take its rows takes them (row locks queue); the deadlock
  detector fires.
* `runtime_settings`: pollers tick and go on. No process is made to boot and no
  operator to save.
* `second_factor`, `oidc_sign_in`: none; what is checked is safety.
* `web_pages`: the API answers what has reached it (`http/router.go:16` ends every
  request) and a call ends (`fetch` resolves or rejects, a timer fires). It is the
  first call in the queue that is promised to end; as a call that ends leaves the
  queue, that is all of them. Users and administrators owe nothing.

## 4. What the violations show

* `authz_actor`: the actor is read once, by the middleware. An administrator u1
  has two edits authorised. The first makes u2 an administrator and commits; u2
  disables u1; then the second edit of u1 takes the lock and commits, from an
  account that is disabled. The *capability* is still held by somebody
  (`CapabilityHeld`, proved): only the comment claims more. For the same reason two
  accounts cannot disable each other, however close together their edits are: the
  second is refused by `requireCapabilityHolders` (`store/postgres/roles.go:71-83`)
  unless a third holds both capabilities.
* `link_cache_retired`: a redirect misses the cache and reads a link; a bulk delete
  commits and evicts it; the redirect caches what it had read (`service/links.go:311`).
  The retired link redirects until the entry's TTL, and `EventuallyCoherent` shows
  that it ends there. `RetiredNeverResolves` is about this fill alone: the one at the
  end of `Create` (`service/links.go:169`) may be as late and does the same.
* `link_cache_lost`: an update lays its fields over a copy read by an earlier
  statement and writes all columns back: an expiry set in between is lost.

* `second_factor_mint`: `ConsumeMFAChallenge` does not report whether it retired
  anything. Two requests with one challenge and a good code each claim an
  attempt, each find the code good, and each create a session. With a recovery
  code they cannot (`SpentOnce`); with a TOTP code there are as many sessions as
  attempts, never more (`GuessesBounded`).
* `second_factor_proved`: `Confirm` checks the code against the secret it read;
  `ConfirmTOTP` asks only that there is one. An enrolment in between leaves the
  account confirmed with a secret nobody has shown a code of. Its recovery codes
  are still installed with it (`CodesMatchSecret`).

## 5. Proofs

TLAPS proves, for sets of actors and data of any size, and any bounds:

| Module | Theorems |
|---|---|
| `Authz_proofs` | `TypeCorrect`, `AlwaysAdministrable` (`CapabilityHeld`), `EditsAreAtomic` (implements `AuthzPolicy`) |
| `LinkCache_proofs` | `TypeCorrect`, `CopiesCorrect` (`CopiesAreVersions`), `RetiredLinksAreFinal` |
| `ClickRollup_proofs` | `TypeCorrect`, `TallyCorrect`, `RollupImplementsLedger` |
| `RuntimeSettings_proofs` | `TypeCorrect`, `RevisionsAgree`, `SavesInForce`, `SnapshotsAdvance`, `PatchesKeepOthers` |
| `SecondFactor_proofs` | `TypeCorrect`, `GuessesAreBounded`, `CodesSpentOnce`, `CodesFollowSecret` |
| `OidcSignIn_proofs` | `TypeCorrect`, `OneAccountForEach`, `BindingsHold`, `RequestsRedeemedOnce`, `NamesMoveOn` |
| `WebPages_proofs` | `ZeroIsAnsweredAlways`, `FreshTokenAlways`, `SecretsStayAlways`, `DraftKeptAlways`, `SavesOverWhatIsShownAlways`, `ActsAsSignedInAlways` |
| `WebShell_proofs` | `NeverEarlyAlways`, `CountedOnceAlways`, `TimersTendedAlways`, `ClosedIsDeletedAlways`, `ShownIsAskedAlways`, `TypeOKAlways` |

A theorem named `PAlways` is `Spec => []P`, or for an action property `Spec => P`.
They assume only the named assumptions on the constants, which TLC evaluates in
every run; those of `WebPages` say that tokens and tabs are numbered from 1
(`TokensAssumption`, `TabsAssumption`), that what a form can be filled with can also
be typed and each text means a value or nothing (`FormsAssumption`), that durations
and the pages of a log are natural numbers (`DurationsAssumption`, `LogAssumption`) and
that at least one notification is kept (`LimitAssumption`), and, for the types, that
there are finitely many links, entries and rules (`ListsAssumption`), that the
languages of an `Accept-Language` header are numbered in its order
(`HeadersAssumption`), that the form of a new link may be empty, as it is when it is
opened, and one provider exists when theirs is (`MountedAssumption`), and that clicks are
counted in natural numbers (`ClicksAssumption`). Each module of the
server's side has an inductive invariant `IInv`, checked by TLC before it was proved
(the runs check what follows from it):

* *Authz*: a request past the lock is the lock's holder, so no other edit
  commits between its count and its commit; sign-ups and boots only add
  accounts, so what the count saw still holds.
* *LinkCache*: rows only evolve (`Evolves`: unchanged, removed, a later version
  of the same alias, inserted), and every new copy is of a row as it stands
  (`FreshCopies`). `CopiesFollow` concludes that all copies stay versions of
  their rows and that copies of one version agree.
* *ClickRollup*: a visit is claimed by one transaction; what a transaction has
  upserted is what it has claimed and not yet marked; so a daily row is always
  its processed visits, and a commit maps to one step of the ledger.
* *RuntimeSettings*: a process has a snapshot only while it is up, and none is
  up before the row is free of NULL, so `Adopt` cannot change a row that
  anybody has read. Copies then only ever come from the row as it is
  (`CopiesFollow`) or as it is saved, one revision on (`CopiesSaved`). In
  `publish`, what was loaded is older than what will be swapped in.
* *SecondFactor*: every code looked at was paid for by an attempt, and each
  attempt is a request still at work, a refusal or a session (`Paid`: sessions
  and requests at work together are no more than the codes looked at). A
  code that was accepted is never unused again, since its batch is installed once
  (`Spent`). A confirmed account has exactly one batch present, issued for its
  secret, because each transaction that changes the secret also deletes the codes.
* *OidcSignIn*: what a callback holds stays true however long it takes (`Held`:
  the account it inserted has no name yet, the identity it inserted no binding, its
  provider is there), as nobody else holds the same account, identity or request
  (`Apart`). So a commit binds an identity that was never bound while its provider
  existed, to an account that never had one (`Bindings`). A request that somebody
  claimed is neither "new" nor "open" again (`Redeemed`). A name that was lost
  belongs to an account for good, so the search passes over it until it comes to
  the last (`Losing`; `NamesStay` is the step fact).

On the browser's side each page has an invariant of its own: `Mounts` gives it the
page's `Init`, `Steps` every step of the composition as a step of the page that is
open or none, so a theorem about `WebPages` is the theorem about one page. Everything a
page reads out of a call in flight is part of its invariant, as an answer can be one
that was given long ago:

* *Dashboard* (`DashboardInv`): the end of loading comes with all the answers, so
  nothing is read off an initial value.
* *Register* (`RegisterInv`): one sign-up is in flight at most and only while the form
  waits for it; a token the provider has taken is therefore held only by a form that
  waits, which submits nothing and drops the token on every answer but a new account.
* *Tokens*, *Security* (`TokensInv`, `SecurityInv`): while a secret is shown no
  creation is in flight that could put another in its place.
* *Forms* (`FormsInv`): a form has one load and one save in flight at most; a load is
  in flight only while the form shows nothing that could be lost, the save carries the
  draft that is shown, and a revision stands for one value, so a save the API accepts
  over a revision was made over that revision's value. The guard's set is the dirty
  forms (`GuardKnows`), since each change of a form registers that form alone.
* *Session* (`SessionInv`): a tab has one call at a time that it waits for, and a tab
  that signed in keeps the token of its session, so a mutation of it that is accepted
  (token, cookie and session agree) is done under that session.
* *Countdown* (`CountdownInv`): the time left and the time it ran together account
  for the duration, plus, while the countdown runs, for the clock since it was last
  read. A pause reads the clock, a resume restarts it from now, so nothing is lost or
  counted twice. `OneTimerInv` adds that the calls are exactly the timer that `ui` asks
  for.
* *Shell* (`TrackersInv`): what a tracker has counted lies at or below the visit under
  way, and the effect has always seen that visit; a new page is new to every log,
  and a snippet that loads late has counted nothing before.
* *Toasts* (`ToastsInv`): notifications are numbered in the order they came, each
  number has one timer at most (`Alone`), and each number on the screen has one. So
  clearing "the" timer of a notification that goes leaves none. The step fact excepts
  the one that a full screen pushes out.
* *Links* (`ListInv`): a deletion that a handler goes on with after its reload is one the
  API did (`Justified`), and nothing brings a deleted link back; so what closes a
  confirmation is known to be gone whenever the answer arrives.
* *Statistics*, *link that is edited*, *language* (`StatsInv`, `EditLinkInv`,
  `LanguageInv`): an answer that is shown was asked for by the controls as they are,
  or a later one is under way.
* *Settings overview* (`OverviewInv`): in one load, who is asking is in flight alone;
  afterwards only sources of the scopes that came back are, and what they answer is
  kept for those scopes. What the search finds needs no invariant: `SearchReaches` goes
  through the tables of the navigation and holds for every set of scopes.

`TypeOKAlways` (`TypesInv`, a conjunct for each page) rests on the types of what `ui` takes
its values from: for every call the handler that made it, what its closure captured and
what the API may have answered (`CallsOf`; `CallHas` reads them off a call in flight), and
what the API keeps. For the tokens, the second factor, the dashboard, the forms, the
registration and the countdown that is part of the invariant above; for the other
pages it is an invariant of its own, which the links, the settings overview, the
statistics, the shell and the language use together with the one above. In
`BrowserSession` (`SessionTypes`) sessions are numbered as they are made, and no cookie,
token or answer in flight is of one that was not made yet. The language that a header
prefers exists because a set of numbered tags has a least one (`LeastOf`).

The page modules use no community module: each proof obligation carries the
definitions of all the instances of `WebPages`, and with those modules in each of
them the provers got nowhere. For the same reason what a list keeps of a sequence is
said by the positions it keeps rather than by a recursive filter.

Every invariant and action property of the passing runs is thus a theorem. What is
model-checked only are the liveness properties (`EveryEditEnds`, `EventuallyCoherent`,
`EveryVisitCounted`, `Converges`, `Settles`): fairness is beyond the prover. What the
provers are not asked is whether `Click` and the bounds admit the interesting
behaviours; that is what the mutants and the action coverage of the runs are for.

## 6. What reading the browser's side showed

Behaviour the models have and a maintainer should know; but for the last item, no
text of the repository says otherwise, so none of it is listed as a finding:

* A list takes every answer to a load, the late one too: after two quick changes
  of a filter the rows may be those of the first (`app/home/links/page.tsx:103-130`,
  `app/home/audit/page.tsx`). `ShownIsAsked` therefore leaves the rows out, and
  demands of a selection only that it is on the screen.
* Escape closes every confirmation that is open, also one under way; if the
  deletion then fails, nothing on the screen says so until it is opened again
  (`components/ui/rare/delete-button.tsx:43-80`). `ClosedIsDeleted` is about
  confirmations that close by themselves.
* `busy` of the users page is one string: the end of one change clears the mark of
  another (`app/home/users/page.tsx:55-66`); saving one role, or one provider,
  reloads and replaces the drafts of the others.
* A change of language loads the form of a link again, over what was typed
  (`app/home/links/[id]/edit/page.tsx:54-84`); the settings forms take care not to
  (`use-settings-translator.ts`), which is what `DraftKept` checks.
* A lost answer to a creation leaves a second link, or a token whose secret nobody
  has seen; a lost answer to the confirmation of a second factor leaves its
  recovery codes unseen.
* Browser Back and signing out leave a settings page with its drafts unasked:
  `settings-draft-guard.tsx:28-62` intercepts links, reloads and closed tabs, which is
  what `src/docs/settings-redesign-qa.md:57-58` says. `LeaveUnasked` is that exit.
* The page in front of a destination counts down in a background tab and leaves
  there, unseen: `redirect.js` knows of no `visibilitychange`. `NeverEarly` is about
  stopping it and about the back-forward cache.
* A notification that is pushed out by a newer one keeps its timer
  (`toast-provider.tsx:49-53`, `feedback-queue.ts:10-12`), which then removes nothing:
  ids are not used again.
* A tab without a CSRF token acts under whatever session the cookies are of;
  `ActsAsSignedIn` is about a tab that signed in. A sign-out whose answer is late
  clears the cookies of the session another tab has opened since.
* `lib/public-config.server.ts:34-35` says that a minute of staleness "cannot
  disagree with reality, because REGISTRATION_ENABLED is read once at boot";
  `service/captcha.go:190-191` answers with the runtime setting of the moment, so
  for a minute the landing page may offer a registration that has just been
  closed. No run shows it: the cache's minute is not in the model.

## 7. Not modelled, and the plan

Next, in this order:

1. `LinkCreate` behind `RateLimit`: quota, `UNIQUE_URLS`, alias attempts and the
   sequence; a counter whose EXPIRE failed.
2. `Settings`: the captcha and analytics rows, saved without a revision and
   published in any order. An abstract register is the promise.
3. `HealthSweep`: the order of links due, and a batch that always fails.
4. `OidcProviders`: the discovery cache and its `updated_at` (the time at which a
   transaction began), and providers read, merged and written back whole.
5. Pure functions against reference definitions: `MatchRule`, query merging,
   paging, base-36 aliases, user names from provider claims.

Theorems worth proving there: that a published setting is one that was saved
(Settings), that no two links get one alias and how far a burst of creates may
overshoot the quota (LinkCreate), and that a provider's cached document is of a
row as it was stored (OidcProviders).

These name the hazards no property covers: the quota and `UNIQUE_URLS`
(`service/links.go:178,234`), an alias attempt that is used up by a reserved code
(`service/links.go:192`), a counter without a TTL
(`http/middleware/ratelimit.go:48`), an older analytics snapshot published last
(`service/analytics.go:114`), captcha settings saved over each other
(`service/captcha.go:204`), a discovery document that outlives an edit
(`service/oidc.go:440`), and links whose probes error staying first in the queue
(`worker/worker.go:183`).

Left out for good: the smoke scripts and tests under `src/scripts` (they drive the
program, they are no part of it), the static content of the landing page, the
prototype gallery under `src/docs`, the message catalogues, icons, charts and other
presentation; on the server the audit trail's appends (best effort), the SQL of the
statistics, the parsing of CSV, the cleaning of expired sessions, cryptography
(abstracted to its outcome), configuration parsing, migrations and deployment. In
the browser: where the theme is kept, what a tracker's own script does, the
challenge provider, and a call that reaches the API after the page has already
been told that the network failed (such a call never reaches it in the model).
