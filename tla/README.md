# Go Media Archive: TLA+ models and proofs

The Go Media Archive is an HTTP server over one SQLite database and one private
directory of content files, with an administrator console, a user client and
a bootstrap command. This directory holds TLA+ models of its core, TLC
configurations that check them on small instances, and TLAPS proofs for every
value of their constants. Paths such as `internal/...` are those of the
repository.

## The system

Requests pass through four layers: handlers and middleware (`internal/api`),
application services (`internal/application`), domain values (`internal/audit`,
`content`, `credential`, `identity`, `media`, `password`, `session`) and
infrastructure (`internal/storage/sqlite`, `internal/storage/filesystem`).
`net/http` runs each request in its own goroutine, and no service holds a lock
across its calls. What serializes them is

- the database: `sqlite.Open` sets `SetMaxOpenConns(1)`, so statements and
  transactions of the server run one after the other, each with its audit event;
  the `admin bootstrap` command is a second process on the same file;
- the content store: one shared/exclusive lock per storage key
  (`key_locks.go`), held from `Open` until the stream is closed and from
  `StageDelete` until `Commit` or `Rollback`;
- a mutex in each attempt limiter.

Outside of the server there are the bootstrap command, which migrates and opens the
same database file, other servers started on it, and the two consoles, which keep a
session and the position of a listing between commands.

A use case is therefore a sequence of atomic calls with decisions on rows that
may have changed since they were read. That is where the hard behaviour lies.

| Component | State | Operations | Hard part | What makes it correct | Model |
|---|---|---|---|---|---|
| Account tables (`sqlite/user_`, `session_`, `password_*_repository.go`, `admin_bootstrap.go`) | users, credentials, enrollments, sessions | one transaction per operation | checks must be in the transaction, not before it | no orphans, an administrator remains, password change ends sessions | `AccountStore` |
| Sessions, authentication (`application/sessions`, `authentication`, `api/authorization.go`) | request progress | login, resolve, touch, logout | password verified in one call, session stored in another | sessions end with the password | `Accounts` |
| User administration (`application/users`) | request progress | create, update, activate, deactivate, delete | decisions on stale rows, administrators who act on each other | last administrator, no resurrection, audit | `Accounts` |
| Passwords (`application/passwords`) | request progress | issue, complete, change | replaced or consumed tokens, deleted users | one password setup, by the latest token | `Accounts`, `PasswordLifecycle` |
| Key locks (`filesystem/key_locks.go`) | map, reference counts, RWMutexes | acquire and release, shared or exclusive | objects dropped while others arrive | exclusion per key, bounded map, no starvation | `KeyLocks`, `KeyGuard` |
| Managed content (`filesystem/content_store.go`, `application/media/{upload,managed_deletion,content_reading}.go`) | item row, location row, file, locks | upload, staged deletion, reading | no transaction spans the database and the files; crashes | no data loss, no leaks, stable streams | `ManagedContent` |
| Media metadata (`application/media/service.go`) | item row | create, get, update, delete | client values beside derived ones | sizes match files; no access without a right | `ManagedContent` (existence, size), `MediaAccess` (owner, rights) |
| Grants, policy (`application/media/grants.go`, `internal/media`) | grants | replace, revoke, inspect, authorize | user or item changes between check and save | grants refer to rows; what was revoked is out of reach | `MediaAccess` |
| Audit store (`audit_repository.go`, `content_audit_repository.go`) | events, markers | append, append once | parallel range requests of one session | one event per session, medium, outcome and reason; no byte without it | `MediaAccess`, `Directory`, events of accounts in `Accounts` |
| Attempt limiters (`authentication/limiter.go`, `passwords/limiter.go`) | buckets | allow, fail, succeed, cancel | attempts that overlap each other and the window | limits hold, reservations are returned, a lockout ends | `AttemptLimiter` |
| Directories (`application/{auditing,media}/directory.go`, `users/pagination.go`, `api/*_directory.go`) | none; a cursor is in the client | list pages | rows move between pages; times are ordered as text | no row skipped or repeated | `Directory`, `Consoles` |
| Ranges (`api/content_range.go`, `client/media_content.go`) | none | parse, answer, check the answer | boundaries, overflow | the bytes of RFC 9110; server and client agree | `ContentRange`, `MediaAccess` |
| Consoles (`cmd/admin`, `cmd/client`, `internal/cli`), typed client (`internal/client`) | session, listing | login, logout, exit, page, delete | calls that fail half-way, interrupts, a killed program | no session left behind; a cursor meets its own filter | `Consoles` |
| Migrations (`migrate.go`) | schema version | migrate | crash, processes that start at once | each migration once, whole schema before use | `ServerLifecycle` |
| Server process (`cmd/server/main.go`) | listener, requests, shutdown | start, serve, stop | shutdown beside the main goroutine | a signal ends it; requests get to finish | `ServerLifecycle` |
| Session time limits (`session.go`, `Touch`) | times of a session | create, resolve, touch | requests that read the clock before they write; a clock that is set back | lifetime and idle timeout hold of the uses, a session in use stays | `SessionLifetime` |
| Hashing, password policy, project tools | - | - | - | cryptography, strings, build tools | not modelled |

## Modules

| Module | What it is |
|---|---|
| `AccountStore` | the account tables, one operator per repository transaction |
| `Accounts` | the services: one action per database call of a request; instances in `MCAccounts` |
| `PasswordLifecycle` | abstract: what the services promise about the password of a user |
| `KeyGuard` | abstract: a shared/exclusive lock per key |
| `KeyLocks` | the reference-counted registry over `sync.RWMutex`, which implements `KeyGuard` |
| `ManagedContent` | uploads, deletions and reads over rows, files and the locks of `KeyGuard` |
| `AttemptLimiter` | both limiters of failed attempts and the handlers that call them; instances in `MCAttemptLimiter` |
| `SessionLifetime` | lifetime and idle timeout of sessions under overlapping requests and the clock |
| `ContentRange` | ranges: server, client and reference; the limit of an upload; as operators |
| `MediaAccess` | items, grants and access events under concurrent requests; extends `ContentRange`; instance in `MCMediaAccess` |
| `Directory` | pages, filters, cursors and the text of times, as operators |
| `Consoles` | one console that pages through a `Directory` others change; instances in `MCConsoles` |
| `ServerLifecycle` | processes that migrate, serve, stop and crash on one database |
| `AccountsProofs`, `KeyLocksProofs`, `ManagedContentProofs`, `AttemptLimiterProofs`, `ServerLifecycleProofs`, `SessionLifetimeProofs`, `MediaAccessProofs`, `ConsolesProofs` | the theorems |

`Accounts` extends `AccountStore` and instantiates `PasswordLifecycle`;
`KeyLocks` and `ManagedContent` each instantiate `KeyGuard`, the first to
implement it, the second to rely on it. Definitions that begin with the comment
*Fault* are mutated forms of the operator that follows them: replacing that
operator by its fault breaks the property the run checks.

### Accounts

`users`, `credentials`, `enrollments` and `sessions` are the tables, as functions
from their key to a row or `None`. `req[w]` is the request of worker `w`: the
call it has reached and the local variables that survive it (the token, the
actor put into the context by `RequireAuthentication`, the target, the row last
read, the hash last verified), and the answer and event of its last request.
Actions follow the calls: `LoginFindUser`, `LoginVerify`, `LoginCommit` are the
two queries of `Authenticate` and the transaction of `sessions.Service.Create`;
`ResolveSession`, `ResolveUser`, `ResolveTouch` those of `Resolve`;
`FindTarget` with `Update`, `SetActive` or `Issue` the read and the transaction of
the administrative services; `CompleteFindEnrollment`, `CompleteFindUser`,
`CompleteCommit` those of `CompleteEnrollment`. `Abort` ends a request between
any two calls: a cancelled context, a database error, a failed audit append or a
crash, none of which leaves anything behind. `Bootstrap` is the other process.

A denial and the append of its event are one action: the append touches no
account table. Tokens, user ids and hashes are fresh when nothing stored or in
flight equals them, as 122 or more random bits make them.
Chance decides whether a password matches, a session or enrollment is in time, a
username is taken and a user owns media: every outcome the code can produce,
and more where these are in fact related. The lost update of two administrators who edit one
user is in the model (`SaveUser` writes the row that was read); no property
excludes it, because neither the code nor its documents do.

### Key locks

`locks`, `references` are the fields of the registry and its objects;
`admitted`, `announced` the state of an object's RWMutex by the contract of
package `sync`: a writer announces itself, waits for the readers that are in,
and admits all that came meanwhile when it unlocks. `call[h]` is a
goroutine's progress through `reference`, lock, unlock, `unreference`; only the
first and last hold `registry.mutex`. Go allocates objects without bound; here
a new object is any that no goroutine and no key refers to.

### Managed content

`items` and `located` are the rows of a medium (`items[m]` only tells whether
its size comes from the server or a client), `disk[m]` its directory entries (a
temporary upload, the published file, the staged one), `reading`, `writing` the
locks of `KeyGuard`, `job[w]` a request. A database transaction or a call of
the content store is one step, except `Put`, which is two (`Receive`, then `Publish` or
`AbandonUpload`) because it takes as long as the client wants. A call that
fails has its failing disjunct; a failure that leaves a file or a lock behind
records the medium in `faulted`, a history variable, as does a crash at a step
of `Unfinished`. `Crash` keeps rows and files, drops locks and requests.

The audit event of a content request and how it is answered are in
`MediaAccess`. Left out is the volatile state of the
file system (the rename is not followed by a flush of the directory).

### Attempt limiters

`buckets`, `nextCleanup` are the fields of one limiter: `usernames` and
`ipAddresses` of that for logins, or `buckets` of that for enrollments, which
`limiter` selects at the start (they share nothing). `attempt[w]` is a request
between reading the clock and reporting its result, with the time it read;
`Arrive` is that reading, `Allow` and `Refuse` the two outcomes of `Allow`,
the others the methods of the same name, each with its cleanup. A key without a
bucket has the zero bucket of Go. How an attempt ends is chance. `holds` and
`stray` are history variables: which keys' present bucket admitted an
attempt, and how many attempts ended on a bucket that did not. The integers are
those of Go's `int`, unbounded here: a bucket counts no further than its limit
and the requests in flight. A request that panics is not modelled; it would keep its
reservation until the window is over.

### Session lifetime

`Accounts` lets a session be found expired at any read; this module has the clock. `clock`
is the time of the host in half seconds, which goes on (`Tick`) or is set back
(`StepBack`, remembered in `stepped`). `sessions` is the table, `users` whether a user exists and is
active, `req[w]` what a request has read: `Resolve` reads the row (`ResolveSession`), the user
(`ResolveUser`) and then the clock (`Validate`, with `IsValidAt`), and stores that time in a later
call (`Touch`), where the row must not be revoked meanwhile. Login and logout are as in
`Accounts`, with the time a new session is stamped with. `Checked` is the CHECK on
`last_seen_at`, which SQLite evaluates on text (`TextLess`). All ways in which a request ends
without an effect are `Refuse`: what is answered is not told apart.
`uses` and `slowest` are history variables: the times of a session's creation and accepted
uses, and the longest that one took from the clock to the database.

### Ranges and media access

`ContentRange` has no state. A `Range` header is a record of its form (bounded,
open, suffix, malformed or absent) and its numbers; `ParseContentRange` is
`parseContentRange`, `ReturnedRange` the `Content-Range` header that
`writeContentHeaders` makes of it, `Accepts` what `validateMediaContentResponse`
and `matches` take for an answer to what was asked. Additions wrap at `MaxInt`, and a
header may hold a number above it. `Selected` is the reference. `UploadedSize` is what
`copyBounded` and the bound on the request's body let through of an upload.

In `MediaAccess`, `items`, `grants` and `markers` are the tables (`grants[m][u] = {}`
is no row), `events` counts the content events of each key of
`content_audit_markers` (session, medium, outcome and reason; `Keys`), and `req[w]` is what a request
carries: its session, its operation, the owner read by `FindItem`, the size of the content it has
open, the result it has to record. `FindItem` and
`FindGrant` are the two queries of `authorizeItem`, after which the request acts in a
later transaction: `Update`, `Delete`, `SaveGrant` (after `FindGrantee`), `DeleteGrant`,
`ReadGrants`, `OpenContent`. `Stream` is `RecordSuccessfulAccess` and the start of
the body; a reading that is refused or fails takes its result to `Record` (`Report`), so two failures of
a session with different reasons store two events, and two with the same reason one. `AppendOnce` is one
transaction; its foreign key on the session is why a reading fails whose user is
deleted meanwhile. `held[w]` is a history variable: whether the actor had the
permission, by the rows, at some moment since the request arrived.
A deletion waits while content is open (`InUse`, the key lock of `StageDelete`), also while a failed
seek is recorded.

### Directories and consoles

`Directory` is what the three listings compute. `Text` gives the rank of a time as
RFC 3339 text without trailing zeros, in a base and with two fractional digits:
a digit that is not written sorts like the `Z` in its place, after all digits.
`Found`, `First` and `Page` are the query with one row more than the page and the
cursor made of the last row; `Fits` is the check of a cursor's digest and limit,
`Usable` what the typed client requires of a page.

`Consoles` is one console, of whichever program its listing belongs to: `console` is its
step, token and selected user; `view` the fields `pageStarted`/`auditStarted`/`mediaStarted`
with limit, filter and cursor; `present` the rows there are, `sessions` those on the
server. A call may be answered, refused by the client's own
checks, fail, or take effect and lose its answer (`lost`). `interrupted`
is the context of `run` that SIGINT canceled: calls with it are no longer made, while
`RevokeRejected` and `LogoutOnExit` have contexts of their own. `Kill` is every other early end:
both programs register only `os.Interrupt`, so SIGTERM (which the server does handle), SIGKILL or a crash ends
them at any step without a logout or a revocation. `killed` is the session the program then
had, logged in or about to be checked, which the server keeps until it expires. `SessionsEnd` allows
that one and no other.
`history` records what the current listing has shown and which matching rows were
there throughout. Prompts and commands that keep nothing are left out, and so are
audit events beyond the four rows of the instance.

### Server lifecycle

`proc[p]` is the main goroutine of a process between start and exit and the migration it has come
to; `drain[p]` its second goroutine, which waits for the signal and calls
`Shutdown`; `writer` the process whose transaction holds SQLite's write
lock, which `Execute` takes at the first write and not when the transaction
begins. `executed` counts commits of a script, `recorded` is `schema_migrations`.
`Check` and `Execute` are separate because the version is looked up outside of the transaction: of two
processes that find it missing one fails, since its script meets tables that exist.
`Return` follows `Shutdown` at once, as `ListenAndServe` does; `Exit` ends the process with
what is still active.

## Runs

| Run | Instance | Distinct states | What it shows |
|---|---|---|---|
| `accounts_admin` | 3 users, 2 administrators signed in, 2 requests | 61,653 | whoever they demote, deactivate or delete, an active administrator remains; nobody is written back after a deletion |
| `accounts_passwords` | 2 users, 2 sessions, 2 enrollment tokens, 3 hashes, 2 requests, from an empty archive and from one administrator | 340,247 | no orphans; password or enrollment, never both; sessions end with the password; the latest token sets it; changes are audited; `PasswordLifecycle` is implemented |
| `key_locks` | 3 goroutines, 2 keys, 3 objects | 23,395 | `KeyGuard` is implemented, the registry is exact, every call is granted |
| `managed_content` | 3 requests, 1 medium | 7,873 | no loss through faults and crashes, stable streams, files and rows agree, locks are released |
| `attempt_limiter` | 3 requests; 1 username, 1 address and 1 enrollment address; limits 2, window 2, clock to 4 | 117,960 | whatever overlaps, expires, is cleaned up or cleared: capacity returns, limits hold but for strays, a lockout ends with its window |
| `media_access` | 2 users with a session each, 1 medium, 2 requests at a time, 4 in all; contents of 1 to 3 bytes, largest integer 4 | 1,694,906 | grants refer to rows, nothing is served without a right held during the request, one event per session and result and none missing, ranges are exact and accepted by the client |
| `consoles` | 4 rows in one of 3 tables, pages of 1 or 2, 3 filters, 2 sessions | 1,309,212 | listings are complete, cursors fit, sessions end but for the one of a killed program, pages are usable but for times within a second |
| `server_lifecycle` | 2 servers, 1 bootstrap run, 2 migrations, 1 request, 3 starts | 132,873 | each migration once, whole schema before use, a signal always ends the process |
| `session_lifetime` | 1 user, 1 session, 2 requests; lifetime 4, idle timeout 3, clock to 5 half seconds | 3,229,199 | uses stay within lifetime and idle timeout; the stored last use lags by no more than a request |
| `stale_login` | 2 users, 2 requests | violation | see *Findings* |
| `drain` | 1 server, 1 request | violation | see *Findings* |
| `time_filters` | as `consoles` | violation | see *Findings* |

Why the bounds suffice. Every race of the account services is between one
transaction and what one other request remembers, hence two requests; a third
user makes the count of administrators matter while two of them disappear; two
tokens allow a replaced invitation, three hashes a second change while the
first hash is remembered. The kinds of request are divided between the two
account runs (`Kinds`): administration in one, passwords and deletion in
the other; the theorems hold for all kinds together. Three goroutines give a
registry object a user that leaves, one that waits and one that arrives, and two
keys let an object move. In `ManagedContent` no step reads or writes more than
one medium, so one medium shows all a safety property can see (two media,
886,333 states, pass as well); three requests are a deletion, a reader and a competitor.
In `AttemptLimiter` a clock that reaches 4 lets an attempt of the first window end
in the third; with a limit of two, two attempts fill a bucket and the third
meets it full. Keys interact only through the decision of `Allow` and the
cleanup: two usernames (window 2, clock to 3: 1,843,677 states) pass as well.
Workers are symmetric in the account and limiter runs, which check safety only.

In `SessionLifetime` two requests set the last use back; sessions do not touch each other, so one
shows what a property of a session can see. A lifetime of 4 with an idle timeout of 3 lets a session be
kept in use until its lifetime is over, and the clock goes beyond it. With an idle timeout of 2
the CHECK on the text of `last_seen_at` alone would end the session at these small
numbers.

`MediaAccess` needs two requests for the same reason as the account services, and four in
all let a third party revoke, delete or audit between two of them; a second medium
would only repeat the first, since no step relates two. A largest integer of 4 with contents of up
to 3 bytes gives each header number below, at and beyond the end of the content, at the largest
integer and beyond it. `Consoles` has rows at equal times, a whole
second among its fractions and times of different seconds; four rows make two full
pages or four. Two sessions are one left behind and one in use.
In `ServerLifecycle` two migrations show a process that stops between them,
and three starts a restart beside two others.

Deadlock is checked where requests may always end and begin again (accounts, sessions, locks,
content, limiter). `MediaAccess` and `ServerLifecycle` end at their bounds (`MaxRequests`,
`MaxStarts`), and a console ends with its program.

The modules state more properties than the runs list: `NoDeadlock`, `WritersAreNotOvertaken`,
`ReadersWaitOnce`, `RegistryIsBounded`, `LocksHaveOwners`, `NobodyWaitsForAWaiter`,
`OrphansStay`, `FiltersOffByFraction`, `MigrationsAdvance`, `RequestsEndWithCause`,
`RevocationIsFinal`, `RefusalsAreJustified`, `SessionsBeginWithPassword`, `DecisionsAreCurrent` and
`DeletionIsFinal` are theorems. TLC checks them on the instances of the runs of their modules, that of
`accounts_passwords` for `Accounts`, with the configurations named `MC<module>Theorems.cfg`.

### Fairness

`KeyLocks` assumes weak fairness for what a scheduled goroutine can do, and for
holders that they release: in this program every acquisition is paired with a
deferred or closing release. `Announce` has strong fairness, because writers
compete for the mutex in RWMutex and Go's mutex hands over to a starving
waiter. `ManagedContent` assumes weak fairness for a request that does not wait
for a lock (`Proceed`): goroutines run on, and the read and write timeouts of
`newHTTPServer` end a stalled upload or stream. It assumes nothing about the
calls that wait (`Wait`), since `KeyGuard` promises no order. Together:
`ManagedContent` shows that held locks are released, `KeyLocks` that a lock
whose holders release is granted. The exception is real: when the removal or
restoration of a staged file fails, the exclusive lock is kept until the process
ends (`LocksAreReleased` excludes exactly that case).

`ServerLifecycle` assumes weak fairness of the main goroutine and of the goroutine that
shuts down, per process. A database call of a migration does end: `busy_timeout`
turns waiting for another process's lock into an error (`Fail`). It assumes nothing of
requests: `StopsOnSignal` holds although one never ends.

## Findings

Each is a run that TLC must find violated.

- `SessionsOfCurrentPassword`: a login that verified the old password stores
  its session after a change has revoked the others; milestone 011 says a
  change preserves no old session.
- `RequestsAreDrained`: the comment in `cmd/server/main.go` says that active requests get an
  opportunity to finish before the process exits; `ListenAndServe` returns when
  `Shutdown` begins, and `run` and `main` with it.
- `FiltersAsDocumented`: `docs/audit.md` says that `from` is inclusive and `to` exclusive; the
  comparison of times as text has an event at `10:00:00.5Z` before one at `10:00:00Z`.
  The same order makes the typed client refuse a page that holds both, as `PagesAreUsable`
  says of exactly this case: it wants times to descend.

Further disagreements that the models show, each an invariant or action property of a module with a
configuration of its own, not among the listed runs:

- `DeactivationRevokesSessions` (`MCAccountsDeactivation.cfg`): `docs/commands.md` says that deactivation
  revokes the user's sessions; the code leaves them, unusable while the user is inactive
  and usable again after a reactivation in time.
- `LastUseIsLatest` (`MCSessionLifetimeLatest.cfg`): `docs/database.md` calls `last_seen_at` the time of the
  latest accepted use; of two overlapping requests the one that read the clock first may write
  last. `LastUseLags` says by how much it can be behind.
- `NoSelfLockout` (`MCAccountsSelfLockout.cfg`): milestone 010 says an administrator cannot deactivate
  themself; the rule is decided on a row read before the transaction, which
  does not check it again.
- `RefusalsAreAudited` (`MCAccountsRefusals.cfg`): `docs/audit.md` and milestone 021 say that a denial is not answered
  without its event; an update or enrollment whose target is deleted after it
  was read is.
- `UploadedSizesAreDerived` (`MCManagedContentSizes.cfg`): README and milestone 019 say that sizes and checksums
  of uploads come from the server; `PUT /media/{id}` replaces them, after which
  the content cannot be read.
- `FailuresWithinLimit` (`MCAttemptLimiterFailures.cfg`): milestone 008 limits a username to five failures within
  15 minutes; a success removes the bucket with the reservations of other
  attempts in flight, whose failures are then counted on top of a full limit.
  `LimitHolds` says what is kept: the excess is the number of such attempts.

The CHECK on `last_seen_at` compares text too: a session made at `10:00:05Z` cannot be used at
`10:00:05.5Z`, nor one that expires at `18:00:05.5Z` at `18:00:05Z`. `Touch` fails, and with it the
request, in such a second (`Checked`); nothing that is stored is wrong.

And some that no run shows. A console that is ended by SIGTERM leaves its session on the server, usable
until it expires, because only SIGINT is handled (`Kill`). `docs/audit.md` (line 79) counts rate-limited login attempts among the
audit events; `createSession` answers 429 without one, unlike the enrollment
handler. With an upload limit within 256 KiB of the largest `int64`, which `parseMaximumUploadSize`
accepts, the bound on the request's body is negative and every upload is refused
(`UploadLimitIsExact`).
A `Range` header whose number exceeds `int64`, or with several ranges, is answered 416
where RFC 9110 would let the server ignore or clamp it; `RangesAreExact`
leaves out the first, and the second is *malformed*.

## Proofs

`tlapm` checks every leaf with Z3, Zenon and LS4. Assumptions on the constants
are those of the modules: finitely many users (for counting administrators) and
goroutines (for counting references), the three role names, `None` outside the
other sets, and, for a server that opens an existing database, that it was left
by a program with the same invariants (`DatabasesAssumption`).

**`AccountsProofs`.** First types, with `StepOK`: each step of a request has
read what it uses. Then `StepCommits`, the fact all else
rests on: whatever step is taken, the tables change by one transaction of the
store, or not at all. Each safety invariant is proved over that list of
transactions, not over the actions: a transaction repeats its checks, so what a
request remembers cannot matter. The exception is the transaction that stores a session, which
checks no password. `LoginSafety` bounds what comes of it (the finding `SessionsOfCurrentPassword`): a
credential is replaced but never removed before its user is (`CredentialsStay`), so who has once
verified a password has one when the session is stored (`VerifiedOK`), if perhaps another. `AdministratorRemains` needs no
strengthening beyond types, because a transaction that removes an administrator counts
first (`OneOfTwoRemains`: of two one is left). `NoOrphans` and
`PasswordOrEnrollment` support each other, and the bootstrap needs `Founded`:
where a request is in progress there is a user. Without it a creation admitted
for an administrator since deleted could put its user, whatever the role, into
an empty database as the first. `SessionSafety`, `EnrollmentTokenSafety`,
`DeletionSafety` and `AuditSafety` are action properties from the same
invariant; `PasswordLifecycleRefinement` maps each transaction to a step of
`PasswordLifecycle` or to a stutter.

**`KeyLocksProofs`.** The invariant: the goroutines of an
object are those whose call names it and are all of its key's; its reference
count is their number; an announced writer is one of them; admitted readers are
held or waiting to wake, and none is in while a writer holds. Exclusion per
key follows because one key has one object (`RegistryMatchesUse`), and with it
the refinement of `KeyGuard`. What can be proved of `EveryCallGranted` without fairness is its safety
part. `WaitOK` adds that a reader that waits is admitted or has a writer before it; then somebody on an
object can always go on (`DeadlockFreedom`), readers that keep coming do not pass
a writer (`WriterPriority`), nor writers a reader (`ReaderTurn`). `RegistryBound` counts: keys in the
map have different objects, and each of these a call of its own.

**`ManagedContentProofs`.** An upload has its medium to itself, since nobody can be authorized
for a row that does not exist; a deletion has it by its exclusive lock. So each
knows exactly what is on disk between its steps (`UploadOK`, `DeletionOK`), a
reader that its file stays (`ReaderOK`), and `ClientOK` says that a request that was authorized
once meets no file without a row. With `RowsOK` for media at rest these are
inductive, and `NoDataLoss`, `StreamsArePublished` and `FilesMatchRows` follow. `LockOwnership` is the safety
part of `LocksAreReleased`: a lock belongs to a request at a step that ends by releasing it, unless
a deletion failed half-way and left its staged file (`Kept`). No request
holds one lock and waits for another, so there is no circle (`DeadlockFreedom`). `OrphansRemain` says what
the program does not do: nothing reconciles a staged file whose deletion is gone, neither a later
request nor a restart.

**`AttemptLimiterProofs`.** For a bucket that has reserved `pending` and has `n`
attempts in flight and `s` strays: `pending <= n <= pending + s`, and
`failures + n <= limit + s` (`Sound`). The middle bound is what
`ReservationsReturn` and `LimitHolds` lack: a stray may take back the reservation of
another attempt, so that `Allow`, which sees only `pending`, admits one more.
Each operation on a bucket keeps `Sound` (`ReserveSound`, `FailedSound`,
`ReleaseSound`), for a bucket that goes on; one that is started again has lost
its attempts. `LockoutSafety` needs that the time of a request is not later than the
clock (`ClockOK`). `RefusalSafety` is the other direction of the limits: whoever is refused met a
bucket that its failures and the attempts in flight fill.

**`ServerLifecycleProofs`.** `ListenerOK`: who listens has not begun to shut down.
`ProgressOK`: a process has come to a version by way of all before it, and only the one
that holds the write lock is about to record one, which is not recorded yet. Hence a
migration is executed and recorded at most once (`MigratedOnce`), and a process that has come to
the end has found or recorded them all (`SchemaIsComplete`). Versions are recorded in order and without
gaps (`MigrationProgress`). `RequestSafety` bounds the finding on draining: who shuts down
was told to (`SignalOK`), and an active request has a server that serves or shuts down (`ServedOK`),
so nothing but a crash or a signal cuts it off, and in particular no other process.

**`SessionLifetimeProofs`.** The row a request has found may be older than the stored one. What
carries the proof is that its last use is one of the uses and its other times are those of
the row (`FoundOK`), and that nothing read is ahead of a clock that was not set back (`ClockOK`). So
a use that is stored follows another within the idle timeout (`LimitSafety`), although the last
use may meanwhile have gone forward or back. `RevocationSafety`: a request that found the session valid
before it was revoked adds no use, since `Touch` asks again in the statement that writes. `LagSafety`: all uses are at most the clock, which at a
`Touch` is its time and what it took.

**`MediaAccessProofs`.** An id is given once (`IdsOK`): the item a request has found is deleted or
still has the owner it was found with, so a grant saved by a check that is out of date
is never the owner's, and the foreign keys do the rest (`GrantsReferToRows`). A grant
that is found therefore has an item, which makes authorization in two queries a
permission at one moment (`AuthorizedIsPermitted`). `DecisionSafety` says this of every decision and
also of refusals, for which a request between the queries must not be the owner's
(`FoundOK`); `DeletionSafety` that no request brings back an item it carries. `MarkersOK`: an event keeps its marker
until its user is deleted, after which no session of the user stores another. Ranges are
constant theorems: what stays in `-(MaxInt + 1)..MaxInt` does not wrap (`WrapKeeps`), so each form of
header has the interval of the reference (`RangeIsExact`), and it reaches the client as it was
sent (`IntervalArrives`, `ClientAgrees`). A sum beyond the largest integer wraps to a negative number
(`SumWraps`), which is why `UploadLimitIsExact` has two cases. All widths of integers are included, 64
bits among them; TLC evaluates the last theorem on small ones as an assumption of `MCMediaAccess`.

**`ConsolesProofs`.** A page is an initial piece of the rows found, in the order of text and id
(`PageCut`): the smallest row that is not on it has exactly the page before it, so the
extra row the query asks for tells whether there are more. Positions are ordered whether or
not their rows are still there (`PositionsOrdered`). With `HistoryOK` (nothing shown is after the
cursor, stable rows are present and match) the listing is complete. `TextBySecond`
is the arithmetic of times: different seconds sort alike as text. Here sets of rows are finite.
`PagesPartition` is the fact about one page, for any rows: what it shows and what its cursor
leaves are disjoint and together all there was. `FilterAgreement` bounds the finding
on filters, first for one row, where text and time can differ only within a second of the
filter, then (`FilterSafety`) for a listing, all of whose rows match its filter (`RowsMatch`).

Only model-checked: the liveness properties `EveryCallGranted`, `LocksAreReleased` and
`StopsOnSignal`, which need fairness and `ENABLED`. Every safety property of a passing
run is a theorem, and the theorems listed in `PROJECT.json` without a property state more than the
runs do.

## Not modelled

- Password hashing and policy, the syntax of user names, titles, MIME types, headers and JSON: strings
  and cryptography.
- What an audit event says, beyond its existence and, for listings, its time and kind.
- Commands of the consoles that print or forward one call, and the prompts of forms.
- Two servers that serve at once: key locks and limiters are those of one process, and `ServerLifecycle` has two
  only while one hands over the address.
- A failure of the host: only processes crash, and files that were renamed stay.
- The project tools (`internal/projecttool`, `cmd/projectctl`, `tools`).

## Plan

Done: all components that keep state, the safety theorems of all of them, and a theorem that bounds each
finding of the listed runs. What is left:

1. An abstract listing that `Consoles` implements, so that completeness is a refinement.
2. An abstract access control, one query and one effect, that `MediaAccess` implements (`DecisionSafety`
   is the step it needs).
