# Formal models of the authentication and files services

TLA+ specifications of the two FastAPI services of this repository, the TLC
configurations that check them on small instances, and TLAPS proofs of the
properties that hold for every size. Paths are relative to the repository root
(`src/`).

## 1. The system

| Part | State it keeps | Operations | Talks to |
|---|---|---|---|
| Authentication service, `app/authentication/domain/service.py` | none of its own | `register`, `login`, `introspect`, `logout` | users and audit rows in PostgreSQL, sessions behind the `Sessions` port |
| Sessions over Redis, `persistence/redis_sessions.py` | `session:<digest>` (a hash), `user:<id>` (a digest), both with a TTL | `by_user`, `by_digest`, `replace`, `touch`, `remove` | Redis: pipelines are MULTI/EXEC, the reads before them are calls of their own |
| Sessions over PostgreSQL, `persistence/repositories.py` | a row per session, unique per user | the same port | PostgreSQL |
| Users, `persistence/repositories.py` | a row per user, unique email | `create`, `by_email`, `lock` | PostgreSQL |
| Files service, `app/files/domain/service.py` | none of its own | `list`, `create`, `get`, `upload`, `delete`, `merge` | file rows, a `ContentStorage`, the PDF merger, the audit |
| File rows, `persistence/repository.py` | owner, metadata, storage key and SHA-256 | `get_owned` (with and without a row lock), `create`, `set_content`, `delete` | PostgreSQL |
| Contents in S3, `persistence/s3.py` | objects under random keys | `put`, `get`, `delete`, `shareable_url`, `ensure_bucket` | an object store, in threads |
| Contents on a volume, `persistence/content.py` | a file per key | the same port | the file system |
| Introspection client, `persistence/introspection.py` | none | `introspect` | the authentication service, over HTTP with a timeout |
| Transactions, `app/core/infrastructure.py` | the PostgreSQL transaction around each request | commit, roll back | |
| Edge of each API, `core/body_limit.py`, `exception_handlers.py`, `core/api_errors.py`, `files/api/router.py` | a buffered body and the request's id | refuse a body, a header, a token or an input; answer an exception, and audit it in a transaction of its own | PostgreSQL |
| Merge request schema, `app/files/schemas.py` | none | tell a list or a pair of sources from everything else | |
| Startup and readiness, `application.py`, both `main.py`, `database.py` | the life of each process | lifespan and hooks, `ensure_bucket`, `/healthcheck`, `/ready` | PostgreSQL, Redis, the object store |
| Deployment, `docker-compose.yml`, `init-role.sh`, `migrations/` | volumes, containers, the migrations recorded | start in the order of `depends_on`, initialise the role, migrate | all of the above |
| Recovery script, `scripts/recovery_s3.py` | its step and what it has read | upload, restart, poll, read back, dump and restore, stop and start | both APIs, Docker |

**How they interact.** A request to the files service is first introspected by
the authentication service, which reads and renews the session. Each service
then runs one operation inside one PostgreSQL transaction. The session store
and the object store are *not* part of that transaction: what was written there
stays written when the transaction rolls back, and it is visible to the others
before the transaction commits. Several workers (and several requests of one
worker: every `await` is a point where others run) serve the same users and
files.

**What is hard.** (1) In the session adapter, every write is preceded by a read
in another round trip, and only `login` holds a row lock. (2) Failures between
the write to Redis or S3 and the commit in PostgreSQL. (3) Keys that expire, and
a Redis that restarts empty, between the two round trips. (4) In the files
service, a merge locks several rows, fetches blobs one at a time and writes one;
uploads and deletes of the same rows run meanwhile. (5) `get` reads the row
without a lock and the blob later. (6) Blobs are deleted after the commit.
(7) Over PostgreSQL, sessions and accounts rely on row locks and unique indexes,
and on nothing being judged that is not locked. (8) A rejection is answered from
an exception handler that writes to PostgreSQL itself and may fail doing so.
(9) The containers start, stop and are restarted in any order, workers prepare
one bucket at once, and a put over a volume is five system calls. (10) The
recovery script judges a deployment that changes between its commands.
`PROJECT.json` lists each of these under `hazards`, at its line, with the
properties that watch it, or with a note where no property rules it out.

**What makes each part correct.**

| Part | Properties |
|---|---|
| Sessions | a session that was removed is never usable again; only its own login creates a session; the session `replace` removes is the current one; at most one active session per user; every key expires; every request is answered |
| Files | committed metadata never points at a missing or different blob; what was read under a row lock still holds at commit; the merged document is its sources in the caller's order; nobody's pages reach somebody else; a reader can lose its content only to a delete; no deadlock; an object is lost track of only when an upload replaces it or a request fails; the whole is an atomic catalog; every request is answered |
| Users | of several registrations of one email one is answered 200, and the account has its password |
| Sessions over PostgreSQL | the session an introspection or a logout has judged is still so when it commits, and so is what a login has deleted; a session is over once its logout is answered, for requests under way too; logins that wait for rows are answered |
| Introspection | an error, a timeout or an odd answer is never taken for a valid user, nor for a revoked session |
| Body limit | the decision depends on the size and the declared length alone, not on how the body is cut up |
| Error answers | the audit rows of a request agree with what its client was told, through outages |
| Sessions port | at most one session per user, opened under a fresh token, renewed only within its limits and never backwards, never back once gone |
| Merge request | a body passes exactly when it names 2 to 10 different positive ids in one of two forms |
| Contents in S3 and on a volume | a key that was returned leads to its whole content through crashes and power failures |
| Startup | nobody serves without schema, role and bucket; nothing but a failure makes a files worker exit in its start; everything comes up once failures stop |
| Readiness, recovery script | two answers 200 of `/ready` mean that the file can be read (they do not, finding 5); the script ends early only for a reason more recent than its last round of polling |

## 2. The modules

| Module | Models | Holds |
|---|---|---|
| `RedisAuth` | `login`, `introspect`, `logout` over `RedisSessions`, with row lock, TTLs, failures, restarts | state machine, properties, mutants |
| `RedisAuthProofs` | theorems about it | |
| `MCRedisAuth` | the symmetry sets for TLC | |
| `FilesStore` | `create`, `upload`, `delete`, `merge`, `get` over rows and S3 | state machine, properties, mutants |
| `FileCatalog` | what the files service promises: atomic operations on a map from ids to owner and content | abstract specification |
| `FilesStoreProofs` | typing and row locks | |
| `FilesBlobProofs` | rows against blobs | |
| `FilesCatalogProofs` | no circle of waits, merges, the refinement of `FileCatalog` | |
| `MCFilesStore` | the symmetry sets for TLC | |
| `PostgresAuth` | `register`, `login`, `introspect`, `logout` over the two tables | state machine, properties, mutants |
| `PostgresAuthProofs` | theorems about it | |
| `FilesApi` | one request to the files API, from the first byte to the answer and its audit rows | state machine, properties, mutants |
| `FilesApiProofs` | theorems about it | |
| `MCFilesApi` | the messages for TLC | |
| `Sessions` | what the authentication service promises of sessions, whatever adapter keeps them | abstract specification |
| `PostgresPortProofs` | `PostgresAuth` implements `Sessions` | |
| `ContentStorage` | the S3 and the volume adapter, and the life of the files workers that use them | actions, properties, mutants |
| `Deployment` | the containers around them, extends `ContentStorage` | actions, properties, mutants |
| `Recovery` | the recovery script and other clients on a deployment, extends `Deployment` | state machine, properties, mutants |
| `RecoveryProofs` | theorems about it | |

An operator whose comment begins with *Mutant* is the definition below it with a
plausible mistake; the specification never uses it. `PROJECT.json` names for
each checked property a mutant that breaks it, which is how one knows that the
property says something about the code.

### 2.1 RedisAuth

State: `session` and `index` are the two Redis keys with their deadlines, `now`
the clock, `rowLock` the `SELECT ... FOR UPDATE` on the user's row, `tokens` what
became of each generated token (`pending` while its login runs, `issued` once
the client has it, `lost` when the login failed), `revoked` the tokens whose
logout was answered 200, `req` the program counter and locals of each request.

| Action | Code |
|---|---|
| `StartLogin`, `LockUser` | `service.py:34-42`: password accepted, token generated, transaction open, `users.lock`; the clock is read once the lock is granted |
| `ReadIndex`, `CheckOld` | `by_user`: GET of the index, then HGETALL of the digest it holds; an active session refuses the login |
| `ReadPrevious`, `Store` | `replace`: GET once more, then the pipeline DEL / HSET / EXPIRE / SET |
| `Introspect`, `Touch`, `Renew` | `by_digest` and the two tests; `touch` reads again, then its pipeline HSET / EXPIRE / EXPIRE |
| `Logout`, `Remove`, `Unlink` | `by_digest`; `remove` reads again, then deletes both keys |
| `Commit` | audit row, commit, answer |
| `Abort` | any await raises, or the worker stops: `Leave` gives the row lock back, Redis keeps what it has |
| `Tick`, `Restart` | Redis drops keys past their TTL; Redis comes back empty (`docker-compose.yml`: no AOF, no snapshot) |

HSET on an absent key creates it: `Renewed` yields a hash with `last_seen_at`
alone, and a request that decodes such a hash fails (`Partial`). An introspect
or a logout that is refused at its first read changes nothing and is no step.

`TokenLife` states what the adapter promises of one token, without requests and
keys: its session is opened once at most, by its own login, with an owner and an
absolute limit that never change; `Renew` moves the idle window, `Close` ends it,
`Tick` ends it when the window has passed and not before, `Lose` is the restart.
`RedisAuth` implements it with the hashes that decode (`sessions`) and the
digests whose login has neither stored nor failed (`fresh`); the index and the
half-written hashes of finding 2 do not appear in it, and that is the point: no
fault of theirs reaches a session. That a user has only *one* session is not
promised (finding 1).

### 2.2 FilesStore

State: `files` the committed rows (`key` and `sum` are `None` until the first
upload), `rowLock`, `blobs` the bucket, `nextId` the id sequence, `spent` the keys
that uuid4 has already produced, `req` the requests, `reply` the last answer of
each worker.

| Action | Code |
|---|---|
| `Create` | insert and commit; nothing else can be in between that others see. `Creators` bounds who does: the other owners only name files that are not theirs |
| `StartUpload`, `StartDelete`, `StartMerge`, `StartGet` | the operation up to its first query that may wait; `StartMerge` takes what `merge` lets through: 2 to `MaxSources` distinct ids. `StartGet` has read its row without a lock |
| `LockRow`, `NotFound` | `get_owned(lock=True)`: the row with that id *and that owner*; a merge locks in ascending order |
| `Fetch` | `content.get` and the comparison of checksums: for `get`, and for each source of a merge in the caller's order; anything missing or different refuses |
| `Merge` | `merge_pdf_content`: every source readable, page limit |
| `Put` | `content.put` under a new key, inside the open transaction |
| `CommitContent`, `CommitDelete`, `CommitGet` | row and audit row become visible, locks go |
| `Unlink`, `UnlinkFails` | `content.delete` after the commit, its failure answered 503 |
| `Abort` | any await raises, or the worker stops: rows and locks roll back, blobs stay |

A content is the sequence of its pages; a page tells its uploader and a mark. A
content stands for its own SHA-256, and `<<>>` for bytes that are no readable
PDF. That is all the properties distinguish.

### 2.3 PostgresAuth

State: `users` and `sessions` are the committed rows, `inserting` the index entry
of an email whose insert is not committed, `userLock` and `rowLock` the row
locks, `registered` the passwords of the registrations answered 200, the rest as
in `RedisAuth`. Everything a request does is one transaction, so a request that
fails leaves nothing behind.

| Action | Code |
|---|---|
| `Register`, `InsertUser`, `CommitUser` | password hashed; INSERT, which waits while another insert of the email is undecided, and is `user_already_exists` when that one commits; commit |
| `Login`, `LockUser` | `service.py:34-42`, as in `RedisAuth` |
| `ReadOld`, `Replace`, `CommitLogin` | `by_user` without a lock; DELETE, which waits for whoever holds the session row, and the INSERT; commit |
| `Introspect`, `Logout` | a client presents a token it was given |
| `FindSession`, `NoSession` | `by_digest` with `FOR UPDATE`: waits, then sees the row as it then is; an expired one refuses an introspection |
| `CommitTouch`, `CommitRemove` | UPDATE or DELETE by digest, audit, commit |
| `Abort` | any await raises, or the worker stops: all is rolled back |

`JudgedRowStays` is about logins from their DELETE on. What `by_user` read before
it may have changed: an introspection that commits in between renews the
session, and the login replaces it although it is active. No document promises
otherwise, and neither does any property here.

The contrast with `RedisAuth` is in `RevokedIsOver`. Over PostgreSQL an
introspection that has found its session holds its row, so a logout is answered
only after it. Over Redis nothing keeps an introspection that has read the hash
from being answered 200 after the logout was; all `RedisAuth` can promise is
that no *later* request finds the session (`RevokedStaysRevoked`).

`Sessions` states the port without requests: `Open` puts a session under a fresh
digest in the place of whatever the user had, `Renew` moves `seen` forward to a
moment the request read from the clock and that neither limit forbids, `Close`
ends it. `PostgresAuth` implements it with its own rows for sessions and
`Issued` for the digests handed out; every other step is a stutter. Redis does
not: findings 1 and 3 are steps `Sessions` does not have (a second session of a
user; a session whose token nobody was given), and two touches of one session
may write their times in either order.

### 2.4 FilesApi

State: one request. `message` is what the client sends, `body` the bytes
buffered, `auth` what the authentication service made of the token, `error` the
exception under way, `effect` whether the operation was committed, `audits` the
outcomes of the rows with its request id, `answer` the status; and `db`, whether
PostgreSQL answers.

| Action | Code |
|---|---|
| `Arrive`, `Receive`, `Disconnect` | `BodyLimitMiddleware`: the declared length, then chunk by chunk |
| `Route` | no such path, a method it does not have, or a form that cannot be parsed: an HTTP error before any dependency runs |
| `CheckHeader`, `Introspect`, `CheckInput` | FastAPI validates the `Auth` header, calls `current_user`, then validates path and payload; of a merge, `ValidMerge` is the whole of `MergeFilesRequest` |
| `Operate`, `Refuse`, `Fail`, `Finish` | the service: commits with its audit row, raises a `DomainError` (all of them are answered like `file_not_found` here), fails otherwise. `Refuse` needs no PostgreSQL: an upload that is too large is refused before any query. `Finish` is the removal of a blob after the commit: a failing store is `content_unavailable`, a failing directory an `OSError`, hence 500 |
| `RejectBody`, `RejectInput`, `RejectDomain` | the three handlers that audit a rejection and then answer it |
| `RejectHttp` | `http_exception_handler`, which answers without an audit row |
| `Crash` | the handler of last resort, for everything else and for handlers that fail |
| `Outage` | PostgreSQL fails or recovers |

A `Content-Length` is independent of the size of the body, as in
`tests/test_api.py`, and counts only when it consists of digits. A body that is
no JSON where it has to be is refused before the introspection, like a bad
header. The half-written hash of finding 2 is seen here as the answer `error`:
the files API then answers 503, not 401.

The ids of a merge are numbers or JSON `true`, which pydantic converts to 1
before `validate_sources` runs (`Number`); its `isinstance` tests therefore
never refuse anything. `MergeNamesItsSources` states what a body must be in
other words than the validator does, and both directions: what passes is what
`FilesService.merge` demands again (`service.py:80`), so the two copies of the
limits agree, and what is turned down could not be read that way.

### 2.5 ContentStorage, Deployment, Recovery

Three layers of one state machine; `Recovery` has `Init` and `Next`.

`ContentStorage`: `worker` is where a files worker is in its start, `seen` what
reading a key finds now, `disk` what reading it may find once the page cache is
gone, `life` the next step of the put or delete of a key.

| Action | Code |
|---|---|
| `Start`, `RunHooks`, `HeadBucket`, `CreateBucket`, `CreateRefused` | the lifespan, then `ensure_bucket`: any `ClientError` counts as a missing bucket, and losing the race to create it as success |
| `Put`, `Open`, `Write`, `SyncFile`, `SyncDirectory`, `Return` | `LocalContentStorage.put`: each call lets other processes and the power in |
| `Upload`, `PutFails`, `Delete`, `Unlink`, `DeleteFails` | the S3 adapter, one request each; failures of either adapter leave what was written. Calls run in threads, so a worker may serve several at once |
| `Crash`, `StopWorkers`, `StopStore`, `LosePower` | a worker, a container, the store or the host stops; after a power failure one of the states in `disk` remains |

`Deployment`: `pg`, `data`, `schema`, `migrate`, `redis`, `auth` are the other
containers and the volume of PostgreSQL, `faults` counts what has gone wrong.

| Action | Code |
|---|---|
| `StartPostgres`, `InitRole`, `OpenPort` | the image: on an empty volume it creates the cluster with its Unix socket only, runs `init-role.sh` once, then opens the port |
| `StartMigrate`, `InitSchema`, `AuditControls`, `MigrateEnds` | `aerich upgrade`, started as soon as `pg_isready` succeeds, which it does on the socket; a migration and its record are one transaction |
| `StartRedis`, `StoreStarts`, `StartFiles`, `StartAuth`, `BootFiles`, `BootAuth` | `depends_on` holds back a container's *first* start; a later one finds whatever is there |
| `StopPostgres`, `StopRedis`, `StopAuth`, `StorageFault`, `PowerFailure` | no service has a restart policy |
| `DatabaseReady`, `SessionStoreReady`, `ObjectStorageReady` | the two awaits of `/ready` of each API |

`Recovery`: `script` is the next step of `recovery_s3.py`, `item` its file,
`session` whether Redis still knows its session, `rows` whether the tables have
changed since its dump, `round` the rounds of polling used up and `mark` how many
faults there had been when the script, or its present round, began. `Begin` is
somebody who runs it on a deployment that `docker compose up --wait` has reported
healthy. One action per command or request from the registration on (`SetUp`,
`SendUpload`, `Uploaded`), the two halves of each `/ready` apart; every failing
`assert`, every answer it cannot use and every failing command (`CommandFails`)
leads to `aborted`. Other clients upload, delete and write
audit rows meanwhile (`OtherRequest`, `OtherCommit`). `Repair` is the operator
who starts again what an aborted script has left stopped.

What is assumed of a file system: an fsync of a file makes its content durable,
an fsync of a directory its entries, and before either anything may remain. The
directory itself exists (compose mounts it; the code does not fsync its parent).
A deletion is not followed by an fsync, so a deleted blob may be back after a
power failure; nothing names it.

## 3. Abstractions common to all

* A request that fails stops there: its transaction and its coroutine end in one
  step. A PostgreSQL connection that dies, and with it the lock on the user's
  row, while the login goes on to Redis (`service.py:41`) is not modelled;
  `PreviousStillCurrent` and `OneActiveSession` presuppose the lock. Neither is a
  commit or an audit row that is written although its acknowledgement is lost.
* Writes inside a PostgreSQL transaction appear when it commits. Nobody reads
  uncommitted rows (READ COMMITTED), and a row is only written under its lock or
  is new.
* The id and the object key of a request are drawn when it begins, not when it
  inserts or stores. Both are new and nobody else can see them before; it keeps
  `MaxFiles` and `Keys` from stopping a request half way.
* Tokens, UUIDs and SHA-256 do not collide.
* An INSERT of a file takes a key-share lock on its owner's row, so it may have
  to wait for a login of that user. The login never waits for rows of files, so
  no circle closes there; the wait itself is left out. Audit rows have no
  foreign key.
* The clock is read in the same step as the HGETALL it is compared with
  (`introspect`); for `login` it is a local taken when the lock is granted, and
  grows stale as in the code.
* Byte limits, names, descriptions and audit contents are left out. Listing
  files and signing a URL change nothing.

## 4. What TLC checks

| Run | Question | Result |
|---|---|---|
| `redis_auth` | two workers, one user, three tokens, all faults: typing, `RevokedStaysRevoked`, `PreviousStillCurrent`, `KeysExpire`, `NoSessionIsRevived`, and keys implement `TokenLife` | hold |
| `redis_auth_answers` | no logout requests, all faults: `OneActiveSession`, and under fairness `EveryRequestAnswered` | hold |
| `redis_auth_two_sessions` | with logout requests: `OneActiveSession` | violated, finding 1 |
| `redis_auth_partial_hash` | `SessionHashComplete` | violated, finding 2 |
| `redis_auth_failed_login` | `FailedLoginLeavesNoSession` | violated, finding 3 |
| `files_store` | two workers, two owners, three files, all faults: typing, `NoDanglingKey`, `LockedRowsStay`, `MergedInCallerOrder`, `NoForeignPages`, `GoneOnlyWhenDeleted`, `LeaksHaveACause`, and rows and blobs implement `FileCatalog` | hold |
| `files_answers` | four files, creations, uploads and merges, under fairness: `NoDeadlock`, `EveryRequestAnswered` | hold |
| `files_delete_answer` | `CommittedDeleteIsAnswered` | violated, finding 4 |
| `postgres_auth` | two workers, one user, two passwords and two tokens, aborts, under fairness: typing, `JudgedRowStays`, `RevokedIsOver`, `OneRegistrationWins`, `NoDeadlock`, `EveryRequestAnswered`, and the whole implements `Sessions` | hold |
| `files_api` | one request, bodies up to twice the limit, every small merge body, outages at any step: typing, `SizeDecides`, `FailsClosed`, `MergeNamesItsSources`, `AuditTellsTheAnswer` | hold |
| `recovery` | a fresh deployment, two files workers, one key, three faults, under fairness: typing, `ContentSurvives`, `ServesPrepared`, `NoStartFailsAlone`, `AbortsForAReason`, `ComesUp` | hold |
| `recovery_ready` | one files worker, one fault: `ReadyIsHonest` | violated, finding 5 |

**Bounds.** Two workers: every property is about one request against what may
happen between two of its steps, and the second worker can serve any number of
requests meanwhile. Three tokens are what a session, its replacement and the
login after that need; the one-session violation uses exactly three. Clock:
`Idle = 2 < Absolute = 3 < MaxTime`, so that a session can idle out, can be kept
alive by touches, and can reach the absolute limit although it was touched.
Three files and three keys are two sources and a merged document, or an upload
replaced while a reader holds the old row; of the two owners one creates files
and the other names them in uploads, deletions and merges, which is all it takes
to leak a page; four files
let two merges lock the same pair in both orders (`files_answers`, which has no
deletions: with them four files exceed what TLC can visit in a few minutes, and
a deletion locks one row only). Two marks make the two orders
of a merge different documents, and `MaxPages = 2` is reached and exceeded.
In `postgres_auth` the clock stops at 3, where a session with `Idle = 2` has
idled out, one that was touched has not, and one that is kept alive reaches
`Absolute = 3`; two tokens are a session and the one that replaces it. With two
workers every chain of waits has one link; `NoDeadlock` allows two, which takes
three workers and is covered by its proof. In
`redis_auth_answers` the two limits and the clock are 2; a logout takes no lock
and waits for nobody, so its answer is not in question. In `files_api` the limit
is 2 units and a body up to 4, so that a chunk can end below, at and beyond the
limit; a merge has at most 3 sources, and its bodies are all lists of up to 4 ids
out of 0, 1, 2 and `true`, alone and beside either half of a pair, and all pairs.
In `recovery` two workers race for the bucket, and one serves while the other is
down; one key is enough, as its file and its directory entry are all that `put`
touches and the script reads only its own; three faults are enough to stop a
service, to stop it again while it is repaired, and to lose the power. `mark`
makes a fault count once only: after two of them and a round that both APIs
answered, an abort needs a reason of its own. Of 45
rounds of polling 2 remain, one that fails and one that may succeed. `MaxTime`, `MaxFiles`,
`MaxBody`, `Keys`, `Digests` and `Creators` bound the state space and nothing in
the code; deadlock checking is off because of them: when they are used up and
every request is answered, the model stops.

**Symmetry** is used for safety only. Ids are not symmetric: the code orders
them.

**Fairness.** `WF(Continue(w))`: a coroutine is resumed when its reply arrives.
`SF` on taking a row lock or an index entry: PostgreSQL queues those who wait,
so a waiter is not overtaken for ever. No client has to send anything, no fault has
to happen, and no clock has to tick. In `recovery` what has stopped is started
again, because somebody repeats `docker compose up`: no service has a restart
policy, so without that nothing comes back, and `ComesUp` is about whether that
is *enough*. It is not if PostgreSQL stopped before `init-role.sh` had run on its
new volume (`Unrepaired`): the image does not run it again.

**Starts.** `NoStartFailsAlone` is about the files workers, whose lifespan races
for the bucket. A migrate container *may* fail without any fault, while
PostgreSQL initialises its volume and has no role yet (`StartMigrate`); it is
started again with everything else, and `ServesPrepared` and `ComesUp` are what is
promised of it.

## 5. Findings

1. **Two active sessions** (`redis_sessions.py:141`). `remove` deletes
   `user:<id>` without looking whether it still names the session it removes. A
   logout that has read its session, then another logout with the same token,
   then a login: the first logout now deletes the *new* session's index, and the
   next login is not refused. The README says one active session per user.
2. **A hash without an owner** (`redis_sessions.py:127`). A `touch` whose session
   disappears between its read and its write creates a hash with only
   `last_seen_at`. It never becomes a usable session
   (`RevokedStaysRevoked` is proved), but the token is then answered 500 instead
   of 401 until the TTL ends.
3. **A failed login that locks its user out** (`service.py:54`). The session is
   in Redis before the audit row and the commit; if those fail, the client has no
   token and further logins are refused as `active_session_exists` until the
   session idles out.
4. **A committed delete answered 503** (`files/domain/service.py:77`). The
   comment promises that a failure there costs storage and nothing else; the
   client is told that the delete failed, and a retry is answered 404.
5. **A `/ready` that does not ask the store** (`files/main.py:26`). The readiness
   check of the files API signs a URL, which needs no answer, and
   `shareable_url` swallows what fails. `README.md:100` says that `/ready`
   "additionally proves" that the service's own backend answers, and
   `application.py:159-162` that every backend is "actually answering" and the
   container "safe to send traffic to". With the store down both APIs answer 200
   and the file that was uploaded before cannot be read.

## 6. What is proved

The proofs hold for any number of workers, users, tokens, owners, files and
keys, for every limit, and for every subset of operations and faults. They rest
on `ConstantsAssumption` of each module (the limits are naturals, `None` is none
of the other values) and on `CatalogAssumption` of `FilesStore` (`None` is no
catalog entry), which TLC evaluates in every run. Symmetry, fairness and
the bounds on clock and ids play no part.

**RedisAuth.** `TypeInv` adds to `TypeOK` which locals a request has at which
step. `TokensInv` says who may hold which digest: a pending token belongs to one
login, a token presented by a client is issued, a revoked token's hash is not
complete. It gives `RevocationIsFinal` and, as an action property,
`SessionsBeginWithLogin`: a hash that cannot be decoded becomes a session only
through the login that is pending on it. `LockInv` (a login past its lock holds
the row, and only a login writes an index) gives `PreviousIsCurrent`. `KeysExpire`
is inductive given typing: `NothingAccumulates`.

`TokensLiveOnce` maps every step to one of `TokenLife` or to a stutter. Four
facts carry it (`LifeInv`): a digest that is fresh has no session; what the index
names, and what `replace` is about to delete, belongs to the user who logs in;
the clock an introspection has read is below the absolute limit of the session it
will touch; and that limit is at most `Absolute` ahead.

*What findings 1 to 3 depend on.* They are violations of properties
the code or its documentation states. For each a theorem names the one step that
causes it, by assuming of a behaviour only that this step never goes wrong:

* `OneSessionUnlessMisplaced`: one active session per user, with logouts and every
  fault, if no `Unlink` deletes an index entry that names another session
  (`RemovesItsOwnIndex`). The index of a user then names its session and outlives
  it (`Indexed`), and a renew in progress renews the index of the session's owner.
  So deleting the entry only while it still names the digest would repair it.
  `OneSessionWithoutLogout` is the case in which nobody logs out.
* `HashesKeepTheirOwner`: every hash decodes, if no `Renew` writes to a key that
  has gone (`TouchesWhatIsThere`).
* `OnlyLateFailuresLeaveSessions`: a failed login leaves nothing in Redis, if none
  fails between the pipeline of `replace` and its commit (`FailsBeforeStoring`).
  `HandedInv` says that a hash belongs to a token that was handed out or is about
  to be.

TLC finds the behaviours in which these steps do go wrong (section 5).

**FilesStore.** `TypeInv` says what each request has filled in. `LockInv` has two
parts: a row read under lock is locked by its reader and unchanged (`Held`), and
ids not handed out have no row while a merge's id is its own (`IdsAreNew`); with
it `RowsStayLocked`. `BlobInv` says that a key has one use at a time. It waits to
be stored (`PendingKeys`), or one row names it (`RowKeys`), or it waits to be
deleted (`DeadKeys`); none of these is inductive without the other two, and
`Held` is what makes the key a delete has read the key of the row it removes.
With them `RowsNeverDangle`. `ReadKeys` follows a reader that holds no lock: its
blob stays until its file is deleted: `ReadersLoseOnlyToDeletes`.

`WaitInv` says that a locked row has a request in progress that read it
(`Holders`), and that what a request has locked lies below what it still wants
(`Ascending`). Were everybody waiting, the holder of the greatest row anybody
waits for would wait for a greater one, hence `NoCircleOfWaits`; that a finite
set of ids has a greatest comes from the well-foundedness of strict inclusion.
`MergeInv` (what a merge has got are the first of its sources, with the
checksums of their rows) and `Held` give `MergesFollowTheCaller`. `AskedInv` adds
that locked rows are the caller's own. With all of them `CatalogImplemented`: by
`NoDanglingKey` the catalog can be read off the rows alone, so it changes at the
three commits only, and each is one operation of `FileCatalog`.
`LeaksExplained` follows an object from hand to hand: row, pending commit,
pending delete.

`PagesInv` says whose pages there are: in what an upload carries, in what a merge
has joined and in what a row says its blob is. What a merge has fetched belongs to
rows of its owner by `MergeInv`, `Held` and `AskedInv`; with `NoDanglingKey` this
gives `PagesStayHome`. That the pages of a joined sequence are the
pages of its parts (`FlattenSeqOver`) is a statement about a recursive function
and needs induction, which the library's theorems cannot give here (they take the
predicate as an operator). It is done by hand: the set of lengths for which the
statement fails would have a least member (`Least`, from the well-foundedness of
`<` on the naturals), and the defining equation of the fold refutes that one.

**PostgresAuth.** `RegisterInv` says that an insert waiting for its commit has
the index entry and that the email is still free: `RegistrationsDoNotRace`.
`TokensInv` gives each digest one login until it is issued and one row from then
on. On it rests `HeldInv`: a login past its lock holds its user's row; a request
about to commit holds the session row it found, which is unchanged; a login that
found none has nothing to hold, but only another login could put a row there.
Hence two requests never commit to one user's session at a time
(`CommitsAlone`), which gives `JudgementsStand` and `LogoutIsFinal`.

`PortKept` maps every step to one of `Sessions` or to a stutter. The commits are
the steps that change sessions, and `HeldInv` says that the row they write is
the row that was judged; what it adds is that no request holds a time later than
the clock or earlier than the `seen` of the row it has locked, so that renewals
go forward.

`Holding` says who can hold what: an index entry or a session row is held by a
request that is about to commit, a user's row by a login past its lock. The only
one of these that may still wait is `Replace`, and it waits for a session row,
hence for a request that waits for nobody: `WaitsEnd`.

**FilesApi.** `ChunksDoNotMatter` carries "what was let through so far is not too
large" along the chunks. `DoubtsAreRefused` remembers by the place where the
request is what it has passed, and `AuditIsTruthful` by `effect` which rows it
has. `MergesAreWellFormed` rests on the lemma `ValidNamesItsSources`, the
equivalence of validator and reference for every body and every limit.

**Recovery.** `BlobInvariant` relates `seen`, `disk` and `life`: what has been
synced is no longer among what may remain, in the order of the calls, so
`ContentIsSafe`. `PreparedInvariant` says how far each container got with what
was there when it did, and that neither role, schema nor bucket is ever lost:
`ServesOnlyPrepared`. `CalmInv` says that before the first fault every files
worker that was started has a store and goes on: `NobodyFailsAlone`.

`HonestInvariant` is what the script may rely on. `Records` holds always: past
its upload the key of its file is kept, past its dump it knows the state of the
rows, and `mark` is no later than `faults`. `Established` holds as long as
`faults = mark`, that is, since nothing has gone wrong: what the deployment was
reported to be when the script began, what each of its requests has shown, and
what each half of a round of polling has shown. Every command and request then
finds what it needs, except for what the script cannot know, and those are the
reasons `AbortsForAReason` lists: `EvidenceIsSound`. `ReadyUnlessStoreIsDown`
draws from it what finding 5 depends on: two answers 200 do mean that the file
can be read in every behaviour whose store answers when it is read.

**Only model-checked.** The liveness properties (`EveryRequestAnswered` of three
modules and `ComesUp`): the prover has neither fairness nor `ENABLED`. Their
safety halves are proved where waiting is involved: `NoCircleOfWaits` and
`WaitsEnd`. Violations are for TLC to find; what a theorem can say about them is
above.

## 7. What is not modelled

`PROJECT.json` lists every component. Cryptography is assumed to do what it
says, and so is the DDL, but for the order of the migrations. Settings, logging,
wiring and response schemas have no behaviour of their own. The tests and
`live_s3.py` call the operations modelled here in one fixed order each.
`ApiError` has a handler but nothing raises it. A second run of a finished
migration does nothing and is no step.

## 8. Plan

1. `FilesApi` composed with a session that is renewed or revoked meanwhile.
2. The page and byte limits of `merge_pdf_content` as numbers.
