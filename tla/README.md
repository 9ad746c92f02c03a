# Formal models of smart-core-assistant

TLA+ models of the concurrent and failure-prone parts of the Rust server (`src/server`), the TLC
runs that check them on small instances, and TLAPS proofs of the main results for every instance.
Every definition is translated from the source lines that `PROJECT.json` names under `map`.

To repeat the checks, in this directory:

    tlc -workers 2 -config OutboxRelay.cfg MCOutbox.tla
    tlapm OutboxProofs.tla

## 1. Inventory of the system

Seven processes talk over a multiplexed RPC transport (Unix or TCP sockets) and over Redis streams.
Postgres, Redis and the object store keep all durable state.

| Component | State | Operations | Hard behaviour | What makes it correct |
|---|---|---|---|---|
| Outbox relay (`data_postgres`: `outbox_relay.rs`, `main.rs`; `connection.rs`, migration 0011) | table `outbox`, LISTEN session, the batch being drained | transaction with INSERT, notify, drain (SELECT, XADD, UPDATE per row), reconnect | crash or error between XADD and UPDATE, lost notifications, transactions that commit out of start order, poisoned rows | nothing is marked unsent, nothing uncommitted leaves, causal order, no missed wake-up |
| Event bus (`transport::bus`) | stream, consumer group (cursor, PEL), the batch at hand | XADD MAXLEN ~, XGROUP CREATE, XREADGROUP 0 / >, handler, XACK | crash before XACK, reply lost after the cursor moved, trimming of pending entries, PEL larger than a batch | confirmed means handled, nothing slips past, nothing confirmed is repeated |
| RPC transport (`transport::runtime`) | cached connection, per connection: health, pending calls, channel, three tasks; the server's tasks | call, send, reply, timeout, reconnect with backoff, keepalive, serve | calls that share a connection while it dies, late replies, silent peers, retries | at most one execution per call, no leaked registration, every call returns |
| Refresh tokens (`infrastructure_redis::auth_tokens`, `data_redis`) | token keys and family sets with TTLs | store (SET, SADD, EXPIRE), rotate (GET, SET KEEPTTL), revoke (SMEMBERS, DEL...) | commands of two requests interleave, a command fails half-way, keys expire between commands | a token is used by overlapping requests only, a usable one is in its family's set, a revoked one is unusable |
| Login and sessions (`application::auth`, `runtime_api`, `auth/users.rs`) | password hashes, tokens | login (verify, store), change of password | two calls with deadlines, each of which may run after it; the password changes meanwhile | no refresh token without the password |
| Inbound messages (`messaging_gateway` -> `worker` -> `data_postgres`) | stream entry, handler, RPC, transaction | publish, consume, PersistMessage | late transactions after a timeout, redelivery, errors that are confirmed | repeated by an end of the worker only, stored before confirmed, in order |
| Audit trail (`observability::audit`, audit consumer, `audit_log.rs`) | `security:stream`, table `audit_log` | publish, consolidate, four paged queries | database errors are confirmed, redelivery repeats rows, rows arrive between two pages | every security event is recorded, a walk over the pages misses none |
| Tenants, plans, invites (`tenants/*`, `control_plane`, `security.rs`, `connection.rs`) | rows of five tables, pooled connections | register a tenant over RPC, eleven repository calls in transactions of a tenant | a registration that commits after its deadline, two for one slug, keys that name another tenant's rows, connections that go from tenant to tenant | isolation on every connection of the pool, true answers |
| Errors (`error_core`, `errors.rs` of Postgres and Redis) | none | code, envelope, and back | the code is found again in a text that every process prefixes | an error keeps its code, but for the texts that mislead it |
| Runtime configuration (`config_cache.rs`, `tenants/config.rs`, `settings.rs`, `crypto.rs`) | settings, rows, map tenant -> configuration, master key | get, invalidate, upsert, resolve | fill races invalidation, two reads without a snapshot, a restart with another key | what is resolved was in force, nothing stays stale after its invalidation |
| Attendance domain (`atendimentos/*`, `operacional/atendentes.rs`, `clientes/contatos.rs`) | attendances, movements, messages, attendants, contacts | open, move, assign round-robin, take over, close, reopen, answer, read, upsert a contact | concurrent transactions under READ COMMITTED, NOW() that is the start of the transaction | limits, no lost update, times that count once, to the rounding |
| Media storage (`data_storage`) | objects | put, get, presign, purge | (single calls) | not modelled |
| Framing, codec, telemetry, row repositories | none that decides anything | pure functions, single statements | | not modelled |

Interactions: the gateway XADDs to `events:stream`; the worker consumes it and calls
`data_postgres` over RPC; `data_postgres` writes message and outbox row in one transaction; the
trigger notifies the relay in the same process; the relay XADDs to `events:stream`; other groups
consume it. Every process may XADD to `security:stream`, which `data_postgres` consumes.
`runtime_api` and `control_plane` call `data_postgres` and `data_redis` over RPC.

## 2. Modules

| Module | Models | Uses |
|---|---|---|
| `AtLeastOnce` | abstract: what a hop of the event path promises | |
| `Outbox` (`MCOutbox`) | table -> stream | implements `AtLeastOnce` |
| `StreamConsumer` (`MCStreamConsumer`) | stream -> handler | implements `AtLeastOnce` |
| `MuxClient` (`MCMuxClient`) | the RPC transport, both ends | |
| `MessagePath` (`MCMessagePath`) | webhook to stored message | composes `StreamConsumer` with worker, RPC and transaction |
| `AuditTrail` (`MCAuditTrail`) | security events to the paged table | composes `StreamConsumer` with producers, consolidation and a reader |
| `RefreshTokens` | the refresh token store | |
| `Sessions` (`MCSessions`) | login | composes `RefreshTokens` with the logins and the table of users |
| `Attendance` (`MCAttendance`) | the repositories of the attendance domain in interleaved transactions | |
| `Errors` | codes, envelopes and bridges of errors, as operators | |
| `Tenancy` (`MCTenancy`) | registration of tenants, transactions under row security | `Errors` |
| `RuntimeConfig` (`MCRuntimeConfig`) | configuration cascade, seals and cache | |
| `OutboxProofs`, `StreamConsumerProofs`, `MuxClientProofs`, `AttendanceProofs` | theorems about the module of that name | the module |
| `MessagePathProofs`, `AuditTrailProofs` | theorems about the compositions | the module, `StreamConsumerProofs` |
| `SessionsProofs` | theorems about `RefreshTokens` and `Sessions` | `Sessions` |
| `TenancyProofs` | theorems about what concerns tenants: `Tenancy`, `Errors` and, independently, `RuntimeConfig` | `Tenancy`, `RuntimeConfig` |

Operators whose comment begins with "A plausible slip" are deliberately wrong variants of the
definition that follows them. No specification uses them; `PROJECT.json` lists under `mutants`
which property each of them breaks.

### 2.1 Outbox

State: `row[r]` is the life of a transaction and of the row it inserts, `occurred_at` and `clock`
the database's NOW(), `notified` and `listening` the LISTEN session, `pc`, `batch` and `sending`
the relay's place in `run` and `drenar_outbox`, `stream` every XADD. `earlier` and `faults` are
history. One action per statement that can fail or interleave: `SelectPending` is the SELECT,
`Publish`/`PublishFails` the XADD, `Mark`/`MarkFails` the UPDATE, `Recv`, `RecvReconnects`,
`RecvErr`, `Reconnect` the arms of the loop in `run`. A failed command may or may not have been
executed. The relay and the RPC handlers share a process: `Crash` stops both and rolls open
transactions back. It also stands for the process exiting when the relay's first `connect` fails.

Abstractions: a row is a model value; of its payload only "is not UTF-8 JSON" (`Poison`) is kept;
LIMIT 100 is the constant `Limit`; `NOW()` is strictly increasing (two transactions of one
microsecond are not distinguished from two successive ones). `BypassRls` says whether the pool's role is
exempt from the row security that migration 0011 forces on the table. The relay sets no
`app.current_tenant`, so with `FALSE` it sees no row and relays nothing; the runs set it `TRUE`.
Such an exempt role is what `connection.rs:7` advises against.

### 2.2 StreamConsumer

State: the stream holds entries `first .. last`; `start`, `cursor` and `pel` are the consumer
group; `pc`, `batch`, `blank` are `Consumer::run`. Redis is modelled from the commands `bus.rs`
sends: XADD with an approximate MAXLEN trims or not; XREADGROUP `>` moves the cursor and fills the
PEL; XREADGROUP `0` returns pending entries, those trimmed since without their fields; XACK. Every
group of the system has a single consumer with a fixed name, which is why a restart finds its own PEL.

### 2.3 MuxClient

State: the cached connection, and per connection the health flag, the registered calls, the frames
in the channel, and which of the write loop, the read loop and the keepalive run; at the other end
the server, its end of each connection, the requests it has read and the answers on their way. A
frame is a try of a call or the ping: corr_ids are fresh per try. `prazo` and `KEEPALIVE_TIMEOUT`
may pass at any moment, but for a call or ping that waits in `tx.send`: neither deadline covers
`enviar`, so that with a full channel and a peer that has stopped reading (`Jammed`) both stay there.
Left out: frames that do not decode, the lifetime of the tasks of
connections no client holds any more, and the retries of `conectar_cliente`.

### 2.4 RefreshTokens and Sessions

In `RefreshTokens` each Redis command is an action; `op[w]` is the rest of request `w`. A request
may be abandoned between two commands (`?` on an error, or a crash). Time is a clock on which keys
expire. `Mark` writes the key whether or not it still exists, as SET KEEPTTL without XX does. A
token's hash is drawn at random by the login, so that it is stored once. `missed` is history: the
tokens that were dropped from their family's set without being deleted, either by the DEL of a
revocation, or because the set expired between the SADD and the EXPIRE of a store.

Nothing joins the GET of a rotation to its SET. What the code keeps is therefore not single use but
a bound, `UsesUpToRequests`: as many accepted rotations of a token as requests that overlap.

`Sessions` EXTENDS it: `login[l]` is the step of the login that draws token `l`, `seen[l]` what the
handler of VerifyCredentials has read, `asked` the requests StoreRefreshToken on their way. Both
calls have a deadline after which what they asked for may still run. The rows of users change
meanwhile. `is_active` is no variable: nothing in the login reads it, so that a deactivated user
can log in. `held` is history. A login may be granted a token that a revocation or its TTL has
already ended; what is checked of it is that while it can be used a revocation finds it
(`UsableIsRevocable`), and that it exists only with the user's password (`StoredKnewPassword`).

The handlers of `data_redis` answer every `RedisError` as `AppError::Cache`: a caller is told
CACHE_KEY_NOT_FOUND of a token that is used again, not AUTH_INVALID_TOKEN.

### 2.5 MessagePath

EXTENDS `StreamConsumer` and replaces the abstract step `Handle` by a run of the worker's handler:
connect, request, reply or timeout, return. `task[<<i, n>>]` is the RPC of the n-th run for entry
`i`, which goes on in `data_postgres` when its caller has given up. `messages` is in commit order,
`outbox[i]` counts the rows of the outbox for entry `i`. Nothing looks at `event_id`, so that an entry
that comes again is stored again: once for each end of the worker (`RepeatedByCrashOnly`).

### 2.6 AuditTrail

EXTENDS `StreamConsumer` for `security:stream` and refines `Handle` by `processar_evento_auditoria`:
begin, insert, commit, each of which may fail, after which the entry is confirmed all the same.
`said[e]` is what became of an event at its producer: the RPC handler of VerifyCredentials, which
dies with the consumer, or an `AuditLogger` elsewhere. `trail` is the table in the order of its
timestamps, so that a row consolidated late may come before others; `reader` walks over the pages of
a query (LIMIT, OFFSET), newest first. A row whose tenant does not exist is refused by the foreign
key, one without a tenant by the policy, unless the role bypasses row security (`BypassRls`).

### 2.7 Attendance

Every repository call is one statement in a transaction of one tenant; a transaction is any
sequence of calls, because the repositories demand no order. `db` holds the committed rows,
`work[s]` those the transaction of session `s` has written and therefore locks. A statement reads
`View(s, r)`: its own work over what is committed (READ COMMITTED). `tx[s]` is NOW(): the start of
the transaction. The round-robin choice is a SELECT without a lock (`choice`); it takes whoever was
assigned to least recently among those with room, whatever their load, although the comment at
`atendentes.rs:147` speaks of the smallest load. `marcar_como_lida` marks messages nobody was shown. `overlap`
and `manual` are history: they say when the promises that need one transaction at a time, or
assignment by choice, do not apply.

The clock counts ticks, `Second` of them to a second, because a movement's duration is rounded to whole
seconds (`InSeconds`, `movimentos.rs:71-75`): durations add up to half a second each, and no better.
`since[m]` is when movement `m` was committed; `TimeCountedOnce` speaks of every movement that was
committed when the later one's transaction began, whatever else is open.

`max_atendimentos_simultaneos` limits what the choices of one
transaction add, since each sees the earlier work of its own; nobody counts across transactions. So
the bound there is, `LimitUpToSessions`, is the limit times the connections of the pool (`Limit`),
not the limit and one for each other transaction: with a limit of two TLC finds two transactions
that choose the same attendant twice each.

### 2.8 Errors and Tenancy

`Errors` has the kinds of `AppError`; a text is the set of the words the code looks for in it.
`ToEnvelope`, `FromEnvelope`, `FromDbError` and `FromRedisError` are the bridges; `HandlerError` is
what the handlers of `data_postgres` do instead of `FromDbError` (they wrap the text, so that a
refused permission is answered DB_QUERY_FAILED). What Postgres says (`SaidByPostgres`) of an error of
no class, or of the sqlx error that a migration wraps, may hold the words of another code;
`ErrorsKeepTheirCode` excepts these two.

`Tenancy` has two halves over one pool of connections. `RegisterTenant` runs from the client through
`control_plane`, whose call of CreateTenant has a deadline, to `data_postgres`, which may commit
after it: the client is told INTERNAL_ERROR, which is retryable, and a retry meets the conflict
with its own tenant. The clients are the environment: no code of the repository calls RegisterTenant,
and they retry as they may. `owner` says whether `auth_user` has the user 1: the handler passes no
`owner_id`, `criar` takes 1, and no migration inserts a user. Without it the foreign key refuses every
registration, with the code of a conflict (`Refusal`, `CriarTenant`). `TenantTx` is a transaction of a tenant: every repository call of tenants,
memberships, subscriptions, payments and invites that runs in one, each with the scopes it demands.
A row is found under a key that is unique in its table. `Policy` is that of the migrations: a row is seen
and let in when its tenant is `app.current_tenant`, and none when that is unset or empty.

The variable belongs to the connection: `session[c]` is its value outside of transactions, `conn[c].local`
what `set_config(.., true)` has set for the transaction. BEGIN and set_config are two steps
(`BeginTx` and `ConfigureTx`; `HandleCreateTenant` and `DrawTenant`), with a failure possible between them, and
connections go from a tenant to a registration, to another tenant and to the relay, whose SELECT
(`BuscarPendentes`) runs on the pool as it finds it. `Tenancy` assumes the role that `connection.rs:7`
prescribes, which row security binds; the runs of `Outbox` and `AuditTrail` assume an exempt one
(2.1), because under the prescribed one the relay is shown nothing, which is the last conjunct of
`TenantsAreIsolated`. `atualizar_status` takes any tenant as an argument, and for
another's it succeeds without effect. No code accepts an invite; `marcar_usado`, which finds the
invite whether or not it is used, is an action of its own.

### 2.9 RuntimeConfig

One field stands for each way of resolving one: without a global level, a text that falls back when
empty, a number that falls back when NULL, and a sealed key. `get_config` is three steps (the
settings, the row, the insertion into the map), between which settings, rows and invalidations may
change; `master` is ENCRYPTION_KEY, which a restart may change, and a value sealed with another one
makes the whole resolution fail; but an `api_key` that seals the empty text opens as the empty text under
every key (`ApiKeyOpens`, `crypto.rs:101`). `owed` are the tenants written since their last invalidation.
In the repository only tests call `get_config`, `invalidate` and `invalidate_all`.

## 3. Runs

| Run | Instance | Shows |
|---|---|---|
| `outbox` | 2 valid rows and 1 poisoned, Limit 2, 2 failures of 4 kinds | `CausalOrder`, `NeverRepublished`, `EventuallyPublished`, `NotificationResumes`, `ImplementsAtLeastOnce` |
| `consumer` | 5 entries, MAXLEN 3, COUNT 2, 3 failures of 5 kinds | `NothingSlips`, `NeverRehandled`, `PelFitsOneBatch`, `OwedIsHandled`, `ImplementsAtLeastOnce` |
| `mux_safety` | 2 calls, 2 connections, channel of 2, 2 failures of 3 kinds | `WaitingIsRegistered`, `ExecutedAtMostOnce`, `NoOrphanPending` |
| `mux_liveness` | 1 call, 3 connections, channel of 1, 2 failures of 3 kinds | `CallReturns`, `SilenceIsDetected` |
| `path` | 3 entries (1 refused), MAXLEN 2, COUNT 2, 3 failures of 8 kinds | `RepeatedByCrashOnly`, `AckedIsStored`, `StoredInOrder` |
| `audit` | 3 events (1 refused login, 1 global), MAXLEN 2, COUNT 2, pages of 1, 2 failures of 8 kinds | `RepeatedByRestartOnly`, `ConfirmedIsRecorded`, `PagesMissNothing`, `EventIsRecorded` |
| `attendance` | 2 sessions, 3 attendances (2 from before), 2 attendants of limit 1, 1 contact, 1 message, 3 transactions, clock to 3 of 3 ticks to the second, 3 writes | `LimitUpToSessions`, `ClosedHasEnd`, `TimeCountedOnce`, `NothingUndone` |
| `sessions` | 2 requests, 2 tokens of a family, 1 login, 2 passwords, TTL 2, clock to 2, 1 failure | `UsesUpToRequests`, `RevokedIsUnusable`, `StoredKnewPassword`, `UsableIsRevocable` |
| `tenancy` | 2 tenants, 2 connections, 2 clients of one slug with 2 calls each, 2 transactions of 2 statements under 2 sets of scopes, with and without a user 1, the relay, 1 failure | `TenantsAreIsolated`, `AnswersAreTrue`, `ErrorsKeepTheirCode` |
| `config` | 2 tenants, 2 calls of `get_config` at a time, 2 master keys, 2 writes, 1 restart | `ResolvedWasInForce`, `CachedIsInForce` |
| `outbox_outage`, `audit_refused` | 2 valid rows and 1 failure, of the broker; as `audit` | two statements of the documents that do not hold (section 4) |

`outbox`, `consumer`, `mux_safety`, `attendance` and `sessions` also check a type invariant (`path`
and `audit` extend modules whose own runs do; the proofs of `Tenancy` contain its types). Deadlock
is not checked: the bounds on rows, entries, calls, transactions, time and failures let every model
come to rest.

Why the bounds are enough for the interesting cases:

- `outbox`: two valid rows are what `CausalOrder` needs to be violated; a third, poisoned, makes a
  batch of two leave a row behind. Two failures give a crash during the recovery from another failure.
- `consumer`: five entries against MAXLEN 3 trim both unread and pending entries; COUNT 2 makes
  the PEL outgrow a batch after one lost reply; three failures allow that, a crash and a second crash.
- `mux_*`: two tries of two calls on two connections; two failures are what a call needs to fail
  twice. With one call three connections suffice for both tries and a keepalive that gives up, and in a
  channel of one the call and the ping fill it for each other: both jams occur (without the
  exceptions named in them, TLC refutes `CallReturns` and `SilenceIsDetected`).
- `path`: one entry refused between two accepted ones; three failures are a crash, a redelivery and a late
  commit of the first run, or three ends of the worker for one entry.
- `audit`: three events make a stream of two trim one; pages of one row are where an insertion
  moves every row that follows; two failures give a redelivery of what was already consolidated.
- `attendance`: one attendant at the limit and another below it; two transactions that overlap and
  a third that comes after; two attendances already under way and one opened meanwhile. Transactions one
  and two ticks apart, a third and two thirds of a second, are rounded down and up.
- `sessions`: a login, a rotation and a revocation on one family at once, across an expiry and a change of
  password. Two requests are two rotations of one token that overlap, a rotation and a revocation, or a
  store and a revocation. TTL 2 and a clock to 2 let a set expire between SADD and EXPIRE, and be
  renewed by a later token. A second failure adds only a second request abandoned half-way.
- `tenancy`: two clients of one slug, each of which may call again after a late commit, beside
  two transactions of different tenants; two statements are what one transaction needs to write a
  row and then meet it. Two connections for five kinds of work make every one follow every other on
  the same connection.
- `config`: a fill, a write and an invalidation that interleave for one tenant while another
  is filled; a write before and a write after; the second master key for the restart.

Symmetry, over model values that the specification treats alike: `mux_safety` (calls), `attendance`
(sessions), `sessions` (requests, passwords), `tenancy` (connections, clients), `config` (tenants,
calls, master keys). No run with a liveness property uses any.

### Fairness

`Outbox!FairSpec` has weak fairness on the relay's own steps, `StreamConsumer!FairSpec` on the
consumer's, `AuditTrail!AuditFairSpec` on those of the audit consumer and its consolidation: tokio
polls a task that is ready for as long as the process lives, and the handlers return because their
calls have deadlines or are statements of the database. A crashed process need not come back (nothing
in the repository restarts the applications), which is why the liveness properties end in "or the
process is down"; transactions need not commit, producers need not publish, and failures need not
stop. `MuxClient!FairSpec` has weak fairness on each task of the client process, and none on the server or the
network. Putting a frame into the channel has strong fairness: room comes and goes, and tokio's bounded
channel hands it to the senders in the order in which they wait. Of a jammed channel, where no room
comes, nothing is assumed, and both properties except it by name.

`EventuallyPublished` and `OwedIsHandled` are stated for behaviours in which only the process
crashes, and (for the outbox) the pending rows fit one batch; `EventIsRecorded` for those in which
producers, their XADDs and the process fail, but not the database. Outside of these the code
promises nothing, as the next section shows.

## 4. Disagreements between code and documentation

Each of these two runs checks one property and TLC finds it violated.

| Run | The text says | The code does |
|---|---|---|
| `outbox_outage` (`ZeroLoss`) | `arquitetura-dados-ingestao-eventos.md:112`: a broker outage loses nothing | `outbox_relay.rs:128-136` ends the drain at the first error, with no timer: the row waits for some other notification, or for ever |
| `audit_refused` (`LoginIsAudited`) | `seguranca.md:55`: every login leaves a trail | `main.rs:615` of `data_postgres` audits a refused login under the tenant of the envelope, which is nil: the foreign key refuses the row, the error is logged, the entry confirmed |

The models contain these as well, without a run of their own:

- `bus.rs:230` says that what was delivered and not confirmed is read again; a start sends one
  XREADGROUP with COUNT 10 (`bus.rs:350`). `PelFitsOneBatch` says when that is enough.
- `runtime.rs:256` says that a call reconnects when the current connection has fallen;
  `invalidar_conexao` (270-272) clears whichever connection is cached, a healthy new one included.
- `runtime.rs:274-275` says that a call is repeated once when its connection falls while it waits; the senders live in
  the `Conexao` the call itself holds, so that lines 297-301 are never reached and the call runs
  into its deadline. `WaitingIsRegistered` is the reason.
- `runtime.rs:142` says that the ping detects a dead connection proactively, and `runtime.rs:273` that a
  call has a timeout. The ping and the call go through `enviar` (158), whose `tx.send` (128) waits for
  room without a deadline: once the channel is full before a peer that has stopped reading, neither is so.
- `auth_tokens.rs:72` says single use, 17-18 that a second use is taken for a theft, and `seguranca.md:246`
  that reuse revokes the family. Two rotations whose GETs both precede a SET are both accepted, and
  nothing is revoked (`UsesUpToRequests` bounds them).
- `auth_tokens.rs:124` says that all tokens of a family are revoked; DEL of the set (132) forgets a token
  indexed since SMEMBERS (128), which stays valid and unlisted. So does a token whose set, with the TTL of
  an earlier one, expires between its SADD (67) and its EXPIRE (68).
- `movimentos.rs:71-75` stores the seconds from one movement to the next, each rounded: movements at 0, 0.6
  and 1.2 seconds are given 1 and 1 for 1.2. `TimeCountedOnce` is therefore stated to the half second.
- `seguranca.md:92` wants an explicit `tenant_id` in the WHERE of every query, beside row security.
  `tenants.rs:192` has the slug alone, `tenants.rs:172` and 252 the id they are given as an argument:
  there row security is the only barrier, and `TenantsAreIsolated` rests on it alone.
- `errors.rs:79-81` (Postgres) says that an error keeps its code end to end. An error of no class, or of a
  migration (14-15), whose code is DB_QUERY_FAILED, hands on the text of sqlx (97), in which
  `AppError::code` may find a connection or a constraint.
- Without a user 1 every registration is refused by `0002_tenants.sql:10`, since `tenants.rs:212` makes 1
  the owner; the answer, DB_CONSTRAINT_VIOLATION, is that of a slug that is taken.
- `data-flow.md:85` speaks of a stream for what cannot be processed; the worker's handler logs
  the error (`main.rs:41-45`) and the entry is confirmed.
- `atendentes.rs:147` speaks of the smallest load; the query takes whoever was assigned to least recently.

## 5. Proofs

TLAPS checks the following for every value of the constants (any rows, entries, calls, tenants,
clients, connections, sessions, tokens, any batch, limit, MAXLEN, COUNT and TTL, any kinds and
number of failures). All it takes for granted are the named assumptions on the constants:
`OutboxAssumption`, `ConsumerAssumption`, `MuxAssumption`, `RefreshAssumption`,
`SessionsAssumption`, `PathAssumption`, `AuditAssumption`, `TenancyAssumption`, `ConfigAssumption`,
`AttendanceAssumption`, `BusyAssumption` and `RowAssumption`, which TLC evaluates in every run of
their module. They say what kind of value a constant is, that a limit or COUNT is at least one
(`bus.rs:350` asks for ten), that the requests of `RefreshTokens` and the sessions of `Attendance` are finitely many, and that special values (the ping, no row, the nil tenant) are none of the ordinary ones. `BusyAssumption`
is about the database to begin with: no attendant has more attendances than the limit allows.

Every safety property that a passing run checks, invariant or action property, and both refinements, are theorems:

| Module | Theorems (what they prove) |
|---|---|
| `OutboxProofs` | `TypeCorrect` (`TypeOK`), `MarkedIsOnStream` (`PublishedOnStream`), `StreamHoldsCommitted` (`StreamIsCommitted`), `StreamIsCausal` (`CausalOrder`), `MarkedIsFinal` (`NeverRepublished`), `Refinement` (`ImplementsAtLeastOnce`) |
| `StreamConsumerProofs` | `TypeCorrect` (`TypeOK`), `ConfirmedWasHandled` (`AckedWasHandled`), `GroupLosesNothing` (`NothingSlips`), `ConfirmedIsFinal` (`NeverRehandled`), `RereadIsEnough` (`PelFitsOneBatch`), `Refinement` (`ImplementsAtLeastOnce`) |
| `MuxClientProofs` | `TypeCorrect` (`TypeOK`), `WaitingHasSender` (`WaitingIsRegistered`), `RunsAtMostOnce` (`ExecutedAtMostOnce`), `ClosedMeansNotRun` (`ClosedNeverRuns`), `NothingIsLeftPending` (`NoOrphanPending`) |
| `SessionsProofs` | of the store alone: `UsesAreBounded` (`UsesUpToRequests`), `RevocationIsFinal` (`RevokedIsUnusable`); under the logins: `StoreUnderLogins` (`TypeOK`, `RevokedIsUnusable`), `StoringNeedsThePassword` (`StoredKnewPassword`), `RevocationReaches` (`UsableIsRevocable`) |
| `MessagePathProofs` | `MessagesRepeatByCrash` (`RepeatedByCrashOnly`), `ConfirmedIsStored` (`AckedIsStored`), `MessagesKeepOrder` (`StoredInOrder`) |
| `AuditTrailProofs` | `RowsRepeatByRestart` (`RepeatedByRestartOnly`), `ConfirmedEventsAreRecorded` (`ConfirmedIsRecorded`), `PagesAreComplete` (`PagesMissNothing`) |
| `AttendanceProofs` | `RowsAreTyped` (`AttendanceTypeOK`), `ClosedAttendancesEnd` (`ClosedHasEnd`), `TimeIsCountedOnce` (`TimeCountedOnce`), `NothingIsUndone` (`NothingUndone`), `LimitHoldsPerSession` (`LimitUpToSessions`) |
| `TenancyProofs` | `Isolation` (`TenantsAreIsolated`), `TrueAnswers` (`AnswersAreTrue`), `CodesAreKept` (`ErrorsKeepTheirCode`), `ResolutionsWereInForce` (`ResolvedWasInForce`), `CachesAreInForce` (`CachedIsInForce`) |

`PublishedOnStream`, `StreamIsCommitted`, `AckedWasHandled` and `ClosedNeverRuns` are proved and in
no run: a violation of one of the first three is a violation of `ImplementsAtLeastOnce`, and the last
is a part of the invariant behind `ExecutedAtMostOnce`.

None of the properties is inductive. What each invariant adds, and why:

**Outbox.** The batch holds pending rows only (`BatchInv`); between XADD and UPDATE the row is on
the stream, pending and out of the batch (`SendingInv`); `occurred_at` orders a transaction after
the commits that preceded it (`ClockInv`); and `BatchClosed`, the heart of `CausalOrder`: whatever
was committed before the transaction of a row in the batch is in the batch too, or on the stream
already. `SelectPending` establishes it from ORDER BY and `ClockInv`, even with LIMIT;
`PublishFails` keeps it because it abandons the whole batch, and `Publish` needs it because it takes
the oldest row first.

**StreamConsumer.** Cursor, PEL and confirmations lie between the group's creation and the stream's
end, PEL and confirmed entries are disjoint (`GroupInv`), and the loop of `run` is over pending
entries (`RunInv`). The lemma `Delivery` rests on `LowestClosed`: an XREADGROUP takes the lowest
entries, so the cursor passes none it does not deliver, trimmed ones apart. `RereadInv` adds, for
behaviours in which the process only crashes, that between reading and the last XACK the PEL is
the batch at hand: nothing else ever becomes pending, so that one reread is enough.

**MuxClient.** A call is registered from before its frame is sent until it stops waiting
(`RegisteredInv`), on a connection that was established (`DialedInv`). At most once comes in two
halves. `OneCopyInv`: at most one frame of a call is in a channel or at the server, over both tries and
all connections, and only while the handler has not run. `UnsentInv`: before a channel accepts a
frame, and for a call that returned Closed, there is no frame anywhere. The retry of `call` is sound
because `enviar` reports Closed only when the channel refused the frame.

**RefreshTokens and Sessions.** GET and SET KEEPTTL of a rotation are two commands, and so are
SMEMBERS and the DELs of a revocation. `CreatedInv` says that whatever tokens a request or a family
set holds were stored once, so that a hash never stored before is in nobody's hands; `DeletedInv`,
that what a revocation under way has deleted so far is not fresh. `UseInv` bounds the uses: the accepted rotations of
a token and those that have read it and not yet marked it are together no more than the requests. A
GET keeps it because it finds the token fresh only if no rotation was accepted before
(`UsedIsNeverFresh`), and then all that count are requests under way. `ReachInv` is about the sets: the set of a stored token
lists it and lives as long (`IndexedInv`), that of a token about to be renewed still lists it (`RenewInv`), unless the token
is in `missed`; it needs that one TTL serves all tokens, so that a later EXPIRE never shortens the life of a set
(`LifeInv`). Over them, for the logins: the password that was verified was held while VerifyCredentials
ran (`VerifiedInv`), and a login's token is stored only after its login asked (`AskedInv`).

**MessagePath.** The invariant of `StreamConsumer` with `RereadInv`, over which the handler runs for
the entry of the loop (`HandlerInv`) and every RPC belongs to a run (`TaskInv`). `AnsweredInv`:
while only the worker and its Redis fail, a run is done only when its transaction committed or the
database refused it. For the order, `TurnInv` says that a later entry is not begun before the earlier one is
stored or refused, and `OrderInv` that every message is preceded by one of each earlier entry that has any:
a late RPC of a run cut short can only repeat a message, since its entry was still pending when it
ran and comes again before any later one. For the repetitions, `RunsInv` bounds the runs of the handler for
an entry by the ends of the worker and one, one less while the entry is still to be begun; `OnceInv` says
that an RPC that is over has stored one message at most; and `RowsTogether` carries the bound over to
the outbox.

**AuditTrail.** `CountInv` counts the rows of an entry against the restarts, one less where the
entry is still to be consolidated; `RecordedInv` is `ConfirmedIsRecorded` brought forward to the end of the
consolidation. `ReaderInv` says, of a walk over pages, that each row it still owes has at least
OFFSET newer ones: a row inserted meanwhile only adds to them. A page moves OFFSET by LIMIT, and
what it shows is all there is before the new OFFSET (`PageOfTheRest` and the lemmas on `Rank`).

**Tenancy.** `Isolation` needs that every row is well formed (`RowsInv`), that what a transaction has
seen and written is its tenant's and that its own `app.current_tenant` is unset or that tenant
(`ConnInv`), that no connection keeps a value outside of a transaction (`SessionInv`), and that calls
not begun name clients (`AskedInv`). It is `SessionInv` that makes a reused connection as good as a
new one, and shows the relay nothing. The lemma `TenantTxSteps` reduces the repository calls to four
shapes: a step that begins a transaction or sets its variable, a statement that only reads
(`ReadsOnly`), one that writes a row of its tenant under a key that was free or showed such a row
(`WritesOwn`), and one that ends it; no shape depends on the tenant the call was given as an argument.
`TrueAnswers` is about a client that is told of a registration which others may precede, follow or
undo. `AInv` adds that rows and open transactions have a tenant (`NumbersInv`); that open transactions
write disjoint sets of rows, and only over rows of their own tenant (`LockInv`), so that a commit
cannot take a slug away; that a registration under way has written its slug (`BegunInv`); and that what
clients were told stays true, the missing user 1 included (`ToldInv`). `CodesAreKept`: what it says of
envelopes and bridges is no matter of state, and the lemmas `EnvelopeIsLossless`, `DbBridge` and
`RedisBridge` prove them by cases, for all texts; `ErrorInv` says that what a client is told is a code of the
database or of its own transport.

**RuntimeConfig.** The calls of `get_config` under way carry the argument (`CallInv`). Between the two reads, of each
field: what is in force now has been seen; the setting that was read is the present one unless
the global level moved since; and what the old settings and the present row resolve to has been seen unless the
row moved. After the second read, and in the cache (`CacheInv`), what was resolved without an overlapping
invalidation, for a tenant to whom none is owed, is what is in force. `WriteKeeps` treats the
two kinds of write at once: it touches one field at one level, for the tenants it owes an
invalidation. `ResolvedIsGiven` proves the cascade itself: what `resolve_runtime_config` computes
field by field is "Tenant > CoreSettings", for every pair of levels.

**Attendance.** `RowsInv`: every row, committed or in an open transaction, is well formed, and a
transaction's version of a row keeps what the committed one has (`Keeps`). It is inductive because the
lock of an UPDATE is held to the end, so that no commit changes a row another transaction has rewritten.
`ClockInv`: without overlap the only transaction is the last one begun. `CountInv`: a movement, committed
or still in a transaction, counts to the half second no time before a movement of its attendance that was
committed when its transaction began (`since`), and reaches back to one it has seen; the lemmas on
`InSeconds` (`NearestSecond`, `SecondsAreFewer`) carry the rounding. The limit is the long proof. The invariant must speak of what each transaction may add, and of every way to commit:
`LimitInv` says that a transaction adds at most `max_atendimentos_simultaneos` to an attendant, a
choice not yet used counting as one (`Adds`), and that for every set X of open transactions, should exactly
these commit, the attendant stays within `Limit` (`Claims`). A session that chooses sees less than the
limit, so with the choice it answers for at most the limit, and every other session adds at most as
much (`ClaimsAtChoice`): a union bound, by an injection into sessions and places (`AtMostTogether`).
Every other step claims an attendance only in place of the choice it uses up (`ClaimsAtCard`), or moves claims from a
transaction to the committed rows (`ClaimsAtEnd`).

Two more things the proofs asked for: `StartHandler` of `MessagePath` is bounded by the runs the model
has (`runs[i] + 1 \in Runs`), and the least or greatest member of a set of numbers is taken through
well-foundedness (`LeastMember`, `MaxOf`), not through its definition.

Only model-checked: the liveness properties `EventuallyPublished`, `NotificationResumes`,
`OwedIsHandled`, `CallReturns`, `SilenceIsDetected` and `EventIsRecorded`, because TLAPS has no
ENABLED and no fairness. Induction over data is out of the prover's reach as well, and so are
RECURSIVE operators: no module here declares one.

## 6. Plan

1. (done) `AtLeastOnce`, `Outbox`, `StreamConsumer`, `MuxClient`, `RefreshTokens`, `MessagePath`,
   `AuditTrail`, `Attendance`, `Sessions`, `RuntimeConfig`, `Errors`, `Tenancy`.
2. (done) Proofs of every safety property and of both refinements.
3. The safety half of the liveness properties, as invariants: what is pending while the relay, the
   consumer or a call is at rest, and which wake-up is still to come.
4. An abstract specification of a call that runs at most once, implemented by `MuxClient`.
5. The lifetime of a `MuxClient` that is dropped while its keepalive holds the connection.

## 7. Not modelled, and why

- Media storage (`data_storage`): single calls of the object store. The handlers of PutFile, GetFile and
  PresignFile take the file's name from the field the server dispatches on, so that a call that is
  routed names the file after its route. No code publishes the `media.purge` that the purge
  consumer waits for.
- Framing and codec: pure functions of one frame, with a unit test for each round trip.
- Ciphers and password hashing: only what opens or verifies under which key is modelled
  (`RuntimeConfig`, `Sessions`).
- The repositories of single statements (clients, documents, integrations), and of the attendance
  domain tags, notes, custom fields, flows and the listings: their behaviour is that of Postgres
  under the row security that `Tenancy` models.
- The flow-permission cache and the blocklist of `data_redis`: no code calls them. The
  acceptance of an invite: there is no code for it, only the statement it would need.
- The webhook's HTTP answer and the lookup of the contact (the worker sends `atendimento_id` 1).
- The texts of messages; telemetry; build and deployment.
- Postgres and Redis as such: only the commands the code sends and the failures it can see.
- Redelivery stores a message again and publishes an outbox row again: both hops are at least
  once (`AtLeastOnce` allows it), and neither the worker nor `data_postgres` looks at `event_id`.
