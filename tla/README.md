# ChainPulse: TLA+ specifications and proofs

ChainPulse is a Go API gateway: a chain of HTTP middlewares (authentication,
rate limiting, idempotency, policy enforcement) in front of handlers, with Redis
for shared counters and stored responses and Postgres for API keys. Many requests
run at once, in several gateway processes, against stores that time out, lose
data and restart. This project models the gateway from the start of the process to
its exit, checks it with TLC on small instances and proves with TLAPS, for all
instances, every safety property that it checks.

## Inventory

| Part (source) | State | Operations | Interacts with | What is hard | What makes it correct |
|---|---|---|---|---|---|
| Rate limiter (`internal/gateway/middleware/ratelimit.go`, `shared/storage/redis.go`) | sorted set per tenant and path in Redis, log per key in each process | `RateLimit`, the Lua script, `RedisLimiter.Allow`, `MemoryLimiter.Allow` | Redis, clocks of all instances | time read before the round trip and before the mutex, skewed clocks, replies that never come, expiry, eviction, restart | at most Limit admissions in the effective window; no unjustified 429; always an answer |
| Idempotency (`middleware/idempotency.go`) | one stored response per Redis key, put together from tenant, route and key | lookup, replay, capture, store | Redis, policy, handler | lookup, execution and store are not atomic; each Redis call can fail or take effect late; crash in between; free texts run together | replays are faithful; stored responses are not recomputed; an outage never skips policy |
| Policy engine (`internal/policy/engine.go`) | none between requests; a goroutine, a channel and a context per evaluation | `Evaluate`, `evaluateRules` | rules, request context | result and timeout race; rule that never returns | fails closed, bounded, no leaked goroutine |
| Enforcement and audit (`internal/policy/middleware.go`, `internal/audit/audit.go`) | audit log | `Enforce`, `LogAuditor.Write` | engine, handler | the record must exist before the effect | recorded decision = effect |
| Default rules (`internal/policy/rules.go`, `gateway/stub.go`) | none | eight `Match` predicates, `queryResourceExtractor` | engine | empty attributes, threshold, deny/allow overlap | equal to the documented permission table |
| API key store (`internal/auth/apikey.go`, `apikey_postgres.go`, `apikey_handler.go`) | table `api_keys` | `Resolve`, `Create`, `Rotate`, `Revoke`, `List` | Postgres transactions and row locks | concurrent rotate/revoke, failure half way, lost commit answer, check then use | one live key per lineage, scope carried, nothing revived, answers true |
| Tokens (`internal/auth/jwt.go`, `handler.go`) | none; clients hold the tokens | `issueToken`, `refresh`, `Validate` | clocks and secrets of all instances | times cut to seconds, skewed clocks, chains of refreshes, secret replaced one instance at a time | identity carried, lifetimes bounded on both sides, lapsed sessions and old secrets dead |
| Authentication (`middleware/auth.go`, `shared/identity`) | identity on the context | `Authenticate` | tokens, key store | precedence of credentials | nobody passes without identity |
| Router, request id, access log (`gateway/router.go`, `middleware/requestid.go`, `logging.go`, `shared/httpx`) | the context of each request | the chains of the routes, aborts, recovery | all middlewares, the log | order and early aborts, panics and redirects that skip layers | no effect without identity, limit and recorded decision; the traces of a request agree |
| Server, pool and logger (`cmd/server/main.go`, `shared/storage/postgres.go`, `shared/logger`) | where `run()` is, what is open, pending signal and error | start, serve, signal, shutdown, deferred calls | all | shutdown with requests in flight, signal against listen error, abandoned requests against deferred calls, answers that miss the write timeout, a full pool | a clean exit abandons no request; everything is closed in order; the process ends |
| Configuration (`shared/config/config.go`) | environment | `Load`, `loadDotEnv`, getters | server | quotes, blanks and `#` in values, repeated, blank and malformed settings, a scan that stops early | settings arrive as written, environment first; complete or refused |
| Import linter (`tools/archlint`) | none | `Scan`, `checkPackages`, `isForbidden` | source tree | deny lists written by hand, paths compared as strings | no import crosses a module boundary unnoticed |

Orders, inventory, shipments, the event bus, the stream processor, ML routing,
policy versions, durable idempotency and the hash-chained audit log are described
in `docs/` but have no code in the repository, so there is nothing to model.

## Plan

Order: what protects the system under concurrency first.

1. `RateLimiter` with its proofs (done).
2. `Idempotency` (done).
3. `APIKeyRegistry`, what the key store promises, and `APIKeyStore`, its SQL,
   with the refinement between them and its proof (done).
4. `PolicyEngine`, for any rule set, `DefaultRules`, and `DefaultPolicy`, which
   composes them (done).
5. `Tokens`, with `Authenticate`, and its proofs (done).
6. `Gateway`, the process and the requests in their middleware chains, with
   panicking rules and handlers (done).
7. `Config` and `ArchLint`, the repository's two sequential programs on text (done).
8. Theorems for every safety property of the runs (done): the limiter with its
   fallback, the key store and its refinement, the tokens, idempotency, the policy
   engine for any rule set, the default rules, the gateway for any number of
   requests, the configuration for any file and the linter for any program.

## Modules

A definition whose name ends in a fault (`FullLate`, `RotateSelectUnlocked`, ...)
is a plausible wrong version of the definition that follows it. No step uses one;
they are there to show that each property would notice the mistake.

### RateLimiter, MCRateLimiter, RateLimiterProofs

One request per member of `Requests`; `origin` fixes its process, tenant and
endpoint. `Arrive` is `RedisLimiter.Allow` up to sending the script (the clock is
read here), `RunScript` the script as one atomic step of Redis, `Reply` and
`EvalError` the two ways `Eval` returns, `MemRead` and `MemAllow` the fallback
before and inside the mutex. A sorted-set member is the request itself and its
score is `Stamp`, the local clock at `Arrive`. An abandoned script may still run,
at any later time. `Evict`, `RedisRestart` (any subset of the members survives)
and `InstanceRestart` are the faults; `forgotten` and `mforgotten` are history
variables that say what was lost. `Delay` is the longest time from reading the
clock to the decision for calls somebody still waits for: `Tick` respects it
because the client's dial, read and write timeouts bound a call
(`redis.go:33-36`, no retries) and the critical section bounds the other.
`Offset` gives each instance's clock error, at most `Skew`; Redis' clock is the
true one.

### Idempotency, MCIdempotency, IdempotencyProofs

`POST /v1/orders`, the one route that mounts the middleware: `Start` (header),
`Replay`, `Miss` or `GetError` (lookup), `Enforce`, `Handle`, then `Save` or
`SaveError`. A body is represented by the request that produced it. `permitted`
is what the rules say of the request's actor; a timeout may still deny it. After
`SaveError`, or a crash while saving, `LateSave` may still apply the write. `Drop`
is the TTL, eviction or a restart of Redis. A stored value that does not parse
(`idempotency.go:75`) cannot occur: only this code writes strings under such keys.

A tenant id and an Idempotency-Key are free texts, and `Key` puts them together
without escaping. A text is therefore a sequence of pieces in which `":"` is one, and
`Slot` is the concatenation, so that different pairs may have one Redis key; the runs
have two that do. For the same reason a key could coincide with a bucket of the rate
limiter. The two hold different types, so a command on the other's key fails, or
replaces it: those are the cases `GetError` here, and `EvalError` and `Evict` there.

### APIKeyRegistry, APIKeyStore, MCAPIKeyStore, APIKeyStoreProofs

The registry has three indivisible steps: `Mint`, `Replace`, `Withdraw`. The store
runs them as SQL statements of concurrent clients. `root` names the key a chain
of rotations began with and `ended` the chains a `Revoke` ended; both are history.
Uncommitted writes are not in `attr` and `revoked`; `RotateCommit` makes them
visible at once. `lock` holds the row locks. A statement may fail
(`StatementError`), and `CreateInsert`, `RotateCommit` and `RevokeUpdate` may take
effect and still report an error. Whether a deadline has passed is the set
`passed`. A key's secret and hash are identified with its id: they are as unique.
`Create` calls refused before the insert (bad role, bad JSON) change nothing and
answer with an error, as `StatementError` does. The refinement maps `live` to the
rows that exist and are not revoked.

### PolicyEngine, DefaultRules, DefaultPolicy, PolicyEngineProofs, DefaultPolicyProofs

`Evaluate` makes the tenant check, decides at once when the timeout is disabled, or
starts the goroutine (`WorkerMatch`, `WorkerSend`) and waits; `Receive` and
`Expire` are the two cases of the `select`, and both may be ready. `EndContext` is
the timeout or the client going away; without the guard nothing waits for either. `Audit` precedes `Respond`. `Rules`, `Match`
and `SameTenant` are parameters; `DefaultPolicy` gives them the eight rules.

### Tokens, MCTokens, TokensProofs

`issueToken` and `refresh` are the two endpoints; what they hand out goes into
`minted`. A token is the record of its claims, with the secret it was signed under;
`at` and `session` are history. `parse` checks the signature, then `exp`, on the
instance's own clock, as the JWT library does; `iat` is not checked. `Precision` is
the second `NewNumericDate` cuts to, in ticks. `Authenticate` changes nothing, so
it is an operator, and the properties ask in every state what every instance would
answer to every token. `Restart` gives one instance another secret. Checking a
refresh token and signing the new pair read the clock twice; the model reads it
once, since nothing between them waits.

### Gateway, MCGateway, GatewayProofs

`main` is where `run()` is; its actions carry the names of what it calls: `Load`,
`NewRedis`, `NewPostgres`, `StartServer`, then the two cases of the `select`
(`SelectError`, `SelectSignal`), `Shutdown`, and the deferred `ClosePool` and
`CloseRedis`, last opened first, before `Exit` turns the result into the exit
status. `Return` is a `return` of `run()` wherever it stands. `Signal`,
`ListenAndServe` and `AcceptFails` are the world outside it: a signal before
`signal.Notify` kills the process, one while it waits is kept in the channel.

Meanwhile each request goes through `Chain(route)`, the middlewares `NewRouter`
mounts for the six kinds of route (health, token endpoints, `POST /v1/orders`, the
other stubs, key management, unknown paths). `todo` is what is left of the chain. A
path that is a route's but for a slash at its end has no chain: gin redirects it
before any middleware (`Redirect`), so without an id and without a log line.
A middleware passes the request on (`Pass`), answers and ends the chain (`Abort`,
`Respond`), or panics up to `gin.Recovery` (`Recover`), past `RequestLog`. What each
one decides is a choice among the outcomes its own module works out; here the
order counts, what reaches the log, and what becomes of a request when the process
stops. `RulePanic` crashes the process when the evaluation has a goroutine of its
own and is recovered when it has not. `Acquire` takes one of `MaxConns` connections
and waits while there is none; `Authenticate` without one is a Bearer token or a
cancelled wait, which answers 401. A response is its status and the request id in its
body. `stdout` holds the audit and access-log lines that the log level lets through.
`Flush` is net/http writing the answer after the handlers have returned, which is
what `Shutdown` waits for. If the request has outlasted the server's `WriteTimeout`
(`main.go:82`) the connection is closed without the answer (`"cut"`), and `Shutdown`
is content with that too. Any request may: the model says nothing of how long a step
takes.

### Config, ArchLint, MCTools, ToolsProofs

`Config` has one action per line of the `.env` file (`Scan`), one for a read that fails
(`ReadError`) and one for the rest of `Load`. `Scan` gives up for good at a line that
does not fit into bufio's buffer (`MaxScanTokenSize`), and `stop` says why the scan
ended before the file did; nobody looks at `scanner.Err`. A value is a sequence of characters of which only the quotes, the blank, `#`
and `=` mean anything; `v` and `w` stand for all others, and a text of `v`s is one the
number and duration parsers accept. A line of the input says what its author meant
and how it was written down (`Raw`): bare or quoted, with a comment behind it or not.
The properties compare what arrives with what was meant.

`ArchLint` checks one package per step (`Check`); a path is a sequence of pieces in
which `orderbook` begins with `order`, because the linter compares strings. What
`packages.Load` returns is an input. `MCTools` puts both programs into one run, with
behaviours of either kind.

## Runs

| Run | Shows | States | Bounds |
|---|---|---|---|
| `ratelimit_shared` | `WindowBound`, `RefusalJustified` | 1.7 M | 2 instances one tick apart, 4 requests, Limit 2, Window 4, Delay 1, one request whose call fails: enough for a full bucket, a refusal, a prune by a stale stamp and the key's expiry |
| `ratelimit_faults` | `WindowBound`, `MemWindowBound`, `RefusalJustified`, `EveryRequestAnswered` | 1.4 M | 2 requests whose Redis calls may both fail, on 2 endpoints, Limit 1, Window 3, two evictions or restarts at any moment |
| `idempotency` | `ReplayFaithful`, `StoredMeansServedOnce`, `OutageKeepsPolicy` | 2.8 M | 3 requests, 3 tenants and 2 keys of which two pairs share a Redis key, one drop, one crash, every Redis call may fail |
| `apikey_store` | `OneLiveKey`, `ScopeCarried`, `NeverRevived`, `ImplementsRegistry`, `AnswersTruthful` | 120 k | 2 clients, 3 ids, 2 tenants, 1 deadline: rotations of rotated keys against a revocation |
| `apikey_store_live` | `EveryCallReturns` | 3.5 k | 2 clients, 2 ids |
| `policy` | `FailsClosed`, `RefusalExplained`, `AuditedBeforeEffect`, `ReadmePermissions`, `BoundedEvaluation`, `NoGoroutineLeak` | 346 k | every input up to renaming of regions and suppliers, values on both sides of the threshold, with and without the timeout guard |
| `tokens` | `IdentityCarried`, `AccessBounded`, `RefusedOnlyWhenDue`, `SecretRetired`, `StaysLapsed` | 0.4 M | 2 instances a tick apart, 2 secrets, 3 pairs, lifetimes of 3 and 5 ticks, a second of 2 ticks: enough for a refresh of a refresh, a lapsed session and both instances restarted |
| `gateway` | `CleanExit`, `ReleasedAtExit`, `GuardedEffect`, `TracesAgree`, `Terminates` | 1.6 M | 2 requests on any of the six kinds of route or redirected, any answer in time or too late, one with a client's id, a pool of one connection, LOG_LEVEL info or WARN, with and without the evaluation timeout, panicking rules and handlers: enough for one request to hold the connection the other waits for while the process stops |
| `tools` | `ReadAsWritten`, `LoadComplete`, `BoundariesKept` | 550 k | every text of up to 3 of 7 characters in every style for a string and a number; every file of up to 3 of 15 lines, two of them too long for a scanner that takes less than 12 characters, with every partial environment and a read that fails anywhere; every program of 2 of 5 packages with up to 2 of 8 imports each |

Three runs are expected to find a violation, `idempotency_second_order`,
`idempotency_tenants` and `gateway_audit`; see "Disagreements" below.

Requests of the policy engine share no state, so one request suffices there.
Symmetry is used in safety runs only, over requests, clients, ids, tenants and
secrets that no definition tells apart. A state in which every request has ended
stutters by `Quiescent`, one in which the process has by `Ended`; the two programs
of `tools` simply end, so that run does not look for deadlock. Each passing run
also checks the module's `TypeOK`, except `apikey_store_live`, `ratelimit_faults` and
`tools`. Every path of `Gateway` is taken but for the 401s of later middlewares for
a request without an identity, which the code has and its order never reaches.

`WindowBound` deserves a word. The configured window is not what is enforced:
the time is read before the round trip, on clocks that differ, so the window that
really holds is `Window - Delay - Skew`. The run and the theorem say that this is
all that is lost.

### Disagreements between documents and code

Three runs check a sentence of the sources against the code and find it violated;
PROJECT.json quotes each.

* `idempotency_second_order` (`idempotency.go:46-48`): overlapping duplicates both
  run the handler.
* `idempotency_tenants` (`redis.go:16-17`): tenant isolation is called structural, but
  tenant `a` with key `idem:/v1/orders:k` and tenant `a:idem:/v1/orders` with key `k`
  share one stored response. `ReplayFaithful` says what does hold: replays stay within
  the Redis key, and within the tenant as long as tenant ids hold no colon.
* `gateway_audit` (`audit.go:44-47`): the audit record is a line at INFO of the
  application log, so with LOG_LEVEL=warn no decision is recorded. `RequestLog`
  has the same limit, against `logging.go:11-13`.

The others were met while modelling and have no run of their own.

* `config.go:59-60`: the limit holds for the window `Window - Delay - Skew` only,
  because the time is read before the round trip (see `WindowBound` above).
* `README.md:38` (of the repository): "a warehouse manager cannot see another region's
  inventory", but the permission table in the same file (line 129, "read cross-region")
  and `rules.go:72-82` let managers read every region's. `ReadmePermissions` sides with
  the table and the code.
* `README.md:326`: replays skip policy evaluation and its audit record.
* `router.go:67-69`: "only an admin rule allows it", but the analysts' read rule
  lets them list API keys.
* `ratelimit.go:37`: "limits are independent across endpoints", but GET and PUT of
  one path share a bucket.
* `engine_test.go:115-116`: no rule lets managers update orders.
  `rules.go:94-95`: order creation is not region-scoped.
* `DESIGN_DOC.md:237-239`: a rule that panics under the evaluation timeout does not
  deny the request, it ends the process (`RulePanic`).
* `logging.go:11-13`: "if a request reaches the gateway, it is logged, regardless of what
  happens inside", but a panic unwinds past the line, and a path with a slash too many
  or too few is redirected by gin before `RequestLog` and `RequestID` (`router.go:38`
  leaves `RedirectTrailingSlash` on). `CleanExit` excepts both.
* `main.go:107`, "give in-flight requests time to complete": a request that completes
  after the `WriteTimeout` of 10 s is logged with its status, but its answer is never
  sent, and the process still stops "cleanly" with exit status 0.
* `errors.go:13`: unknown routes and recovered panics answer without the error
  envelope, and a replayed error carries the id of the request it was first given to.
* `config.go:69-71`: `Load` "returns an error if any required value is missing or
  malformed", but it only checks that the two required ones are not empty; a malformed
  number or duration is replaced by its default. `LoadComplete` states what the code
  does, so it would have to change with a `Load` that validates.
* `config.go:131-132`: at a line of 64 KiB or a failed read the scanner stops and the
  rest of the file is ignored without an error. `ReadAsWritten` holds up to that line.
* `config.go:154`: a comment behind an empty value becomes the value (`KEY= # note`),
  and of `KEY=a b # note` only `a` is left. `Clear` names the ways of writing a value
  that are safe.
* A signal that wins the `select` against a pending listen error gives exit status 0,
  and a statement that hangs holds `pool.Close` up beyond the shutdown timeout.
* The linter takes a package whose name only begins like a module's for the module,
  and looks at direct imports of the default build only.

## Fairness

* Limiter: the Redis client returns, with a reply or an error (it has timeouts),
  and a goroutine gets the mutex. Nothing makes Redis run a script.
* Key store: a statement that can run does; strong fairness for the two that wait
  for a row lock, because Postgres queues the waiters.
* Policy: the request's goroutine and the timer run, and a goroutine that has its
  result sends it. Rules are not assumed to return.
* Gateway: `run()` and its timer go on, and a request that holds a connection goes
  on, because Postgres answers statements. Nothing is assumed of other steps of
  requests: they may hang. No signal has to come.

## Proofs

`RateLimiterProofs` proves, for every number of requests, instances, tenants and
endpoints and every limit, window, delay and skew:

* `TypeCorrect`: `Spec => []TypeOK`;
* `SharedWindow`: `Spec => []WindowBound`;
* `FallbackWindow`: `Spec => []MemWindowBound`;
* `AlwaysRefusalJustified`: `Spec => []RefusalJustified`.

`WindowBound` counts admissions by the time their script ran; it is not inductive,
since it says nothing of what the sorted sets hold. The strengthening has two
parts. `Timing` relates each call's clock reading, the run of its script and the
present: what somebody waits for ran at most `Delay` after the clock was read.
`LogInv` says that a sorted set holds admissions of its own bucket and expires no
earlier than `Window` after the last of them (`MembersOK`), never more than
`Limit` of them (`SetsBounded`), and that an admission leaves it only when it is
out of every clock's window or lost to a fault (`Retained`). An admission younger
than `Window - Delay - Skew` is therefore still in its set, and the set is
bounded (`LogBound`). `MemTiming` and `MemInv` (`MemMembersOK`, `WindowsBounded`,
`MemRetained`) are the same argument for the window of one instance, whose stamps
are all of one clock. A refusal is justified when it is given, because the pruned
set that made it is then full of admissions the refused call counts; it stays so
because `Counted` and `MemCounted` only grow: decisions and their times are final
(`Final`). The assumptions are those of `RateLimiter`: finitely many
requests, natural limit, delay and skew, a positive window, clock offsets within
the skew.

`APIKeyStoreProofs` proves, for every number of clients, keys, tenants and
deadlines, `StoreTypeCorrect`, `StoreImplementsRegistry`, `AlwaysOneLiveKey`,
`ScopeAlwaysCarried`, `RevokedForGood` and `AnswersAlwaysTruthful`. The inductive
invariant `TxInv` adds to `TypeOK` what a transaction may rely on: from the locking
SELECT to COMMIT the row is the caller's, locked by it and live, and the id it
inserted has no committed row (`CallOK`); no two transactions insert one id
(`NewDistinct`); and a row has a root, only rows being revoked (`RowsOK`). With it
every statement is a `Mint`, `Replace` or `Withdraw` of the registry or changes
nothing there (`StoreStep`). The promises of the registry follow from `LineageInv`:
a root is its own root, ended lineages are roots, and each lineage has one live
key. The one assumption used is that `None` is no client, id, tenant or attribute.

`TokensProofs` proves, for every number of instances, secrets and logins and every
lifetime, precision and skew, `TokensTypeCorrect`, `IdentityAlwaysCarried`,
`AccessAlwaysBounded`, `AlwaysRefusedOnlyWhenDue`, `SecretAlwaysRetired` and
`LapsedForGood`. The invariant `TokenInv` says of every token handed out that it
carries its session's identity and secret and that `exp` lies less than a second
before, and at most the skew after, its lifetime. The assumptions are those of
`Tokens`: clock offsets within the skew, natural lifetimes, a positive precision.

`IdempotencyProofs` proves, for every number of requests, tenants, keys and faults,
`IdempotencyTypeCorrect`, `AlwaysReplayFaithful`, `AlwaysServedOnce` and
`AlwaysOutageKeepsPolicy`. None of these is inductive, since each speaks of answers
and not of the store they came from. `ProgressInv` says what a request has done by
each step of its way; `StoreInv`, that what is stored was answered by a request of
the slot whose `Set` took effect; `ReplayInv`, that an answer which is not the
request's own came out of such an entry; `DedupInv`, that an entry, once written, is
there until its slot is dropped, late writes included. From one Redis key to one
tenant and one key leads `PlainSlots`: where tenant ids hold no colon, the first colon
of a Redis key ends the tenant id (`FirstMark`), and what is left are equal keys.
Assumptions: tenant ids and keys are sequences of pieces, a key is not empty, and
handlers answer with HTTP statuses.

`PolicyEngineProofs` proves, for every rule set and every input,
`EngineTypeCorrect`, `AlwaysFailsClosed`, `AlwaysRefusalExplained` and
`AlwaysAuditedBeforeEffect`. `EvalInv` says that the buffered result is what the
rules evaluate to, that a decision is `Founded` (it is that result, the tenant check
or a timeout of a context that ended with the guard on) and that record and effect follow it. That the
first match of a non-empty set of positions exists is well-foundedness of the
naturals, not recursion. Assumptions: rules are records with an effect, and none of
them bears a `Reserved` name; without the second a rule called `eval_timeout` would
make the audit trail ambiguous.

`DefaultPolicyProofs` proves `AlwaysReadmePermissions` from `EvalInv` and a case
analysis of the eight rules, for any number of requests.
Its assumption, `Wiring`, is what `main.go` does: the engine runs these rules.

`GatewayProofs` proves, for any number of requests and connections,
`GatewayTypeCorrect`, `AlwaysCleanExit`, `AlwaysReleasedAtExit`,
`AlwaysGuardedEffect` and `AlwaysTracesAgree`. The inductive invariant `GatewayInv`
has these parts: `RunInv`, what is open at each point of `run()`, that only
`select` listens, and that nothing is in flight once it is about to return nil;
`ChainInv`, that what is left of a request's chain is a tail of its route's chain
and that a guard which is no longer due has been passed, while a redirected request
has been answered without one; `ServedInv`, what a served
request keeps; `LogInv`, exactly which lines the log holds of each request.
`Due` and `Rank` make the order of a chain a matter of arithmetic, so that the
proof about tails is done once (`TailDue`), and `StepKinds` reduces every step of a
request to five kinds of moves.

`ToolsProofs` proves `BoundariesAlwaysKept` for every program, by way of what the
rules forbid (`ForbiddenPairs`) and how paths begin (`BasePrefix`), and
`AlwaysLoadComplete` and `AlwaysReadAsWritten` for every environment, every file with
texts of any length and every limit on the length of a line: a file that cannot be read
to its end is excepted from the second, as are the lines from the first too long one
on. The second rests on one lemma per step
of the scanner: `TrimLine`, `KeyPart`, and `QuotedValue`, `BareValue` and
`NotedValue` for the ways a value is found, which together say that a clear line
assigns its text to its key (`LineRead`); none of it needs induction over a text,
because the scanner's helpers are minima and maxima of sets of places. `ConfigInv`
adds what the scan has established after some lines (`AsWanted`), and one lemma each
says how it ends: with the next line (`ScanStep`), at one that does not fit (`LongStep`)
or with an error (`ErrorStep`). Assumptions: `LimitAssumption`, that the limit is a
number,
`InputsAssumption`, that a line means one of the settings or is noise that sets none
of them, and `ProgramsAssumption`, that paths are sequences of strings. Both theorems
are about `ConfigSpec`, and the linter's about `LintSpec`, of which `MCTools` runs
either.

TLC agreed with the inductive invariants on the instances of the runs, with
`ConfigInv` for texts of up to two characters.

Only model-checked: the liveness properties (`EveryRequestAnswered`,
`EveryCallReturns`, `BoundedEvaluation`, `NoGoroutineLeak`, `Terminates`), because
fairness and ENABLED are outside this prover's reach.

## Not modelled

* `List` (reads only), JSON binding and rendering, the other fields of log lines.
* `/health` beyond its route: the ping of Redis only chooses a word of the answer.
* The read and idle timeouts of the HTTP server, which close connections before a
  request is accepted or after it was answered, and the sizing of the pool other than
  its maximum. How long a step takes is not modelled; that a request may outlast the
  write or the shutdown timeout is.
* `Redis.SetNX`: nothing calls it.
* The schema's tables `tenants` and `audit`, which no code reads or writes yet, and
  the parts that exist in documents only.
