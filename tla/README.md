# A TLA+ model of SAKN

SAKN is a network toolbox: a FastAPI backend (one uvicorn process, asyncio), PostgreSQL, Redis, and a React
single-page application. This directory models the parts of it whose correctness depends on the order in which
things happen, checks them with TLC on small instances, and proves the ones that matter most with TLAPS for
every instance. Paths below are relative to the repository; `app/` stands for `src/backend/app/`.

## 1. Inventory

| component | code | state | operations | what makes it hard | what makes it correct |
|---|---|---|---|---|---|
| session store | `app/redis/session_store.py`, `app/services/session_service.py`, `app/middleware/session.py`, `app/services/session_cleanup_service.py` | table `sessions`; Redis `session:<hash>`, `user_sessions:<user>` | create, enforce limit, resolve and touch, logout, revoke, revoke all, clean up | two stores without a common transaction; every Redis command and flush is an await; Redis errors are swallowed; the commit comes last | a token that was ended stays ended; cache, row and index agree; no more sessions than the limit; requests end |
| accounts | `app/services/auth_service.py`, `app/api/v1/endpoints/{auth,account}.py`, `app/services/account_cleanup_service.py` | `users`, `email_verifications`, `password_resets`; Redis IP counters | register, verify, login with brute-force tiers, reset, resend, delete | read-check-then-mark on single-use tokens; counters lost between read and commit | a token has its effect once per request in progress; a lock comes in time and holds; one row per e-mail; only the verified have sessions |
| administration | `app/services/admin_service.py`, `app/api/v1/endpoints/admin_users.py` | `users.role/status` | promote, demote, block, lock, verify, delete | "not the last administrator" is counted, then acted upon | one administrator remains; a block stays |
| tool configuration | `app/api/v1/endpoints/admin_{rate_limits,tools,modules,settings}.py`, `get_effective_limits` | rate-limit rows, modules, permissions, settings | edit, seed, read limits | select, compare, then insert or update; tables without a constraint | the limits in force are those that were set; what is off stays off |
| connection registry | `app/websocket/manager.py`, `tool_stream` in `app/api/v1/endpoints/tools.py` | dictionary session token -> socket | connect, send, broadcast, disconnect, heartbeat | a second tab of one session replaces the first one's entry | a finished execution closes its own socket and no other |
| ping stream | `app/websocket/handlers/ping_ws.py` | four asyncio tasks, a subprocess, received and sent sequence numbers | read output, watch time-outs, listen for cancel, time limit, summary | a reply races its time-out; cancel races the end; tasks are cancelled at an await | one result per sequence number; summary agrees with results; the process is stopped |
| traceroute stream | `app/websocket/handlers/traceroute_ws.py`, `app/tools/traceroute.py` | hop being assembled, target reached, mask | read, flush hop, mask, cancel, summary | a hop is sent as soon as it seems complete; masking comes before the target test; a signal cuts a line | what is sent is what the whole output says; nothing private where it is to be hidden |
| rate limiter | `app/redis/rate_limit_store.py`, `app/services/rate_limit_service.py`, `app/middleware/rate_limit.py` | Redis sorted sets, in-memory fallback, in-memory counters of login and registration | check and count, two scopes for visitors | fallback chain; one scope is charged although the other refuses | never more than the limit in a window and store; nobody refused without cause |
| preferences | `app/services/preference_service.py`, `app/services/preference_cleanup_service.py` | `user_preferences` | get, set, clean up | select then insert; rows orphaned by `ON DELETE SET NULL` | no more rows of a key than requests that overlapped |
| tool access | `_check_tool_access` in `app/api/v1/endpoints/tools.py`, `app/api/v1/endpoints/admin_tools.py` | `tool_permissions`, `tools` | check with self-healing insert | two requests insert the missing row | a tool runs only when on and permitted |
| address filter | `app/security/address_filter.py` | none | resolve and filter a target | aliases followed one lookup at a time | what is run is never a blocked address |
| tool execution | `app/tools/*.py`, `app/tools/network/executor.py` | a subprocess | run, terminate, kill; parsers | grace period between SIGTERM and SIGKILL | the process is gone; parsers keep every probe |
| request plumbing | `app/main.py`, `app/middleware/*.py`, `app/security/*.py` | none, `request.state` | middleware chain, CSRF, proxy trust, cookies | order of the chain | the rate limiter sees the identity the session gives |
| logs | `app/services/log_service.py`, `app/api/v1/endpoints/admin_logs.py` | log tables | write, query, purge | none beyond the database's | - |
| start-up | `app/main.py` lifespan, `app/cli` | seed rows, scheduler | seed, schedule | - | - |
| WebSocket client | `src/frontend/src/hooks/useWebSocket.ts`, `useToolExecution.ts` | socket, status, results | connect, cancel, message, close | closures over an old status; a second connect while connecting | a run ends in a final status; results of one run are not mixed with another's |
| application state | `src/frontend/src/stores/authStore.ts`, `hooks/useAvailableTools.ts`, `services/api.ts` | user, module-level caches | initialise, log in, log out, retry on CSRF failure | a response for a former user arrives late | the cache belongs to the current user |
| pages | `src/frontend/src/pages`, `components`, `i18n` | view state | rendering | - | - |

How they interact: `RateLimitMiddleware` runs around `SessionMiddleware`, which resolves the cookie through the
session store and puts user and session on `request.state`; endpoints call the services with a database session
that `get_session` commits after the response is on its way; `tool_stream` authorises a WebSocket against the
session store, tool access and the rate limiter, registers it with the connection registry and hands it to a
stream handler, which the WebSocket client of the page drives.

The hazards of each component, with the source line where each bites and the properties that cover it, are the
list `hazards` of `PROJECT.json`.

## 2. Plan

Most important first: an error in the session store lets somebody in who should be out, or out who should be in.

| step | modules | composed with | abstract specification | main properties | proofs |
|---|---|---|---|---|---|
| 1, done | `SessionStore`, `MCSessionStore`, `SessionStoreProofs`, `SessionStoreCalmProofs` | - | `SessionLifecycle`: a token is issued once, ends once | purged stays purged; cache, row and index agree; what the limit bounds; requests end | types, `PurgedStaysPurged`, refinement; without faults: cache, row, index, TTL; the limit |
| 2, done | `StreamTransport`, `ConnectionManager`, `WebSocketClient`, `ToolStream`, `MCToolStream`, `ToolStreamProofs` | each other, in `ToolStream` | - | registry, truth of what the page shows, handlers finish | types and all three safety properties |
| 3, done | `PingStream`, `PingStreamProofs` | `StreamHandler`, which `ConnectionManager` relies on | `StreamHandler`: the process exits, then one last word | one result per number, summary agrees | types, all three invariants, the contract's safety half |
| 4, done | `RateLimiter`, `MCRateLimiter`, `RateLimiterProofs` | - | the windows, stated over the charges of the requests | limit per window and store; what two scopes charge; no refusal without cause | types and all four properties |
| 5, done | `Accounts`, `MCAccounts`, `AccountsProofs` | the reset and the deletion of `SessionStore` in short | - | double use, lost counts, locks and blocks that hold, administrators | types and all six properties |
| 6, done | `TracerouteOutput` (pure), `AddressFilter` (pure), `TracerouteStream`, `MCTracerouteStream`, `TracerouteStreamProofs` | `StreamHandler`; `_parse_output` as the reference | `StreamHandler` again | what is sent is what the whole says; nothing behind the mask | types, all five invariants, the contract's safety half |
| 7, done | `ToolConfig`, `MCToolConfig`, `ToolConfigProofs` | - | - | rows per key, limits in force, permissions, seeding | types and all six safety properties |
| 8 | DNS presets, `ProxyTrust`, `FrontendState` | - | - | order of presets; the caller's address; the cache belongs to the user shown | - |

No safety property of a run is left without its theorem; what step 8 adds will want its own.
Nine runs pass, three small ones each show a disagreement with the documentation. What else
disagrees is described below without a run of its own.

## 3. The session store

`SessionStore` has the committed rows (`rows`, `expired`, `removed`), Redis (`hashKey`, `ttl`, `index`, `redisUp`), the
cookies browsers hold (`held`) and one record per request in progress (`proc`). A request is the coroutine of an
endpoint or of `SessionMiddleware`; its `pc` names the await it stands at, its other fields are its locals and its
open transaction (`del`: rows it has flushed a DELETE for, which are locked until it commits). Every step is the code
between two awaits, so a second request can come between any two Redis commands, flushes or commits.

| code | actions |
|---|---|
| `session_service.create` with `enforce_concurrent_limit` and `create_session` | `BeginLogin`, `BeginAnonymous`, `Members`, `ReadAge`, `ChooseEvicted`, `Insert`, `WriteHash`, `WriteTtl`, `AddToIndex` |
| `delete_session` (called by eviction, logout, revocation) | `PurgeRead`, `RemoveFromIndex`, `Unlink`; `Skip` is its `except` |
| `auth_service.logout`, `session_service.revoke`, `reset_password` with `revoke_all_for_user` | `BeginLogout`, `BeginRevoke`, `BeginReset`, `Flush` |
| `get_session` of `database.py` | `Respond` (the answer leaves first), `Commit`, `CommitFails` |
| `SessionMiddleware._resolve_session`, `update_activity` | `BeginResolve`, `ReadKey`, `Touch`, `Extend`, `SelectRow`, `ReplaceUnknown`, `OutOfTokens` |
| outages, restart, key expiry, `expires_at`, nightly clean-up, deleted users | `Outage`, `Crash`, `Lapse`, `Expire`, `CleanupExpiredAnonymous`, `DeleteUser` |

Data is abstracted to what the properties tell apart: a token stands for its hash, a key is absent, whole, or a stub
(made again by `HSET last_activity_at` after it lapsed), times are an order (`born`) and events (`expired`, `Lapse`).
`ended` and `purged` are ghosts, written when a logout, revocation or reset commits and never read by an action.

| run | instance | question |
|---|---|---|
| `SessionFaults` | one user, two tokens, two requests; login, resolution, reset; outage, restart, failed commit | what was removed from both stores stays removed; a token lives once (`SessionLifecycle`); requests end |
| `SessionCalm` | the same with all six requests; lapse, expiry, clean-up, deletion; Redis answers | row, key, index and TTL agree at every await |
| `SessionLimit` | five tokens, two logins at a time, a limit of one, lapses | what the Redis index lists exceeds the limit by no more than the number of requests; only older keys go |
| `SessionResetRace` | one token, a login and a reset | violation, below |

Bounds. Two requests are enough for every race of two, which all the hazards of this component are; two tokens let a
request act on its own and on another's session; five tokens and a limit of one let two overlapping logins evict, one
after the other and together. `MaxSessions` is 0 where eviction should happen on every login. Faults are split from
calm runs because `CacheImpliesRow` and `IndexCoversSessions` are promises that an outage is documented to suspend.
`SessionCalm` and `SessionLimit` turn the deadlock check off: once every token is issued and held by nobody, no request
can begin, and the instance stops. It is on in the other runs.

Fairness: `WF` of `Continue(p)` for each request. The event loop serves every ready coroutine, and an awaited command
returns or raises (`redis` and `asyncpg` time out or lose their connection). Requests need not arrive, nor keys lapse.

What the code does not do as documented:

- At most ten concurrent sessions are promised (`functional-spec.md:213`, `spec-backend.md:466`).
  `create` enforces the limit before it adds the new session, and with exactly the limit there nothing is evicted
  (`session_store.py:107`): one more than the limit stays at rest, after logins one after another.
- "Exceeding revokes oldest" (`spec-backend.md:169`), but an eviction deletes Redis keys only. The row
  stays, and `SessionMiddleware` resolves the cookie from it, so that the number of sessions which go on resolving has
  no bound but their expiry. `OvershootBounded` speaks of the index alone and is not that promise:
  it says by how much logins that overlap, each enforcing the limit for itself, exceed what one after another leave.
- `SessionResetRace`: `reset_password` ends the sessions that are committed when it selects them. A login that checked
  the old password before and commits afterwards keeps a session which the reset was to end.
- A key that lapses between `HGETALL` and `HSET` comes back with `last_activity_at` alone, lives another
  24 hours, and hides the row: a signed-in user is a visitor (`Touch` makes the stub, `ResolvedUser` reads it).
- A row past `expires_at` answers when its key has lapsed (`SelectRow`: the query does not look at `expires_at`), and the
  cached sessions of a deleted user answer until their TTL (`DeleteUser`).

## 4. Live tools

`ToolStream` composes three modules. `StreamTransport` is the sockets: their `readyState` in the browser, the set of
sockets the server accepted and has not closed, a FIFO channel each way (`up`, `down`). It is outside the repository
and modelled from how both sides use it: messages in order, nothing delivered after a `close()`, a send to a peer that
has left raises or is lost. `ConnectionManager` is the server: `registry` is `_connections`, `task` the `tool_stream`
task of each socket with its place, its process and the socket its `disconnect()` popped. It follows `tool_stream`
(`Refuse`, or `Accept` and `Register`, which are `connect()`'s two halves), then what both stream handlers share
(`Start`, `RejectStart`, `NeverStarted`, `SendResult`, `Cancel`, `StopListening`, `ProcessExits`, `Finish`), then
`disconnect()` in the endpoint's `finally` (`Pop`, `Close`). `WebSocketClient` is `useWebSocket` as the two pages use it:
`status`, `wsRef` and `cancelledRef` by tab, `shown` the sockets whose results are in the list, `pageOf` the mounted
component a socket's handlers belong to. User actions are `StartRun` (`reset()`, then `connect()`), `ResetPage`, `StopRun`
and `Navigate`; events are `OnOpen`, `OnResult`, `OnEnd`, `OnClose`, `OnHandshakeFailure` and `LoseConnection`.

One event handler of the page runs at a time, and `onclose` compares the `status` of the first render: that is why
`OnClose` leaves the status alone.

| run | instance | question |
|---|---|---|
| `StreamRuns` | one tab, two runs, one result each, connections lost | registry, truth of what the page shows, results of one run only, every handler finishes |
| `StreamTwoTabs` | two tabs of one session, one run each | violation: `ExecutionsIndependent` |

Bounds. Two sockets of one tab share a session token exactly as two tabs do, so that the registry's races are all there
with one tab; the proofs below lift the bound. A second result per run would only lengthen the channels. Deadlock is
not checked: when both sockets are used and closed, nothing can happen any more.

Fairness: `WF` of the server's steps and of the browser's events for each socket. The event loop serves every task,
a process ends at the latest when it is killed at its time limit (`max_duration`), and the browser delivers events. The
user need do nothing, and no connection need be lost. The weakness of `HandlersFinish` is deliberate: it says nothing
of how long a handler of a page that has gone goes on, which is up to the process's time limit.

What the code does not do as documented:

- `StreamTwoTabs`: the registry has one entry per session token. The second tab's `connect()` replaces the first one's
  entry, and the `disconnect()` of whichever run ends first closes the socket the entry names: the other run loses its
  page in the middle.
- Stop while the socket is connecting sends nothing and sets `cancelledRef`. When the handshake is then
  refused (rate limit, disabled tool), neither `onerror` nor `onclose` changes the status: the page shows "running",
  with Reset disabled. A connection lost without a complete message has the same effect, since `onclose` looks at
  the first render's status.

## 5. Ping

`PingStream` opens the handler up: the process (`process`, `transmitted`, `open`, `pipe`) and four tasks that share
`results_by_seq`, `received_seqs`, `cancelled` and the process. `Transmit`, `PrintLine`, `EndByItself` and `EndBySignal`
are ping as `PingTool._build_args` calls it and `_parse_output` and `_parse_summary` read it. `ReadResult`, `ReadStats`, `ReadEof`
are `read_stdout`; `WatchRound`, `WatchSeq` are `watch_timeouts`, one step per send, with the time it read at the start of
its round; `Cancel`, `HearDisconnect` are `listen_cancel`; `TimeLimit`, `ProcessGone`, `Drained`, `FillOne`, `Complete`, `ReaderFailed`
are the handler. `StreamHandler` is the contract of two actions, the process exits and then one last word is said, that
`ConnectionManager`'s `ProcessExits` and `Finish` assume of both handlers; `KeepsContract` shows that ping meets it.

`PingRuns` takes counts 0 (unlimited), 2 and 3, time-outs and limits above and below the time the packets take, replies
in any order, late, missing or without a number, Stop and loss of the page at any time. `MaxSeq` is 3, the shortest
sequence in which a line without a number can be taken for a packet in between; lines past it are left out. `clock`
stops at the time limit: no guard looks further. Deadlock is not checked: an execution that is done stops.

Fairness: time passes, a process that was sent a signal ends, the reader and the handler are resumed. Ping itself need
not end, nor the watcher or the listener run: the time limit is what ends the execution.

Not as documented: a ping ended by SIGTERM prints no statistics, `use_count` (`UseCount`) falls back to the count that was
asked for, and after a cancel the page gets a time-out for every packet that was never sent. The documentation
promises "partial results accumulated so far" (`docs/specs/technical/spec-tools-live.md`).

## 6. The rate limiter

`RateLimiter` has Redis's sorted sets (`zset`), the fallback's lists (`memory`), the list of login and registration
stamps of an address (`auth`), a `clock` of ticks and one record per request. `Arrive` is a tool request reaching the
limiter through `RateLimitMiddleware` (`IdentifyHttp`) or `tool_stream` (`IdentifyWs`), with what each does when the
database does not answer (`Unreadable`); it takes the stamp before Redis is awaited. `Evaluate` is `LUA_RATE_LIMIT`,
`LoseReply` the script run and its answer lost, `Fallback` `_check_db`, `CheckAddress` the second scope of a visitor,
`EnforceAuthLimit` `_enforce_rate_limit`, `Restart` the loss of what the process kept in memory. `charged` is a ghost:
what a request was charged, where, when, and whether its script ran after that of a later stamp.

`RateRuns`: three requests of a visitor and a user behind one address; windows of one and two ticks, limits of one and
two, a clock of two, and two faults, which are an unanswered call or a restart. Three requests are the fewest that pass,
fill a window and meet it full; two ticks let a stamp leave the short window and stay in the long one. Requests are
symmetric. When all have ended and the clock has stopped nothing can happen: deadlock is not checked. `WindowsHold` says
of all three counters how much passes in a window; `RefusedForCause`, `RefusedKeepsQuota` and `PassedIsCharged` that
nobody is refused, charged or let through without reason.

What the code does not do as documented:

- Registration is to be limited to three per address and hour (`spec-backend.md:585`). A login prunes the list it shares
  with registration with its own window of a minute: `AuthBurst` promises the shorter window only.
- Over HTTP all visitors share the key `session:unknown` (`middleware/rate_limit.py:80`: the session is resolved further
  in), where `spec-backend.md:543` has one key per session (`IdentifyHttp`). Over a WebSocket each has its own.
- The limit is per store and process: whenever Redis stops answering, or the backend restarts without it, a caller has a
  full window again (`RedisWindow` beside `MemoryWindow`, which speaks of one `life`).

## 7. Accounts and their administration

`Accounts` has the rows of `users`, the tokens of verification and reset, who has a session, whom the audit log names,
and up to two requests. A request reads (`LoginRight`, `LoginWrong`, `UseToken` with `ReadUser`, `AdminActs` with
`EnsureNotLastAdmin`) and commits later (`CommitUpdate`, `CommitDelete`) or not at all (`Abort`). What is committed is what
SQLAlchemy sends: the columns that differ from what the handler read, over whatever the row has become (`Merged`).
`Register` and `RequestPasswordReset` insert, `CleanupUnverified` is the nightly job, `LockLapses` and `TokenExpires` are time.
An administrator's action leaves a row of the audit log in the same commit (`Audited`); since the row's `admin_id` may not
be null, whom the log names cannot be deleted (`Removed`). `DeleteAccount` is a user's own request to go: it ends in
`AnonymizeLogs`, which raises, without effect. `guesses`, `lost` and `spends` are ghosts.

| run | instance | question |
|---|---|---|
| `AccountRuns` | two administrators and a user, two tokens, two requests at a time, three in all, a lock after two failures | verification, locks, blocks, tokens, counted administrators |
| `LastAdmin` | the same, two requests in all | violation: `LastAdminProtected` |

Every race here is between two requests; the third is what comes after it (the login that meets the lock, the
verification that meets the block). Without requests left nothing can begin: deadlock is not checked. There is no
liveness to state, since no request waits for another but at the row lock of a commit.

What the code does not do as documented:

- `LastAdmin`: "Last admin cannot be deleted/demoted" (`spec-backend.md:293`), but who demotes or deletes counts the others
  before the commit and locks none of them. In the trace the administrator a demotion has counted is locked by
  another request before the demotion commits; two who demote each other end the same way. `LastAdminCounted` is what is
  left of the promise.
- "Admins exempt" from the lock after failed logins (`spec-backend.md:465`). `login` locks whoever fails often enough,
  administrators too (`auth_service.py:289`): `LockInTime` is about everybody.
- `DELETE /account` deletes nobody. It asks `AuditLog` for a column the model does not have
  (`account.py:120`, `models/log.py:37`), raises before the user is deleted, and everything is rolled back
  (`functional-spec.md:239`: "Immediate and irreversible").
- A verification link makes a blocked account active (`auth_service.py:192`), where only an administrator unblocks
  (`spec-backend.md:288`): `BlockHolds` names the link among those who may.
- Simultaneous failures may count as one: `LockInTime` is about accounts of which no update was lost. Tiers above the
  first are never reached, `_brute_force_duration` returns the first that matches (`auth_service.py:44`).
- A token presented by two overlapping requests has its effect twice: `SpendsBounded`.

## 8. Tool configuration, access and preferences

In `ToolConfig` a key stands for one row of one table; `rows` has the rows of each key, since only modules, permissions
and settings have a unique constraint. All handlers select, then insert or update: `ReadLimits` (the batch of
`admin_rate_limits.py` and its comparison), `SelectRow` (the others), `Commit`, or `Refused` by a constraint. An execution goes
through `_check_tool_access`: `CheckToolAccess`, `InsertPermission` (a missing permission is inserted as granted and is committed
only after the tool has run, the row being held until then), `InsertFails` (rolled back and read again), `Finish`. `Restart`
is the seeding of `app/main.py`. `Effective` is `effective` of `get_effective_limits`, the lower of two that are set.
`witness` is a ghost: what a request has met in force since it began.

A batch of limits gives for each key the items that name it, in their order: a key may be named twice, and an item may leave
its limit out (`Omitted`). The comparison takes the last item of a key and 0 for what it leaves out (`Compared`); the
write applies the items one after another to the row that was selected, keeps what is left out, and inserts one row
per item when there was none (`Written`). Without a global row the default of the role counts (`GlobalLimit`).

| run | instance | question |
|---|---|---|
| `ConfigRuns` | two requests at a time, three in all, limits up to two, two starts; batches of `MCToolConfig`; either of the rows that a failed seeding may leave out missing at first | rows, limits in force, permissions, what only a batch or an administrator changes, requests end |

Two requests make a duplicate row; the third meets it. Limits of 0, 1, 2 are none, the lower and the higher; two items
for a key are enough to insert a row twice and to compare one item and write another. Deadlock is not checked:
requests and starts are used up. Fairness is `WF` of `Progress(r)`: the database answers or its connection fails, and a
tool has a time limit; so that `RequestsEnd` holds, those included that wait for another's insert.

What the code does not do as documented:

- A role and a tool have one row (`ui-spec.md:310`, `spec-backend.md:262`), but no constraint says so. One PUT that
  names a new pair twice leaves two, since the map of existing rows is not told of the first; so do two edits that
  overlap. Every later read of the limits then fails: a WebSocket is closed, an HTTP request passes unlimited
  (`Unreadable` of `RateLimiter`), and the next start gives up its seeding when the row is the global one. `RowsBounded` counts
  the items of the batches that can be in progress at once.
- Per-tool limits "can only tighten global limits" (`functional-spec.md:255`). A global item that leaves its limit
  out counts as 0, with which nothing is compared, and keeps the stored limit (`admin_rate_limits.py:87`, `:142`): one
  request alone puts a per-tool limit above it. So does a lower global limit, which is compared with nothing, a row that
  changed since it was compared, and a comparison that finds no global row. `ExceedsUncompared` says that there is no
  other way; `LimitInForce` holds all the same, the lower of the two counts.

## 9. Traceroute and the address filter

`TracerouteOutput` translates the parser and the mask of `app/tools/traceroute.py` as operators on the items of a line:
`Probes`, `IpList`, `Assigned`, `Paths`, `Hop`, `MaskedPath`, `Masked`, and `ParseOutput`, which is `_parse_output` over all lines at
once. `AddressFilter` is `FilterTarget` over a zone, that is, what every lookup of every name would meet. `TracerouteStream`
is the handler with its tasks, as `PingStream` is for ping: `ReadLine` takes a line and flushes the hops it completes
(`Taken`, `AfterLine`, `Flushed`), `Cancel` and `HearDisconnect` are `listen_cancel`, `TimeLimit`, `ProcessGone`, `Drained`,
`ReaderFailed` and `Complete` the handler. The process prints a hop on one line or on several, with annotations and names,
and a signal cuts its last line anywhere. `CutOff` is what may be left of it: some of its items, and what the start of the
next one reads as, which for an address or a name may be noise, a number that counts as a round-trip time, or a shorter
address (`Remains`). `CutToNumber` is the cut that leaves nothing but the number of a new hop.

`TraceRuns`: three addresses, one of them private and one the target; two names with every zone of four answers of
each type and every alias; two probes, two hops; a setting that is off or cannot be read; Stop and loss of the page at
any time. Two probes make a multipath hop and a hop cut in two, two hops one that is flushed by the next. `SameAsWhole`
compares what was sent hop by hop with `ParseOutput` of all that was read, but for that number (`Answered`). Deadlock is not checked: a finished execution
stops. Fairness: the kernel ends a process that was sent a signal, reader and handler are resumed; traceroute itself
need not end.

What the code does not do as documented:

- In a hop of several routers, the parser looks for plain addresses to tell whose a probe is (`Assigned`). A router
  printed as `hostname (IP)`, which is how names are shown by default, gets no probe: its path is lost, its probes are
  another's, and the destination may go unmarked. `DestinationMarked` is about output without names.
- A page that leaves ends the listener and not the process (`HearDisconnect`), which `spec-tools-live.md` § 4.6 wants
  terminated; it runs on to its end or its time limit.
- A setting that cannot be read counts as absent, which shows private hops (`ShowPrivate`). Absent or on, a private final
  hop is shown like any other (`functional-spec.md:123`, "do not filter"); off, it is masked too, unless it is the target,
  which is never private.

What the stream and the HTTP tool make of one output differs in one line. A signal that cuts the line of a new hop down to its
number leaves a line that opens no hop. The stream has sent the hop before and drops it; `_parse_output` still has that
hop open and counts the number as a round-trip time of it: "3" is a probe of 3 ms (`traceroute.py:331-343`, `:47-55`). `Stray`
recognises the line, `SameAsWhole` is about all the others.

## 10. What is proved

For every value of the constants, from the named assumptions of `SessionStore` (`ConstantsAssumption`: `None` and
`Anonymous` are nobody's name, the limit is a natural number), `ToolStream` (`StreamAssumption`: `None` is nobody's
name, every tab has a session), `RateLimiter` (`RateAssumption`: finitely many requests, the soft window is the
shorter one, `None` is no key, a tool is none of the endpoints of login and registration), `PingStream`
(`PingAssumption`: counts are bounded by the numbers of the instance, limits above zero), `TracerouteStream`
(`StreamAssumption`: names are not addresses, a zone answers with addresses, and every line that traceroute prints
has a probe after whoever it names), `Accounts` (`AccountsAssumption`: administrators are users, `None` and `Gone`
are no row and no name, there are finitely many requests, the threshold is at least one) and `ToolConfig`
(`ConfigAssumption`: finitely many requests and at least one, limits above zero, at least one item of a key in a batch):

- `SessionStoreProofs!TypeCorrect`, by `TypeOK /\ Shape`: which fields of a request matter at which place.
- `SessionStoreProofs!PurgeIsFinal` (`PurgedStaysPurged`). The property alone is not inductive: a step that writes a row or
  a key could belong to a token that is being purged. `SoleCreator` says that a token is written by the one request that
  made it, before its row is committed; `Selected` that rows under deletion have no creator left and that a key the
  deletion reached is not whole again; `StoredIssued` that stores hold issued tokens only. Each action either makes
  stores and requests smaller (`SmallerSafe`) or is one of the few that write, with a lemma of its own.
- `SessionStoreProofs!StoreRefinesLifecycle` (`ImplementsLifecycle`), from the same invariant: every step changes the status
  of tokens as `SessionLifecycle` allows (`OneLife`).
- `SessionStoreCalmProofs`: `KeysExpire` (`EveryKeyExpires`) and `IndexIsComplete` (`IndexCoversSessions`) for environments
  without outage and restart (`NoOutage`), `CacheHasRow` (`CacheImpliesRow`) without failing commits as well (`NoFailure`), as the
  code suspends these promises otherwise; lapse, expiry, clean-up and deletion stay in. Each property names the places
  at which a request leaves a gap, and the command that leaves such a place closes it. `CacheHasRow` needs
  `Settled`: a request that is going to delete rows still has their whole keys on its list, and none when it
  commits; and `Visitors`: who creates a visitor's session does not create a user's.
- `SessionStoreCalmProofs!LimitHolds` (`OvershootBounded`: the sessions the index lists), for finitely many requests and an environment without outage (a
  login that gets no answer evicts nothing, and enters its session when Redis answers again); restarts and every other request stay in.
  That the index is within bounds is not inductive: two logins may evict the same session, and each adds one. `Bounded` puts the
  logins of a user that evict in the order in which they read the index: what is listed and not on the list of a login,
  and the logins that come before it or are about to add theirs, are together no more than the limit and the requests
  (`BoundedRead`, `BoundedChoose`, `BoundedDone`, `BoundedAdd` say how each step of `enforce_concurrent_limit` and the entry
  in the index change the count). `Sound` says that nobody's token is in the index before its request is at its end.
- `SessionStoreCalmProofs!EvictionIsFair` (`EvictionSparesYoungest`), for instances in which no session is logged out, revoked or
  reset (these take younger sessions from the index, rightly); outages, restarts and lapses stay in. `EvictOK` says of
  each login that what it has read is in the index or has enough younger ones there (`Spared`), and that what it has
  chosen had no whole key or is spared; a session that another login takes from the index was spared itself, so whoever
  counted on it still has enough (`SparedStep`).
- `ToolStreamProofs!TypeCorrect`, `RegistryIsServed` (`EntryHasHandler`), `EndsAreReal` (`EndShownIsReal`) and `ResultsAreOwn`
  (`ResultsOfThisRun`), all from one invariant. What a page shows depends on what is still in a channel, so the invariant speaks of it:
  `EndsAnnounced` (an end on its way means an exited process), `OnePage` (a page hears only the socket in `wsRef`), `Asked`
  (a cancel, from the click to the answer, is this run's), `Phases`, `Carries` and `Fresh` about sockets that are not there
  yet.
- `PingStreamProofs`: types, the three invariants of `PingRuns` and the safety half of `KeepsContract` (`KeepsItsWord`), for
  any number of packets. `AnsweredOnce` alone is not inductive, as it does not say which lines are still unread: `OneReply`
  adds that a packet which is not sent, is open, or is answered in an unread line has no reply on the page, and that no
  two unread lines answer one packet; `Recorded` that nothing is shown which is not recorded, so that the watcher and the
  fill, which look for what is missing, send what nobody sent. `SummaryAgrees` needs `Counted`: the packets with a reply,
  shown or unread, are as many as the statistics say, from the moment ping prints them until the last line is read.
- `RateLimiterProofs`: types and the four properties of `RateRuns`, for any number of requests, limits and windows. The heart
  is that counting the entries of a store is counting charges: `Books` says that every entry comes from a charge
  (`FromCharges`) and every charge the longer window still reaches has its entry (`InRedis`, `InProcess`), so that a check
  which finds room leaves the window within the limit (`LimitsHold`, `WindowsHold`) and one that finds none has met
  that many charges of others (`RefusalHasCause`). `AllGood` says of each request what it was charged at the place it is
  at, whence `ChargedInEveryScope` and `RefusalIsFree`. `Lives` is there for the types: a restart is one of the faults.
- `TracerouteStreamProofs`: types, the five invariants of `TraceRuns` and the safety half of `KeepsContract`, for any zones,
  lines and numbers of probes and hops. `StreamIsWhole` (`SameAsWhole`) compares hops flushed one at a time with the parse
  of the whole. Its ground is what a line does to `Groups`: it opens a group or lengthens the last one (`GroupsOpen`,
  `GroupsContinue`). Upon it, `Collected` says that what was read is what was sent and the hop being collected, which
  wants probes, and `Printed` that a continuation comes only to a hop that wants probes. Without `Printed` it fails: a line
  after a full hop would be dropped by the stream and kept by the parser, which is what happens to a number left alone by
  a cut (`NumberLeft`), the last line and no part of the comparison. `MarkIsTrue` (`DestinationMarked`) has an
  invariant of its own, `MInv`: the mark is what the hops sent show (`Marked`), and, as long as no signal is sent, what
  they show of the target is what the lines say (`Heard`), the mask changing nothing of it (`MaskKeeps`), since the target
  is never private (`NeverPrivate`, by the walk over the aliases). `PrivateIsMasked` goes through every path of a hop.
- `AccountsProofs`: types and every property of `AccountRuns`, thus for any number of users, tokens and overlapping requests.
  `IInv` holds what the beginning of a request had checked and no other can undo (`Knows`: the user was registered,
  the token is his, who logs in is verified) and that a token goes with its user (`Owned`); without `Knows` a commit could
  make a session for whoever is not verified. `LocksHold` and `BlocksHold` follow step by step: only a commit lifts a lock
  or changes a status (`RowWriters`), and it writes the columns the handler changed (`UpdateWrites`). `LocksComeInTime` needs
  `Counting` (where no update was lost, the counter is no less than the failures) and `Tried` (who reports a failure had
  not seen a running lock); `SpendsAreBounded` needs `Spending` (effects and requests that present a token are together no
  more than the requests there are, and a usable token had none); `LastAdminIsCounted` needs `Counters`.
- `ToolConfigProofs`: types and every safety property of `ConfigRuns`. A request writes over what it selected steps ago, so
  `IInv` says what of that still holds: rows only grow, hence a selected row is there (`Met`); whoever changes a module or a
  permission had found it; a batch was compared with what it selected (`Checked`); whoever runs, inserts or holds an
  insert has met what it needs (`Admitted`), and the permission is missing as long as one insert of it is held, which only
  one request does (`OneHolder`). `OffIsFinal` follows from `RowWriters` and `CommitRows`, `LimitsStayOrdered` from `Checked`,
  `RowsAreBounded` from `Room`: the rows of a key and those that requests in progress may yet insert, up to `MaxItems` each for
  a limit and one each for anything else, are together no more than the requests can insert.
  `ForceIsKept` (`ForceChangedByBatch`) rests on the default of a start being the one that counts without a global row.

Model-checked only: liveness (`RequestsEnd` of `SessionStore` and `ToolConfig`, `HandlersFinish`, the fairness half of
`KeepsContract`), which is out of the prover's reach.

## 11. What is not modelled

Of the components modelled: `list_for_user` (reads only), `session_service.get`, `touch` and `count_user_sessions`, and
`ConnectionManager.send_json`, `broadcast`, `heartbeat` and `is_connected` (called by nobody); the flag for an
unavailable database; the execution log; ping's notices, round-trip statistics and duplicate replies; the validation of
parameters. The reasons a handshake is refused are one choice, `Refuse`.

Of the components modelled in part:

- accounts: `resend_verification`, which asks for a session that an unverified account cannot have
  (`LoginsAreVerified`); `update_profile`; the counter of failures per address, one Redis key with a TTL; mails;
- administration: notes, lists and the audit log, which change no account;
- rate limiter: the counters of resend and reset requests, which have a key and a window each; headers and the counts
  they show; `RATE_LIMIT_STORAGE=database`, which is the fallback alone;
- tool configuration: the DNS presets of `admin_modules.py`, an ordered list edited in one request each; lists;
- preferences: the clean-up of rows that nobody owns any more.

Not modelled: the DNS and TLS tools and the executor (a library call or a process, then formatting; the five seconds
between SIGTERM and SIGKILL belong to one task), request plumbing (stateless functions of a request), logs and mail
(appended and queried), the wiring at start-up, pages (rendering). The caches of the application state are one page's
own: what can go wrong there is that the tools of a former user arrive late (`useAvailableTools.ts:51`), which needs
only that one function to be seen. Likewise two events of a socket that was reset, `onerror` (`useWebSocket.ts:90`) and
`onclose` (`:104`), which find the status of a render long past.

The type invariants of `ToolStream`, `PingStream`, `RateLimiter`, `Accounts`, `ToolConfig` and `TracerouteStream` are
in their modules and are not among the properties of the runs, whose length they would add to; TLC evaluated them while the modules were
written, and each is a theorem (`TypeCorrect`, `LimiterTypeCorrect`).
