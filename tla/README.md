# Arbiter in TLA+

Arbiter is a proxy that stands between AI agents and MCP servers. An operator registers
agents and opens *task sessions* for them through an admin API; every tool call then passes
a gateway that checks the session, the policies and the agent's behaviour, fills in
credentials, forwards the call and writes an audit record. This directory models the
parts that keep state or decide something, checks them with TLC on small instances and
proves with TLAPS, for instances of any size, the central safety properties of both session
stores, both agent registries, the admin API with its limiter and blocklist, the gateway,
the audit file and OAuth.

All source paths below are relative to `crates/` unless they start with `docs/`.
`PROJECT.json` maps every definition to the lines it stands for and lists runs, mutants,
findings, hazards and theorems.

## 1. Inventory

| Part (source) | State it keeps | Operations | What is hard | What makes it correct |
| --- | --- | --- | --- | --- |
| Task session (`arbiter-session/src/model.rs`) | budget, calls made, fixed rate window, age, status, authorized tools and credentials | expiry, budget, tool, credential and rate checks | exactly at the limit, at the window's edge, zero limits | see the stores |
| In-memory session store (`arbiter-session/src/store.rs`) | one map behind one `RwLock` | create, create under a cap, use, use a batch, close, close all of an agent, cleanup | many requests on one session; a session past its time and not yet cleaned up | never more calls than the budget; an ended session never grants again; every session with a deadline leaves the map |
| Storage-backed session store (`arbiter-session/src/storage_store.rs`, `arbiter-storage/src/sqlite.rs`) | the map as a cache, and a sqlite table | the same, written through; reload at start | failed writes, restarts, requests dropped while their statement is with the connection pool | a restart refunds nothing and revives nothing; what was scoped stays scoped |
| Agent registry (`arbiter-identity/src/registry.rs`) | agents, delegation links, two locks | register, delegate, cascading deactivation, trust level | locks released between check and change; two cascades at once, or one dropped half-way; cycles | a cascade ends and leaves no delegate behind; chains end |
| Storage-backed registry (`arbiter-identity/src/storage_registry.rs`) | two tables | the same | every storage call is its own await; a failing call stops a cascade midway | as above, except for what the failure itself left |
| Admin API (`arbiter-lifecycle/src/`) | gauges, one sliding window per client key, token blocklist | handlers for agents, sessions, policies, tokens | each handler calls registry and store several times and holds no lock between; requests dropped midway | session cap; deactivation ends sessions; gauges agree with the registry; a revoked token stays revoked |
| Gateway (`arbiter/src/handler.rs`, `arbiter/src/stages/`) | anomaly counters; the local state of every request | the stages 0 to 10 of `handle_request` | interleaved requests, stale snapshots, clients that hang up, audit failures | the budget holds at the upstream; nothing goes unrecorded unnoticed; what is forwarded is what was judged |
| MCP parser (`arbiter-mcp/src/`) | none | parse a body, write it anew | two readings of one body | policies and upstream see the same calls |
| Policy (`arbiter-policy/src/`) | a watch channel with the current configuration | evaluate, explain, validate, reload on file change | specificity ties, reload under traffic, debouncing, half-written files | deny by default; most specific policy wins; the last edit is loaded |
| Behaviour (`arbiter-behavior/src/`) | none | classify intent and operation | names in many spellings | a session that declared to read does nothing else |
| Credentials (`arbiter-credential/src/`) | secrets | find and fill references, scrub and classify responses | one secret inside another, encodings, rotation | nothing injected comes back |
| Audit (`arbiter-audit/src/`) | hash chain, failure counters, per-session statistics | write, recover | torn, failed and abandoned writes, restarts | what is acknowledged is on disk, in chain order; the degraded state ends when writes succeed |
| Plain proxy (`arbiter-proxy/src/`) | connection permits | middleware, forward, audit | spellings of a path, hang-ups | every answer audited; blocked paths stay out |
| OAuth (`arbiter-oauth/src/`) | a key cache per issuer, the time of the last refresh on a miss | validate, refresh | fetch and store are two steps; requests, the periodic refresh and rotations cross | accepted tokens are genuine; rotations arrive |
| Encryption, metrics text, configuration, CLI | none that is shared | | | |

Interactions. The admin API and the gateway share one session store and one registry
(`Arc`s, no common lock). The gateway reads the policy configuration from a watch channel
the file watcher and the admin API write to. A background task cleans the session store up.
hyper drops a request's future when its client disconnects, so any handler may end at any
`await`. What a dropped request has handed to the blocking pool or to a connection of sqlx's
pool is done all the same, some time later.

## 2. Modules

```
SessionContract            what any session store promises (abstract)
   ^ implemented by
TaskSession  <-- SessionStore <-- SessionRate          AdminAccess
    ^                ^   ^
    |                |   +---- Lifecycle ----> InMemoryRegistry      StorageBackedRegistry
    |                +-------- Gateway
    +--- StorageBackedSessionStore

PolicyEval <-- PolicyWatcher <-- RequestContent ----> McpParser, Behavior, Credentials
AuditSink <-- Proxy                                    OAuthValidator

theorems:
TaskSessionProofs <-- SessionStoreProofs <-- GatewayProofs
                  <-- StorageStoreProofs
RegistryProofs    LifecycleProofs    ProxyProofs
AccessProofs               OAuthValidator, StorageBackedRegistry and AdminAccess

MC_*                       model values for TLC
```

Every module with variables states their ranges in `TypeOK` (or `RegistryTypeOK`,
`SinkTypeOK`, `PipelineTypeOK`), which is a conjunct of the invariant where one is proved. In
those modules the parts of the inductive invariant follow the properties, under "Why they
hold". "Faulty variant" in a comment marks an operator that `PROJECT.json` puts in the place
of the one after it, to show that a property notices.

**TaskSession** has no variables: the record and the pure checks the stores share. One
conjunct per early return of `use_session` (`Accepts`) and `use_session_batch`
(`AcceptsBatch`). Tool and credential lists are sets, because the code asks only for
membership and emptiness; intent, delegation snapshot and sensitivity ceiling are carried
unread by the stores and left out. A tick is a second.

**SessionContract** is the abstract specification: `phase` (none, open, shut), `budget`,
`spent`; a session is issued once, grants only while open and within budget, and never
reopens. Clock, cache, rate window and storage do not appear.

**SessionStore**: `now`, `sessions` (the map), and two history variables, `created` (the
request that issued an id) and `granted` (calls answered Ok). Each operation holds the lock
for its whole body and is one action. An error changes nothing, except that a late use marks
the session Expired (`use_expired`). `create` clamps the time limit to a second as the code
does; `create_if_under_cap` does not.

**SessionRate** adds a log of grant times to SessionStore; `RateSpec` is its specification.

**StorageBackedSessionStore**: `cache` and `storage` (the table). The `persist` argument of
an action says how its storage call went: ok, failed, or dropped with its request. A dropped
request frees the lock while its statement is still with one of the pool's connections
(`Connections` of them): it goes to `stray` and lands (`stray_insert`, `stray_update`) or
fails (`stray_fails`) in a step of its own, after whatever other requests have written by
then. `create` (row, then cache) and `close_sessions_for_agent` (cache, then rows one by one outside the
lock) take several actions. `restart` loses the cache and rebuilds it from the rows that
`reload_from_storage` takes. `stored_to_domain` and `domain_to_stored` do what the code
does, including the column the table does not have. History: `faults` (has a write failed
or been dropped?), `overtaken` (sessions whose row a stray UPDATE set back, to fewer calls or
from ended to Active), `refunded` (the calls such UPDATEs took off a row) and `spent` (the
calls granted before that).

**InMemoryRegistry**: `agents` and `delegations` (in the order appended), and for each
request in progress where its `create_delegation` or `cascade_deactivate` stands. The code
releases its locks between the agent check, the cycle check and the push; the cascade locks
anew for each agent. The cascade's stack is a set: the order in which agents are taken from
it is left open. `Ancestor` walks first-incoming links as `get_chain_for_agent` does. Either
operation is dropped at any of its awaits (`delegation_dropped`, `cascade_dropped`);
`unwalked` and `missed`, history, are the agents a dropped cascade did not get to.

**StorageBackedRegistry**: the two tables, and where each request stands. There is no lock
and no transaction, so every SQL statement is an action (`InsertAgent`, `SetTrustLevel`,
`InsertDelegation` and the like are the statements), any of them may fail, and a request is
dropped where it stands when its client hangs up (`administrator_gone`) or the process
restarts; the statement a dropped request had handed to the database may still be executed.
A cascade's is then executed at once or never, which the history sets `unwalked` and `missed`
(what a cascade that was cut short did not get to) make up for; a late INSERT of a delegation
is a delegation that waits long before its last step. A row remembers whether it was inserted
`alone`, with no other delegation between its walk and its row.

**Lifecycle** composes InMemoryRegistry and SessionStore by INSTANCE and adds the handlers:
`create_session` is three actions (look up agent, count, insert), `deactivate_agent` a
cascade and then one action per agent whose sessions it closes, and `deactivate_dropped`
ends it anywhere (`forsaken` remembers the agents whose sessions nobody will close);
`create_session_dropped` ends a creation. The gauge `registered_agents` is kept. The
configured signing secret may be too short for `issue_token` (`signing`): `register_agent`
then leaves the agent registered, answers 500 and skips the gauge (`uncounted`).

**AdminAccess**: the front of every admin handler, that is the sliding-window limiter (per
client, known by the hash of the API key it presents) and the key check. Eviction drops the
requests at the front that are `Outside` the window (`FirstKept`, `Evicted`). The code reads
the time before it takes the lock, the model in the same step: a request held up at the lock,
whose entry would stand behind a later one's, is left out. Then `issue_agent_token` with its cap; `JtiBlocklist` with its cleanup.

**Gateway** composes SessionStore with the request pipeline: `r[c]` is the request on
connection `c`, cut at its awaits. Stage by stage:

| code | action |
| --- | --- |
| 0.5 audit gate | guard `AdmittedByAudit` of `receive` (a 503 leaves no trace, so it is no action) |
| 4, 6 middleware, size limit, upgrade | `turn_away` |
| 6, 6.5 gates | `parse`, with `Refused` for every refusal that looks nothing up |
| 6.5a session of a non-POST request | `peek` |
| 7 fetch, then charge | `fetch`, `validate_session_tools` |
| 7.5 calls-remaining header | `calls_remaining`, from the session as fetched |
| 8 snapshot, then evaluate | `policy_snapshot`, `evaluate_mcp_policies` |
| 9 anomalies and demotion | `detect_behavioral_anomalies`, `demote_read`, `demote_write`, `demote_reset` |
| 9.5 credentials | `inject_credentials` |
| 10 forward | `forward`, `upstream_timeout`, `upstream_answers`, `upstream_fails`, `response_*` |
| every exit | `write_audit`, with the sink's degraded state |
| hyper drops the request | `client_gone` at any await |

The detector, the credential provider and the upstream decide as they like. A policy
configuration is, per tool, the trust level it asks for. `sink.degraded` stands for
`write_failures > 0`, the only thing read of that counter. `forwarded` and `blind` are
history.

**RequestContent** is the other half of the same handler: one request at a time, followed
from its body to the scrubbed response, with what Gateway leaves to choice worked out by
four modules without variables and one with:

- **McpParser**: which bodies count as MCP, what is taken from each item, and the body
  `to_jsonrpc` writes anew for the upstream. JSON is an object or array of items.
- **PolicyEval**: matching, `specificity`, first match, parameter constraints, `Compiles`
  (what `from_toml` refuses) and the validator with its shadowing warnings. A name is the
  sequence of its words and of the marks between them, a URI prefix the set of URIs it covers, a regex the words it
  finds.
- **PolicyWatcher**: the file, the notify thread, the bounded event channel, the debouncing
  loop and the admin's reload, each a step of its own; reading and publishing are two.
- **Behavior**: both classifiers, the verdict table and the checks of arguments.
  `contains_any_token` splits a name at the five delimiters the code has, so a word that
  touches another (`deleteFile`) or another mark (`get:delete`) is no token.
- **Credentials**: references, substitution, scrubbing longest secret first, in each
  encoding, and the sensitivity of a response. A response is the set of its fragments: a
  secret in some encoding, or what is left of one that a shorter secret was cut out of.
  Its headers are fragments too, and nothing scrubs them.

The body is filled in first and then one header after another, with the provider asked anew
each time and each reference captured the first time only; `outdated`, history, has the
values a rotation put in place of a captured one.

Policies are reloaded and credentials rotated between any two steps of the request.

**AuditSink**: `write` holds the chain lock from the sequence number to the statistics; the
file is written in pieces (record, newline, flush), any of which may fail or tear. A dropped
writer releases the lock while the blocking pool still has its last piece (`stray`).
`numbered`, history, counts the entries given a number over all starts of the process. A
record's hash is its identity, `<<boot, sequence>>`; BLAKE3 is taken as injective.

**Proxy** extends AuditSink with the plain proxy: accept loop with its connection limit,
middleware chain, forwarding, an audit entry on each exit but the one where the upstream's
URI does not parse (`parse_fails`), and connections dropped at any await. A path is its
segments, each the pieces an encoded slash cuts it into; empty ones are doubled slashes.
`normalize_path` decodes, collapses dot segments, and joins the rest to a text whose doubled
slashes are replaced in one pass, as `str::replace` does.

**OAuthValidator**: `idp[i]`, the key sets issuer i has published, `cache[i]`, and the steps
of requests and of the periodic refresh. A key set is fetched in one step and stored in
another. Time is only whether a TTL or the cooldown has passed; decoding, a library, is the
conjunction of its checks. It requires `exp` and `iss` only: a token without an `aud` claim
(`aud = {}`) passes, whatever audiences are configured. `validate_token` reads each cache
under a lock of its own; the model reads them in one step, since no issuer's keys bear on
the judgement of another's.

## 3. Runs

| run | instance | shows |
| --- | --- | --- |
| `session_store` | 2 sessions, 2 agents, 3 kinds of request (a rate of 1, a zero time limit, a budget of 1), batches of 2, clock to 4 | `BudgetRespected`; `StoreInv`, the inductive invariant of the proofs; `ImplementsContract`; `EveryLimitedSessionIsRemoved` |
| `rate_limits` | sessions: rates 1 and 2, window 2, batches of 3, clock to 6; admin: 2 clients, 2 requests in a window of 2, clock to 5 | `BurstBounded`: at most two windows' worth in any stretch as long as a window; `AdminBurstBounded`: at most one; `RefusedOnlyWhenFull`: no client pays for another; `RevokedWhileValid` |
| `storage_store` | 2 sessions of one agent and 1 stray statement at a time, or 1 session with a budget of 3 and 2 strays; every storage outcome, restarts at every point | `BudgetRespected` (budget and refunds), `ImplementsContract` (until a row is set back), `DurableWhileUsable` and `ClosedSurvivesRestart` (while no write failed or was dropped) |
| `storage_credentials` | as `storage_store` | *violation* `CredentialScopeKept` |
| `registry` | 3 agents, 2 cascades and 2 delegations at a time, 2 links, any request dropped | `ChainsEnd`, `CascadeProgress`, `CascadeAdvances` (a cascade over a cycle still ends) |
| `storage_registry` | 3 agents, 2 administrators and 1 delegation, 2 links, 1 failure, hang-up or restart | `StrandedOnlyByFailure`: an active delegate below an inactive agent is the doing of that very failure; `ChainsEnd` |
| `lifecycle` | 2 agents, 2 sessions of one of them, 2 creating and 2 deactivating requests, any of which may be dropped, a delegation, secrets long enough and too short | `CapOvershootBounded`, `DeactivationClosesSessions`, `RegisteredAgentsGauge` |
| `gateway` | 2 connections on one session with budget 2, batches of 1 and 2, three policy states, an audit disk that comes and goes | `UpstreamWithinBudget`, `RemainingNeverUnderstated`, `BlindSpotBounded` |
| `gateway_recovery` | recovery threshold 3, disk back for good | *violation* `AuditRecovers` |
| `request_content` | 15 calls of 2 sessions and none, up to 2 headers with references, 4 policy texts, 1 edit, 2 states of the credential provider, one secret inside another | `ForwardedIsAllowed`, `CanonicalIsWhatWasJudged`, `EchoScrubbed`, `ReadSessionsOnlyRead`, `UnnamedIsDenied` and `ValidatorAgrees` (engine and validator against a reference), `LastEditLoaded` (liveness) |
| `proxy` | 2 connections, 3 writes, 2 starts of the process, two blocked paths and their spellings | `SequenceOrder`, `AckedOnDisk`, `DamageBounded`, `StatsBackedByFile`, `EveryAnswerAudited`, `BlockedStaysOut` |
| `oauth` | 2 issuers with the same kids, one rotation (also to no keys), 2 requests and the periodic refresh | `AcceptedIsGenuine`, `MissRefreshHelps`, `MissRefreshesBounded`, `RotationsArrive` (liveness) |

Bounds and why they are enough. Two sessions let one interfere with another through the cap,
the cleanup and deactivation; budgets of 1 to 3 with batches of 2 meet the budget exactly,
below and above. In `storage_store` a budget of 3 lets a stray be two calls behind, and two
strays overtake each other and the writes between them (`Bounds` gives both to a session
that is alone); what strays take off a row adds up to `MaxRefunded` at most. Clocks run past
the longest deadline and, in `rate_limits`, over three windows. Three agents make a chain
with a middle; two links that two delegations make at once make a cycle, and `MaxLinks`
bounds what is ever delegated (the theorems need no bound). Two connections are what the gateway's races need: one request's snapshot is
outdated by another's charge, one demotion by another's. With the gate of
`require_audit_healthy` and two connections only one write can follow a failed one, so the
`gateway` run sets `RECOVERY_THRESHOLD` to 1 to make recovery reachable;
`gateway_recovery` uses the code's 3. `MaxFlags` bounds the anomaly counter, which grows
without limit once an agent is Untrusted. The `gateway` run asks for sessions; MCP calls
without one are in the model and, as far as their content goes, in `request_content`.
There a channel of one event is full as soon as one waits, and one edit is enough for an
event to come before, between or after the loop's drain and read; the bodies are chosen so
that each refusal, each kind of match and each way of scrubbing occurs. In `proxy` three writes are
one torn, one that runs into it and one after; two starts put a fresh numbering behind a torn
line. In `storage_registry` a single failure is enough to strand a subtree, and the property
says which failure it was, so several would only add up. With one delegating
request every row there is inserted alone; two of them, with one administrator, three links
and no failure, have been run by hand (two minutes, same result), and the theorem is about
any number. In `lifecycle` only one agent has sessions: the cap is per agent, and the agent
may be the deactivated one or its delegate. In `oauth` one rotation lets an old fetch be
stored after a new one. Symmetry is used where no liveness is checked.
`CHECK_DEADLOCK FALSE` is set where the bounds on links, sessions or the clock let everything
come to rest (the two registries, lifecycle).

Fairness. `session_store`: the clock advances and the cleanup task wakes up, both for as long
as the process runs (`server.rs`, `tokio::time::interval`). `request_content`: the operating
system delivers file events and the watcher's own loop is driven on; edits, admin reloads and
requests come or not. `oauth`: a TTL passes, the host keeps calling `refresh_jwks`, and a
fetch tried again and again succeeds some time (strong fairness: a failing issuer makes
`refresh_jwks` start over, so the fetch is not enabled all the time). `registry` needs none:
`CascadeAdvances` is a measure that decreases, so a cascade that is scheduled ends. For
`gateway_recovery` the runtime drives every request (`FairSpec`), and besides clients keep
sending and the upstream finishes its answers (`CooperativeSpec`), more than the code can
count on: the sink stays degraded even so.

What some properties leave out, because the code does not promise it:

- `ChainsEnd`, in both registries, is about links no other delegation was made next to: two
  that race can form a ring, and do in the model (with two delegations over a database the
  same statement without this condition, `FirstLinksEnd`, is violated);
- `CascadeProgress` is about links made while the parent was active, and excepts what a
  dropped cascade did not get to;
- `BudgetRespected` of the storage-backed store adds the calls a late write took off the row,
  and its `ImplementsContract` follows a session until then;
- `DeactivationClosesSessions` excepts sessions inserted after the closing (`ghosts`) and the
  sessions of a deactivation that was dropped (`forsaken`); `RegisteredAgentsGauge` adds the
  forsaken agents and takes off the `uncounted` ones;
- `LastEditLoaded` excepts an admin reload that read an older text and published it last;
- `EchoScrubbed` is about the body of a response, and excepts the value of a reference that
  was named in two places with a rotation in between;
- `ReadSessionsOnlyRead` is about names whose words the classifier's delimiters keep apart;
- `BlockedStaysOut` is about paths without a leading doubled slash, a trailing slash or three
  slashes in a row;
- `AcceptedIsGenuine` lets a token without an `aud` claim pass;
- `SequenceOrder` leaves out the records of dropped writers;
- `MissRefreshHelps` excepts a request whose refresh is crossed by a fetch older than the
  rotation; `RotationsArrive` covers those.

## 4. Where code and documentation disagree

Checked as violation runs:

- **Credential scope is lost at a restart** (`storage_credentials`). The table has no column
  for `authorized_credentials`; a reloaded session has an empty list, which
  `is_credential_authorized` takes for "all", against the comment in `model.rs`.
- **A degraded audit sink never recovers** (`gateway_recovery`). With `require_healthy`, the
  default, the gate turns every request away before it is audited, so the three successful
  writes the sink waits for are never made.

Met while modelling, and not kept as runs. Sessions and agents:

- A call answered Ok can be refunded by a late write. An UPDATE carries the whole row and no
  version (`arbiter-storage/src/sqlite.rs:254`). That of a dropped request may land after
  later ones, against "Propagate failure so callers know the budget increment is not durably
  committed" (`arbiter-session/src/storage_store.rs:226`); a restart then grants the calls
  again, and a closed or expired row may be Active again. `GrantsAreDurable` is the
  comment's claim, and TLC refutes it on the instance of `storage_store`; `BudgetRespected`
  states what does hold.
- The session cap can be passed: `create_session` counts and inserts in two calls
  (`arbiter-lifecycle/src/api.rs:670`), while `docs/sphinx/guides/sessions.md:81` says
  the setting caps the active sessions of an agent. `CapOvershootBounded` states what does hold.
- A delegate can outlive its parent: `create_delegation` does not look again before it
  pushes (`arbiter-identity/src/registry.rs:293`; `docs/sphinx/understanding/why-agent-iam.md:42`).
  `CascadeComplete` states what does hold. So can the delegates that a cascade whose client
  hung up did not get to (`arbiter-identity/src/registry.rs:366` and `375`): a retry is
  answered `AgentDeactivated`.
- `register_agent` whose token cannot be issued (`arbiter-lifecycle/src/api.rs:267`; a
  signing secret under 32 bytes, `token.rs:71`, which the configuration's `validate` lets
  pass) leaves an agent that `registered_agents` never counted and whose deactivation it
  counts.
- Two delegations that race, in either registry, can close a cycle; a chain built from the
  leaf up passes `MAX_CHAIN_DEPTH`, because only the part above the delegating agent is
  measured.
- A cascade over storage that failed midway cannot be finished: a retry is answered
  `AgentDeactivated`. Two that race may both deactivate an agent, and the gauge then counts
  it twice.
- A batch that opens a new rate window is not compared with the limit, and the window is
  fixed, not sliding (`docs/sphinx/reference/configuration.md`). A close whose write fails
  is undone by a restart. The gauge `active_sessions` is decremented by a close and again by
  the cleanup.
- `issue_agent_token` caps a token at 24 hours and reports the `expires_in` that was asked
  for.

Gateway and content:

- Trust can rise: the level read, lowered and written two awaits later may undo demotions
  made in between (`arbiter/src/handler.rs:1004`; `docs/sphinx/guides/behavior.md:87`).
- The upstream timer ends with the response headers, so a body that stalls is waited for
  without limit. A request whose client hangs up leaves no audit entry in the gateway.
- "Remove double slashes" (`arbiter-proxy/src/middleware.rs:61`) is one pass: of three in a
  row two are left, a leading doubled slash leaves one too many, and a trailing slash stays,
  so `PathBlocker` takes none of these for the blocked path.
- "Tool names containing" a word (`arbiter-behavior/src/classifier.rs:22-25`) are matched
  only where `_ - . /` or a space separates the word. The parser also admits `:` and capital
  letters in a name, and `get:delete_x` or `get_deleteFile` do not count as deletes.
- A response that cannot be decompressed is replaced by an error text and keeps its
  `Content-Encoding` (`arbiter/src/handler.rs:1344-1356`).
- Only the body of a response is scrubbed; the upstream's headers are passed on as they are
  (`arbiter/src/handler.rs:1540`), where `arbiter-credential/src/inject.rs:4-6` says that
  credentials never leak back to the agent. `NothingInjectedComesBack` is that claim, and
  TLC refutes it on the instance of `request_content`.
- References in headers are resolved without regard to the session's credential list. A
  restricted response that is held back is audited as "allow".
- `explain_policy` says "allow" where there are no policies and the gateway denies.
  `validate` accepts texts that `compile` refuses (priority, length of a regex, a blanket
  Allow), and its shadowing check takes `*` for a name. `docs/sphinx/guides/policy.md:246`
  says that agent-specific policies always win; a priority, or enough other criteria, can
  outweigh them.
- The canonical body drops the params of methods other than `tools/call` and `resources/*`.
- The detector's comment says an Unknown intent means no anomaly detection; the code flags
  every call then.
- `FileProvider::reload` is called by no server.

Audit and OAuth:

- The hash chain starts at genesis after a restart, where `docs/sphinx/guides/audit.md`
  says it resumes.
- "A naive top-to-bottom verifier is sufficient" (`arbiter-audit/src/sink.rs:149-152`): not
  once a writer was dropped. Its number is given out and its record missing, or landing
  late, behind those numbered after it.
- `validate_token` refreshes nothing, where its comment (`arbiter-oauth/src/validator.rs:79-81`)
  says a miss triggers a refresh; `validate_token_with_refresh` does, and
  `OAuthMiddleware::process` (`middleware.rs:60`) calls the former.
- With audiences configured, a token without an `aud` claim is accepted: only `exp` and `iss`
  are required (`validator.rs:120`), where `config.rs:31` says that audience validation is
  skipped if no audience is configured.
- Two requests may both start a refresh on a miss, where a comment says at most one in 30
  seconds (`MissRefreshesBounded` states what holds). A kid that two issuers share gives
  "rejected" and not "no key", so no refresh follows. `refresh_jwks` stops at the first
  issuer that fails. Neither the validator nor `JtiBlocklist` is wired into the server.

## 5. Proofs

`TaskSessionProofs` has the lemmas on the record (what charging, creating and changing the
status preserve). `SessionStoreProofs` proves, for any agents, tools, sessions, requests,
batches, cap and clock bound that satisfy `SessionAssumption`:

- `StoreInvariant`: `Spec => []StoreInv`. `BudgetRespected` alone is not inductive: a grant is
  decided on `calls_made` and the property speaks of `granted`. `StoreInv` adds that the
  record agrees with the request that issued it and that its counter is exactly the number of
  grants (`Faithful`), and that an id not yet issued has neither record nor grants
  (`Unissued`), which is what makes issuing it safe.
- `BudgetSafety`: `Spec => []BudgetRespected`.
- `StoreImplementsContract`: every step of the store is a step or a stutter of
  SessionContract under `Phase`, `Budget` and `granted`.

It also proves, of SessionRate:

- `BurstSafety`: `RateSpec => []BurstBounded`. The store keeps a counter and the start of
  the current window, the property is about the times of all calls ever granted. `RateInv`
  ties the two together: the log has every granted call in order (`Logged`); the calls of the current
  window are the last ones of the log and at most the largest charge a window takes, those
  before them were granted by its start, and all but the last largest charge of these a whole
  window earlier (`WindowInLog`); so calls two largest charges apart are a window apart
  (`CallsSpaced`). Hypothesis `BatchesBounded`: there is a longest batch. Both servers refuse
  bodies beyond `max_body_bytes`, so there is one; without it the first batch of a window,
  which is not compared with the limit, has no bound to state.

`SessionAssumption` asks that the "none" values are not records or requests, that batches are
non-empty sequences of tools (the parser never yields an empty batch), and that the bounds
are naturals. The induction goes by kind of step: one lemma each for inserting, granting and
ending, used by every action of that kind.

`RegistryProofs` proves, for any agents, links and any number of registrations, delegations
and cascades under way at once, from `RegistryAssumption` (the "none" value is neither an
agent record nor an agent id, capabilities and expiries have their types, bounds are
naturals):

- `CascadeSafety`: `RegistrySpec => []CascadeProgress`, over cascades and delegations dropped
  at any await. The property is not inductive alone.
  An agent must not be registered, and so become active, under a link that is already
  there (`LinkedExist`), nor under one about to be appended (`DelegatingExist`); a cascade
  that starts must not take over leftovers of an earlier one (`IdleIsEmpty`); and what a
  cascade reports must be inactive (`ReportedInactive`), which the next theorem needs.
- `CascadeEnds`: `RegistrySpec => CascadeAdvances`. From a running cascade every step of it
  either reports an agent it had not reported, or shortens what it has to process, or
  shortens the children it is going through, in this order; the first can happen once for
  each agent.
- `CascadeCompleteness`: `RegistrySpec => []CascadeComplete`, from `CascadeSafety`: without
  a cascade under way nothing is pending, and what is left behind is in `unwalked` or
  `missed`.
- `RegistryTypes`: `RegistrySpec => []RegistryTypeOK`.
- `ChainSafety`: `RegistrySpec => []ChainsEnd`. While every link was pushed alone,
  every set of agents has one whose first link leaves the set (`Rooted`), and a
  delegation that has passed its cycle check has a set of agents closed under walking up
  that has its source and not its target (`Above`), which is why the push keeps chains
  `Rooted`. `ChainInv` holds both. What `Rooted` says of the recursive walk, that it
  ends within as many links as there are agents, is an induction over the naturals. The
  library's induction theorems take an operator and cannot be used, but the same
  facts can be stated of sets: `Least` (a non-empty set of naturals has a least element),
  `InductiveSet` and `Recursion` (a function defined by recursion over the naturals exists).

One lemma per kind of step (register, a delegation's steps, the push, and the cascade's
start, pop, child, end and drop); the cascade's share `CascadeStepInv`, which says what a step that only deactivates
and only changes its own cascade has to show.

`StorageStoreProofs` proves, over failed storage calls, statements that land late and restarts
at any point:

- `StorageInvariant`: `Spec => []StorageInv`. A session may exist in four copies at once: in
  the cache, as a row, built by `create` and not cached yet, closed and not written yet. Any
  of them may become the one that grants are decided on, so each must belong to the request
  that issued the id and count, with what late writes refunded, at least the calls granted
  (`CopiesFit`). The statements still with the pool are further copies, of the same creation
  and possibly behind (`StraysFit`): by how much is what landing adds to `refunded`, and a
  stray INSERT is all there is of its session. A row is Active
  whenever the cached record is, so the table never says "ended" of a session still in use
  (`TableFits`); and the two operations that leave the lock half way leave nothing else able
  to change what they hold (`CreatingAlone`, `ClosingFits`).
- `StorageBudgetSafety` (`BudgetRespected`) and `ClosureSafety` (`ClosedSurvivesRestart`,
  from `ClosedInTable`, and that without a fault nothing is stray) follow.
- `Durability`: `DurableWhileUsable`, from a second invariant, `DurableInv`, that is inductive
  relative to the first: an Expired copy is overdue (so no live session was dropped for it),
  and short of a fault the row of a live session is there and equal.
- `StorageImplementsContract`: the same abstract specification as for the in-memory store,
  with the phase read from the table alone, and over for a session whose row a stray set back
  (`SpentFits`: until then all its grants were within the contract).

Assumptions: those of the record, `MaxTimeLimit` a natural, the missing row is not a row, and
`LimitAssumption`: no request asks for more time than the limit. The admin API refuses others
(`arbiter-lifecycle/src/api.rs:707`); without it a reload would shorten a session, and the
cache would not be what a restart reloads.

`GatewayProofs` proves, for any connections, sessions, batches, policies and configuration:

- `GatewayInvariant`: `Spec => []GatewayInv`. The store's own invariant is taken over from
  `SessionStoreProofs`, whose theorems are instantiated for the gateway's store.
- `UpstreamBudgetSafety`: `UpstreamWithinBudget`. A call is charged some steps before it is
  sent, so the invariant (`SentIsCharged`) counts the calls of a session that were charged
  and not sent, over all connections (`Pending`, a set with one element per call), and says
  that sent and pending together are at most what was granted.
- `RemainingSafety`: `RemainingNeverUnderstated`, from `SnapshotFits`: the snapshot a request
  fetched has the budget of its session and counts at most the calls granted by now.
- `BlindSpotSafety`: `BlindSpotBounded`, from `BlindWereInFlight`: while the sink is degraded
  and its health is required, nobody enters, so unrecorded requests and those in flight
  together are at most the connections.

Assumptions: the connections are finite, thresholds are positive, and those of the store.

`ProxyProofs` proves, for any writers, requests and number of restarts:

- `ProxyInvariant`: `Spec => []ProxyInv`, with the audit sink's `SinkInv` in it.
- `OrderSafety` (`SequenceOrder`) and `AckSafety` (`AckedOnDisk`): whoever has a numbered record
  in hand holds the chain lock and has the last number (`HolderIsLast`), nothing on disk has
  a number not given out (`NumberedOnly`), a record is not on disk before its turn and is
  from then on (`InHandIsNew`), and what the blocking pool still has of dropped writes was
  never acknowledged (`StrayIsLost`). The last one is what makes late pieces harmless.
- `StatsSafety`: `StatsBackedByFile`. The counter runs behind the file by the record in hand,
  so the invariant compares it with the denials on disk that are settled
  (`CountedIsSettled`).
- `AnswerSafety`: `EveryAnswerAudited`. `AnswersFollowOutcomes` counts, besides the answers,
  the connections whose write has ended and that have not been answered.

- `FileInvariant`: `Spec => []FileInv`, inductive relative to `ProxyInv`. Each entry that was
  numbered is in at most one place: in the file, whole or torn, stray, or still to be written
  (`AllNumbered`, a count); a record acknowledged or about to be has a newline behind it
  (`LinesEnd`); and between two records acknowledged or in hand there is one (`LinesApart`).
- `DamageSafety`: `DamageBounded`. A damaged record has a neighbour that is no newline; by
  `LinesApart` this neighbour is torn or of a write that was lost, and it is no other damaged
  record's neighbour. So the damaged records map one to one into the torn and lost pieces,
  and by `AllNumbered` these are at most the writes that were numbered and are neither
  acknowledged nor under way.

Assumptions: writers are finite, the sentinels differ and are not records, bounds are
naturals.

`AccessProofs` proves, for any issuers (at least one, as `arbiter-oauth/src/config.rs` says),
keys, tokens, rotations and requests:

- `OAuthInvariant`: `Spec => []OAuthInv`.
- `AcceptanceSafety`: `AcceptedIsGenuine`, in which a token with no `aud` claim is of no
  audience. A cache holds exactly one set its issuer published
  (`CacheIsPublished`), which needs that of every set fetched and not stored
  (`FetchedWasPublished`).
- `MissRefreshSafety`: `MissRefreshHelps`. `RefreshArrives` follows a request over the issuers
  after its own: nobody is about to store older keys than it fetched, and once it has
  stored them the cache has those or later ones.
- `CooldownSafety`: `MissRefreshesBounded`. Refreshes started and requests about to start one
  together are at most the requests (`RoundsCounted`).

Of the registry over a database, for any agents, links, failures, hang-ups and restarts:

- `StoredInvariant`: `StorageRegistrySpec => []RowsInv`. Agents a request has read stay
  registered and keep their owner (`InRows`), and every active delegate of an inactive agent
  is one a running cascade will still come to, or one a failure hit (`Covered`).
- `StoredCascadeSafety`: `StrandedOnlyByFailure`, from `Covered` when no cascade is under way.
- `StoredChainSafety`: `ChainsEnd`, for any number of delegating requests: it says that chains
  end while every row was inserted alone (racing ones can close a ring, see section 4). While
  they were, the walk's visited set has the
  source, not the target, and is closed under walking up but for the agent it stands at
  (`WalkedUp`); cascades, failures and restarts may come between any two of its statements.

Of the admin API's front, for any clients, limits, tokens and clock:

- `AdminInvariant`: `AdminSpec => []AdminInv`. What the limiter has of a client is what it
  admitted, without some at the front that are outside the window (`RemembersTheWindow`), in
  the order of time (`InOrder`), and requests `max_requests` apart are more than a window
  apart (`Spaced`).
- `AdminBurstSafety` (`AdminBurstBounded`, from `Spaced`), `AdminRefusalSafety`
  (`RefusedOnlyWhenFull`, from `RemembersTheWindow`), and `RevocationSafety`
  (`RevokedWhileValid`, from `OnBlocklist`: the cleanup drops only what has expired).

`LifecycleProofs` proves, for any agents, sessions, links and any number of creating,
delegating and deactivating requests, any of which may be dropped:

- `LifecycleInvariant`: `Spec => []LifecycleInv`.
- `GaugeSafety`: `RegisteredAgentsGauge`. The property speaks only of moments when no
  deactivation is under way; in between the gauge counts the agents that are active, owed by a
  deactivation (deactivated, sessions not closed) or forsaken, less those registered without
  a token (`GaugeCounts`), and each is
  owed by one deactivation only (`OwedOnce`), the one that found it active under the lock.
- `DeactivationSafety`: `DeactivationClosesSessions`. An Active session, ghosts aside, is of an
  agent so counted (`SessionsCounted`); with nothing owed it is active or forsaken.
- `CapSafety`: `CapOvershootBounded`, which is inductive given the types: a request joins those
  past the cap check only while the agent's Active sessions are below the cap.

Assumptions: agents, sessions and creating requests are finite, there is at least one of the
last, and the "none" values are not records.

Only model-checked:

- all liveness (fairness and ENABLED are out of the prover's reach);
- `BlockedStaysOut`: its reference resolves a path of any length, and equating it with the
  library's fold needs induction under an operator parameter;
- the properties of `RequestContent`, whose parser, policy engine and scrubber are recursive
  definitions over documents and names.

## 6. Not modelled

- The enum dispatch between in-memory and storage-backed stores (`any_store.rs` and
  `any_registry.rs`): it forwards each call and keeps no state.
- Redaction of audit entries: a rewriting of text with unit tests of its own.
- The call tracker of `arbiter-behavior`: no other code uses it.
- The environment credential provider: a lookup.
- OAuth introspection: one call and three comparisons of its answer, without state or
  callers.
- Encryption at rest and token signing: library calls over single values.
- Configuration, command line and the rendering of metrics: parsing, defaults and text. Of
  the metrics only `registered_agents` is a variable.

## 7. Plan

1. `StorageBackedRegistry` under the Lifecycle handlers in place of InMemoryRegistry, for the
   gauge and for sessions of a subtree whose cascade failed.
2. Gateway and AuditSink composed, in place of the degraded flag Gateway keeps.
3. That Lifecycle's registry and store keep the invariants proved for each alone.
