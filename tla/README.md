# GoTrendLabs in TLA+

GoTrendLabs is a prediction-market social network played with credits (GT₵). This directory
holds TLA+ models of the parts of the program where order, concurrency and failure decide
whether it is correct, the TLC runs that check them on small instances, and theorems about
them checked by TLAPS.

## 1. The system

A FastAPI service (`src/apps/api/backend_api`) owns the domain: every handler opens one
PostgreSQL transaction (READ COMMITTED, `psycopg`), reads and writes tables through SQL and
commits when it returns (`db.py`). A daemon (`run_gotrendlabs_daemon`, `daemon_services.py`)
runs a cycle every 300 seconds on the same tables; a thumbnail worker polls a job table; a
Django site, a Flutter application and an MCP adapter are clients. Nothing is shared in
memory: components interact through rows, row locks (`FOR UPDATE`), advisory locks and the
order of commits.

| Component | State it keeps | Hard behaviour | What makes it correct | Module |
|---|---|---|---|---|
| Positions (`main.py` 2406-2944, 5294-5391; `prediction_write_service.py`) | `predictions`: option, stake, payout, status | market read without a lock, check-then-write on the wallet | one side per user and market; a stake is held while the position is open | `MarketSettlement` |
| Wallets (`main.py` 1211-1379) | `wallet_ledger`, `wallet_balances` | projection and ledger must agree; no database check on balances | locked balance = open stakes; each outcome paid once | `MarketSettlement`, `StakeCustody` |
| Lifecycle (`market_lifecycle_engine.py`) and daemon (`daemon_services.py`) | `markets.status`, winner, `seal_due_at` | undo and re-resolution, refunds recognised by searching the ledger, isolated tasks | a closed market leaves no position behind; sealed results are final; due markets close | `MarketSettlement` |
| Wallet administration (`main.py` 6397-6423, 7333-7620, 8829-8870) | recharge requests, suggestions, feedback | check-then-act without locks between operators | credits bounded, one pending recharge | `OperatorQueues` |
| Integrity ledger (`integrity_service.py`) | events, checkpoints | concurrent appends, incremental audits, damaged rows | one chain; no false and no missed alarm | `IntegrityLedger` |
| Records of a market (`integrity_service.py` 225-350, 702-1030) | definition, commitments, resolution event, seal | verification in several unlocked statements | an intact market is not suspected, an altered one is | `MarketRecords` |
| Resolution requests and editorial actions (`resolution_requests.py`, `editorial_market_actions.py`) | receipts by key | repeated and crossing requests | a key publishes one result; whoever repeats is told the truth | `Confirmations` |
| Editorial workflow, schedules, deletion (`editorial_service.py`, `resolution_schedule.py`, `market_deletion.py`) | drafts, revisions, verdicts, registered dates | an edit races a verdict on the previous text; slugs are reused | what is published was approved as it stands | `MarketDrafts` |
| Taxonomy and front page (`main.py`) | entries, featured flags | saves read the entry and the featured markets before they commit | no market without its entry, two featured markets | `Catalogue` |
| MCP authorization (`editorial_auth.py`, `editorial_oauth.py`, `editorial_routes.py`) | integrations, grants, codes, tokens, leases | replay of codes and refresh tokens, people who leave, processes that die with a lease | a call works under a living authority; a token is spent once | `AgentAccess` |
| Sessions and MFA (`main.py`, `mfa.py`) | sessions, challenges, factors, links | logins in flight across resets, roles and deactivation | a session stands for its account as it is | `AccountSecurity` |
| Accounts and addresses (`main.py`, `social_oauth.py`, `email_outbox.py`) | users, external identities, grants, referrals | concurrent first logins, changes of address | a confirmed address was proved; one opening balance | `Onboarding` |
| E-mail outbox (`email_outbox.py`, `communications/services.py`) | messages with attempts | one transaction per batch, sending not undone by a rollback | what is sent twice is accounted for | `EmailOutbox` |
| Push (`communications/push_services.py`, `main.py`) | devices, deliveries | several accounts on one phone; claims, stale claims, late results | a phone rings for one account; workers do not repeat a push | `PushDevices`, `PushDelivery` |
| Images (`thumbnail_worker.py`, `thumbnail_service.py`, `badge_image_service.py`) | jobs with leases, files | worker crash, lease expiry, pruning | a job is paid once; what is shown has its file | `ThumbnailJobs` |
| Badges (`badge_engine.py`) | awards | evaluations cross each other and edits of rules | an award is given once, and for facts | `Badges` |
| Comments, reactions, notifications (`main.py`) | rows by key | repeated toggles, moderation | each is told once, and of others | `Conversation` |
| Official agents (`agent_services.py`) | actions of a cycle | one long transaction with model calls between people's steps | quotas hold; bots follow humans | `AgentCycles` |
| Platform settings (`core/platform_config.py`, `admin_ops/views.py`) | a JSON file and a row | saved one after the other by overlapping forms; two gates read them | no crash switches maintenance off; outdated builds are refused | `SiteSettings` |
| Admission and pool (`db.py`, `main.py` 210-706, `core/capacity.py`) | places, connections, waiters | lookups block the event loop; answers lost after the commit | nothing is lost; a refusal has changed nothing | `Admission` |
| Django site (`accounts/`, `admin_ops/`) | sessions of browsers, pictures on disk | overlapping requests save whole rows; answers lost after the save | the user shown owns the token; rows name stored pictures | `WebSession`, `ConsoleForms` |
| Flutter application | token store, ticket | answers that meet a screen that has moved on | the sheet sends what it shows; the user shown owns the session | `PredictionTicket`, `MobileSession` |
| Analytics (`analytics.py`, `analytics_history.py`, `analytics_retention.py`, `analytics_reports.py`) | raw events, daily history, first visits | two consolidators and pruning move events that nobody locks, while late ones arrive and members leave | an event is reported once, a closed account leaves nothing behind | `Observations` |
| Reputation (`market_lifecycle_engine.py`, rankings in `main.py`) | a row per player | resolutions add under a row lock, an undo rebuilds from an unlocked query | no result is lost; added rows are what a rebuild gives | `Reputation` |
| MCP adapter (`apps/mcp/server.py`, `editorial_routes.py`) | limits by address and minute, spooled reports | calls of one process interleave at each `await`; late API, crashes, reports delivered again | an outcome is logged once, as it was; the agent is told the truth | `EditorialGateway` |

`PROJECT.json` lists the components with what is modelled of each, and the hazards with the
properties that cover them.

## 2. Modules

Every module models one component; the header comment of a module says what its steps are.
All follow one scheme. A handler that locks the rows it decides on is one action. A handler
that decides on rows it read without a lock is a `Begin...` step (what it reads, with the
refusals) and a `Finish...` or `Commit...` step (its writes, which become visible together);
whatever commits in between is another step. An error, a crash and a rollback are one step
that writes nothing, except where something outside the transaction (a sent message, a
stored file, a paid call) stays. The comment next to each variable names the column, file or
object it stands for; `PROJECT.json` maps each definition to the lines it models.

| Module | What it models | Checked in |
|---|---|---|
| `MarketSettlement` | positions, wallets, lifecycle, closing and sealing | `MCMarketSettlement`, `MCLiveness` |
| `EditorialGateway` | the MCP adapter's calls and reports | `MCMarketSettlement` |
| `StakeCustody` | the abstract promise about each stake, implemented by `MarketSettlement` | `MCMarketSettlement` |
| `OperatorQueues` | wallet administration | `MCOperatorQueues` |
| `Reputation` | rows of reputation under resolutions and undos | `MCOperatorQueues` |
| `IntegrityLedger` | the hash-chained ledger | `MCIntegrityLedger`, `MCLedger` |
| `MarketRecords` | the signed records of one market | `MCLedger` |
| `Observations` | events of visitors, their history, reports and erasure | `MCLedger` |
| `EmailOutbox`, `PushDevices`, `PushDelivery`, `ThumbnailJobs` | outboxes and job queues | `MCDelivery`, `MCLiveness` |
| `Badges`, `Conversation`, `AgentCycles` | the community and its agents | `MCDelivery` |
| `AccountSecurity`, `Onboarding`, `MobileSession` | accounts and their sessions | `MCAccounts` |
| `AgentAccess`, `MarketDrafts`, `Catalogue`, `Confirmations`, `SiteSettings`, `Admission` | what operators and the external agent do, and the gates | `MCEditorial` (`Admission` also `MCLiveness`) |
| `PredictionTicket`, `WebSession`, `ConsoleForms` | clients | `MCClients` |
| `SetSums` | sums over finite sets | - |
| `SetSumsProofs`, `MarketSettlementProofs`, `OperatorQueuesProofs`, `IntegrityLedgerProofs`, `DeliveryProofs`, `AccountsProofs`, `EditorialProofs`, `ClientsProofs` | the proofs | - |

*Composition.* `MCMarketSettlement`, `MCOperatorQueues`, `MCLedger`, `MCDelivery`,
`MCAccounts`, `MCEditorial`, `MCClients` and `MCLiveness` put components side by side that
share no variable. Interleaving them would add nothing to what each can do, so a behaviour
works on one of them, its `focus`, and the others stay in an initial state: the state space
is the sum of theirs. Where components touch the same row in the program (a user, a market)
every handler keeps it locked for its transaction, or the module that needs the other's
effect has an action of its own for it (`PersonChanges` in `AgentAccess`, `CancelListing` in
`Catalogue`, `RegisterPhone` in `PushDelivery`, `DeleteDraft` in `ThumbnailJobs`,
`SquareCloses` in `AgentCycles`). Each composite asks one question per run through
conjunctions of its components' invariants (`SessionInvariant`, `ContentInvariant`,
`GateInvariant`, `MessageInvariant`, `WebsiteInvariant`, ...).

### MarketSettlement

*State and code.* `mstatus`, `winner` and `sealDue` are columns of `gotrendlabs_markets`;
`prediction` is the predictions table; `available` and `locked` are the projection
`wallet_balances`. The ledger is kept, for each prediction, as the sum of its rows of each
kind (`lock`: `prediction_stake_lock` and `prediction_resolution_relock`; `release`:
`prediction_refund` with direction release; `settle`: `prediction_loss`; `payout`;
`reversal`: `prediction_payout_reversal`; `recredit`: the `prediction_refund` credit of an
undone loss; `penalty`) and one bit, `released`, which is the answer to the refund's query
"is there a release newer than the last lock". Those sums and that bit are all the code asks
of the ledger rows of a prediction. `closing` abstracts the clock to the three intervals
that the revision cutoff and `close_at` separate; `request` holds what a position request
has read.

*Atomicity.* A lifecycle handler locks the market row at its first read and is one action. A
position request is two: `Admit...` is the unlocked read of the market, `Commit...` all its
reads and writes behind the advisory lock of the user and market, up to the commit.
`Commit...` is atomic against lifecycle steps because inserting a prediction takes a KEY
SHARE lock on the market row, which conflicts with their FOR UPDATE: the insertion waits for
the handler to commit or the handler waits for the position to commit. A request that loses
a deadlock, fails a check or crashes wrote nothing: `RejectPosition`. The model lets it
happen at any moment. A bot's cycle commits several predictions at once; committing them one
by one allows more behaviours, never fewer.

*Arithmetic.* `Payout` rounds half to even as `Decimal.to_integral_value` does, the penalty
rounds half up with a minimum of 1. Balances are unbounded integers.

*Abstracted.* Text, evidence and schedule fields, the editorial gate, reputation (see
`Reputation`), notifications, integrity events, and editing a market (`close_at` may be
edited while the market is open; here the clock only moves forward).

### StakeCustody

A stake is in one place: none, escrow, paid, forfeited, refunded; `CustodySpec` says that
`MarketSettlement`, with the custody of each stake read off its ledger rows, implements it.

### EditorialGateway

*State and code.* `attempts` is `LimitsMiddleware.attempts` by address and minute, `calls`
the coroutines of one process by the identifier of their event, `spool` the files of reports
not delivered, `ingested` and `logged` the API's table of events and its log. `passed` and
`forgone` are history: requests let through in this minute, and events that expired, found
no room or were lost in a crash.

*Atomicity.* What a call does between two `await`s is one step: admission, the request to
the API, the answer (in time, late or lost), the report, and each spooled file it then tries
to deliver (`todo`, `posting`). The operation goes on at the API whatever becomes of the
call, so `effect` has steps of its own. A crash ends every call and tears the file that was
being written.

*Abstracted.* Payloads, the body limit, headers, the schemas of tools; the authority of a
call (`AgentAccess`).

### OperatorQueues

*State and code.* `item` is the rows of `market_suggestions`, `product_feedback` and
`wallet_recharge_requests`, reduced to owner, status and whether a reward is recorded
(`paid` is a non-null `reward_gtl`); `credits` counts the ledger rows that refer to an item,
`drafts` the markets made of a suggestion, `available` is the wallet column. `job` is the
requests in flight.

*Atomicity.* These handlers take no row lock before they decide: `_get_suggestion`,
`_get_feedback`, `_get_wallet_recharge_request` and `_wallet_summary` are plain reads. Each
handler is therefore `Begin...` (its reads and its refusals) and `Commit...` (its writes,
which become visible together). The update of a balance is an increment in SQL, so none is
lost; an update of a row waits for another transaction's lock on it and then overwrites. The
recharge request meets the partial unique index `uniq_pending_wallet_recharge_user` when it
inserts. `Rollback` is an error, a violated index or a crash. Reviews and credits to a
wallet decide nothing from what they read and are one action. Staking locks the wallet row
before it checks the balance (`TakePosition`).

*Abstracted.* Who is an operator, notes, notifications, e-mails, badges, the content of the
draft. An author whose account is deleted leaves an item without owner; items here keep
theirs.

### Reputation

*State and code.* `standing` is `gotrendlabs_user_reputation`, `bet` the positions by player
and contest; `workBet` and `workStanding` are what open transactions have written and not
committed, `held` their row locks. A resolution takes a player's wallet, then the row, and
adds to it; an undo recalls each position under the wallet's lock and rebuilds the rows from
a query that locks nothing (`seen`), in the order of `updated_at`. `tidy` is history: what
was added since the last rebuilding came in that order.

*Abstracted.* The order and columns of a ranking; scores are those of the code (`Delta`,
`HalfUp`, `Floor`).

### IntegrityLedger

*State and code.* `ledger` is `integrity_ledger_events` by sequence; a hash is the number of
the append that produced it (0 before the first event), so equal hashes mean equal events,
and `intact` is the answer of `_ledger_event_is_valid`. `latest` is the last row of
`integrity_ledger_checkpoints`; `sound` is the answer of `_checkpoint_is_valid` together
with the link to the checkpoint before it. `lastFull` and `retryDue` abstract `verified_at`
to the two questions the code asks of it: did the last valid full audit happen within 24
hours, did the last invalid one within the hour. `tx` is what a transaction that holds the
advisory lock has yet to commit, `request` what a status request has read so far.

*Atomicity.* `append_ledger_event` and `audit_integrity_ledger` first take one transactional
advisory lock, which is kept to the end of the transaction: `BeginAppend` and `BeginAudit`
take it (several events, or an audit and its seal's event, may follow in the same
transaction), `Commit` makes everything visible at once, `Rollback` is a failing signer,
database or later step. A status request is three statements without a lock:
`ReadCheckpoint`, `ReadHead`, `Answer` (which reads the boundary).

*Damage.* The ledger exists to reveal privileged writes, which the tests make by disabling
the triggers: a row is altered, altered with its hash, repaired, or lost, alone or with all
after it; the last checkpoint is altered. `damaged` records that it happened, so that the
properties of an undamaged ledger can be told from those of a damaged one.

*Abstracted.* Canonical JSON, SHA-256 and Ed25519 (a hash has one preimage, an altered row
does not verify); a key that cannot be found, which stops audits and reports `unavailable`;
the markets of invalid events; rows other than the ledger's.

### MarketRecords

*State and code.* One market with its definition, predictions, commitments, last resolution
event and seal; `keys` is the table of public keys and `signer` the key of the running
process, which a restart may change. `reading` is a verification or status request with the
rows it has read so far, each statement on its own; `reading.during` records what committed
meanwhile. Hashes are injective terms, so the Merkle tree (`NextLevel`, `Root`, `Proof`,
`Climb`, as `build_merkle` and `verify_merkle_proof`) is evaluated on them.

*Abstracted.* Several markets, texts of the definition, alert rows.

### Observations

*State and code.* `raw`, `sittings`, `visitors` are the tables of collection;
`consolidated`, `pruned`, `counted` and `presence` those of the history. A batch is one
event and a count is the set of the events it counts, so that "reported once" can be said.
`kept` is history: the events accepted and not erased, whatever became of them. An instant
is its day.

*Atomicity.* Arrival of a batch is two steps (admission, insertion) with midnights, erasures
and consolidators between them; each consolidator lists the stale days and then takes them
one by one; a report is one statement per day, a listing one per page.

*Abstracted.* Platforms, names of events, markets, staff and bots; funnels and geography. A
request may meet one midnight, not two (`Midnight` waits for older ones): the API's requests
last seconds.

### EmailOutbox, PushDevices, PushDelivery, ThumbnailJobs

An e-mail batch is one transaction that locks rows with `SKIP LOCKED`, sends and commits;
`forgotten` counts the messages sent by batches that rolled back. A registration of a phone
is two statements, of which the first does not see what an open transaction has inserted
(`overlapped`). A push is claimed in one transaction, sent without a lock, and written from
the copy made at the claim; `late` marks the alerts of which a claim went stale. An image
job costs two provider calls, with a checkpoint in the database before each; files are
written outside the transaction that records them and pruned by another task. Staff save
the settings of images as a whole (`SaveThumbnailSettings`): the flag, the limits (`quota`)
and the period, by choosing which jobs it now reaches. `quotaCut` is history: the kinds no
request was accepted for since such an edit took quota away.

*Abstracted.* Addresses, texts, the content of images; the clock, to "due", "stale" and
"lease run out"; more than one recipient, draft and badge, which share nothing with the
modelled one but the quota. The global limit is the least of the site's and the
environment's; that of an operator, which only refuses more, is left out.

### Badges, Conversation, AgentCycles

The badge engine reads each metric in a statement of its own inside the transaction of the
event; `disturbed` tells the evaluations that another commit crossed. Rule types are reduced
to those one user's event evaluates and those a resolution evaluates for all its users. In
`Conversation`, `rung` counts the pushes of each notification row. `AgentCycles` is one
transaction of the daemon with calls to a language model in it: `BeginCycle`, a turn per
agent, `CommitCycle` or `LoseCycle`, while people comment, moderate and join, markets close
and the console edits agents with their limits (`SaveAgent`) and the configuration with the
limits of all (`SaveAgentConfig`). A cycle works under the limits it read when it began
(`cycle.limits`) and when it listed the agents (`own`). What the transaction wrote is seen
by itself only until it commits (`SeenRemarks`, `SeenStakes`). `kept` is history: the limits
under which the last comment, position, comment in a market and position of an agent were
written. Ages are "new", "day" and "old".

*Abstracted.* Texts and prompts, probabilities (a bot's odds are not the question), the
order in which candidates with equal rank are visited (any).

### AccountSecurity, Onboarding, MobileSession

A session row carries, beside its user, what the account was when it was opened (role,
password, generation of the second factor); these are history, so that
`SessionsMatchAccount` can compare. `late` marks a session whose account changed between the
password check and the opening. `Onboarding` is the users table as far as registration,
social logins, links, referrals and grants touch it; `proof` is the address last proved,
`crossed` the accounts whose address changed under a running request, `overlapped` what two
requests served at once. `MobileSession` is one thread whose steps are the stretches between
two `await`s; the server is reduced to who holds a session and whether it lives.

*Abstracted.* Password hashing, TOTP arithmetic beyond the timestep that may be used once,
rate limits, the text of e-mails, the expiry of sessions (one of the ways they end).

### AgentAccess, MarketDrafts, Catalogue, Confirmations

`AgentAccess` keeps for each grant the artifacts not consumed (`unspent`: its code and its
refresh tokens by number); a call reserves a lease, works while it holds the integration's
row and share-locks the people who answer for it, and releases the lease. An operator edits
the limit of concurrent calls beside the scope, whatever leases are held; `limitCut` is
history: it was lowered and no call was reserved since. `MarketDrafts` has
rows by identity and `page`, what each reader has on the screen: an action may be taken from
a page read long before, and finds the market by slug (forms of kind "legacy") or by slug
and identity ("identified"). `judged`, `blind` and `made` are history. `Catalogue` splits an
operator's save at its reads of the entry and of the featured markets (`raced`, `displaced`,
`moved` are history). `Confirmations` has requests that hold a market's row, receipts by
key, and the agent's reading of a market's version; `effects` counts the results each key
caused.

*Abstracted.* Texts and dates are model values; scopes are one bit; the documents and
sources of a packet are part of its text.

### SiteSettings, Admission

A save of the Config page is: read the row, open and truncate the temporary file, write it,
rename it, write the row; a crash may come between any two. A phone's call reads the file
once per middleware. `Admission` follows a request through the website's places, the API's
places, the event loop, the pool and its queue; `done` is what was committed, `reply` what
the API said and `told` what the person read.

*Abstracted.* The columns of the row to the groups told apart; the counters of the in-memory
rate limits; time-outs are steps that may happen whenever something is awaited.

### PredictionTicket, WebSession, ConsoleForms

The ticket's previews (`wires`), sheets, submissions (`posts`) and the reading of the market
are in flight at once, and the position may move on another device. A request of the website
loads its session row whole and saves it whole when it ends (`overlap`: a save took
another's back). A form stores its file first and posts the row second; the API's answer may
be refused, late or lost.

*Abstracted.* Amounts to two stakes, pages to what they do to the session, layout.

## 3. Runs

| Run | Instance | Question |
|---|---|---|
| `SettlementAuto` | 2 humans, 1 bot, 1 market the daemon closes, 2 options, 3 predictions, 2 requests, up to 2 undos; beside it the MCP adapter with 3 calls (2 at once) of 2 integrations, 1 address with 2 requests a minute, room for 1 file, 2 minutes | stakes held while open, exactness of the refund's test, outcome paid once and positions on one side, nothing left behind by a closing; what the adapter logs and tells (`GatewayInvariant`) |
| `SettlementManual` | 1 human, 1 bot, 2 markets (manual and automatic), 2 predictions, 1 undo | balances = open stakes, only an undo overdraws, sealed results are final, `StakeCustody` is implemented |
| `SettlementDoubleUndo` | 1 human, 1 bot, 1 market, 2 undos | **violated**: the second undo reverses both payouts |
| `QueuesConcurrent` | 2 workers, 1 user and guests, 1 suggestion, 1 feedback item, 2 recharges, amount 3, grant 4; beside it 2 players, 2 contests, 2 transactions, 4 resolutions and undos, odds of 95 and 6 points to begin with, so that the floor of 0 is met | credits per item and overdrafts bounded by the requests in flight, one pending recharge, credited recharges stay decided; reputation counts every result (`ReputationInvariant`) |
| `QueuesDoubleCredit` | 2 workers, 1 recharge | **violated**: an item is credited twice |
| `LedgerConcurrent` | 2 connections, 2 status requests, 4 events, batches of 2, no damage; beside it a market with 2 bettors, 3 bets, 2 resolutions, 1 restart; and 2 events of 2 browsers and 1 member over 5 days, consolidated and removed at the age of 2 | one chain, no collision, no false alarm; the records of a market hold (`RecordInvariant`); what visitors did is reported once (`ObservationInvariant`) |
| `LedgerDamage` | 1 connection, 3 events, batches of 2, every kind of damage, fairness | scan, checkpoints and seals see what they must; damage is reported, a repair is noticed |
| `Delivery` | 2 messages, 2 mailers; 2 accounts on a phone; 1 alert, 2 pushers; 2 image jobs, 1 worker; 2 fans, 2 badges, 2 workers; 2 readers and a bot, 1 comment; 2 agents, 3 bot accounts, 2 markets; images either under one quota or with 2 that staff switch between while none is shown, agents either switched and reassigned over 2 cycles or with 2 sets of limits edited over 3, badges either under 3 requests and 1 edit or under 2 and 2 | what leaves the outboxes is accounted for (`MessageInvariant`), images (`ImageInvariant`), `NothingReturns`, badges, notifications and agents (`CommunityIsFair`) |
| `Accounts` | 2 accounts (1 superuser), 2 requests, 2 sessions, 1 challenge, 1 link; 2 members, 2 addresses, 1 identity, 2 requests; a phone with 2 persons, 2 sessions, 2 logins | `SessionInvariant`, `OnboardingInvariant`, `IdentityNeverMoves` |
| `Editorial` | an integration with 1 grant, 1 credential, 2 exchanges, 2 calls, a limit of 1 or 2 calls; a draft with 4 edits and verdicts or 2 drafts with 2, 2 slugs, an operator and the agent; 2 entries, 3 listings, 2 savers; 2 markets, 3 keys, 2 confirmers; 2 editors, 1 phone; 7 callers in parties of 3 | `AgentInvariant`, `ContentInvariant`, `ConfirmationInvariant`, `GateInvariant`, `NothingIsRewritten` |
| `Liveness` | 2 markets, 1 message, 1 alert, 1 image job, 2 callers, fairness | due markets close and results are sealed (`MarketsReachTheirEnd`); queues drain and everybody is answered (`QueuesDrain`) |
| `Clients` | a ticket with 2 options, 2 stakes, 2 previews, 1 submission; 2 visitors, 2 tokens, 2 requests, 2 rows, 5 visits; 2 forms, 2 pictures | `TicketInvariant`, `WebsiteInvariant` |

The conjunctions say, component by component:

* `MessageInvariant`: a mail server takes a message at most once for each attempt on record
  and each batch lost after sending it; unless registrations overlapped a phone rings for
  one account, and never again for one that gave it up; while claims get their results in
  time a push is sent once per attempt. `NothingReturns`: sent mail, final pushes and failed
  jobs stay so.
* `ImageInvariant`: the quota in force is exceeded only by jobs from before an edit that took
  quota away, and then nothing is accepted; at most two paid calls per job, and a file behind
  every candidate and every image shown.
* `CommunityIsFair`: no evaluation of badges waits for ever on another, an award is given
  once, an undisturbed evaluation gives exactly the badges earned; one deed makes one
  notification and rings once; agents write nothing past the limits their cycle has read and
  bots follow humans.
* `SessionInvariant`: unless the account changed during the login, a session's account is as
  it was when it was opened; a session the administration accepts proved a factor that still
  stands; one factor per account, one use per link. On the phone: a login given up leaves no
  session in use, a protected session is used only after the device opened it, the user
  shown owns the session sent.
* `OnboardingInvariant`: a confirmed address was proved, an identity reaches its account,
  one opening balance and one referral bonus each.
* `AgentInvariant`: a working call rests on a living integration, origin and people; one
  spendable token per grant, a replayed grant is dead; leases within the limit, unless
  an operator lowered it since the last reservation (`limitCut`).
* `ContentInvariant`: a published definition is a text a reviewer approved; no identified
  form saves over what its author was not shown; an approval that stands can be published;
  one market per key; the registered schedule is the current one. No market without its
  entry, two featured markets unless two saves raced, approved places stand.
* `ConfirmationInvariant`: a key causes one result; nobody is told a result stands that does
  not; the notice names the first result.
* `GateInvariant`: image settings survive saves, the policy is a superuser's, asked builds
  exist, a torn file only after overlapping saves, outdated builds are refused; every place
  and connection is accounted for, and a refused request has changed nothing.
* `TicketInvariant`: a sheet sends what it shows, figures are of the selection, the panel
  and the button wait only for answers that come. `WebsiteInvariant`: the user shown owns
  the token, no live session is lost track of, rows name stored pictures, nobody is told a
  save failed that was made.
* `GatewayInvariant`: an outcome is logged at most once, as it was and under its
  integration; no report disappears unknown; what the agent is told is so; limits hold.
* `ReputationInvariant`: a row counts the player's resolved positions and those won, and a
  row added to in the order of its results is what rebuilding it gives.
* `ObservationInvariant`: an event accepted and not erased is reported on its day once, raw
  or preserved; a closed account is in no event and no presence unless a request of its was
  under way; a visitor keeps its first day; the pages of a listing agree.
* `RecordInvariant`: an intact market is not suspected unless a publication or resolution
  overtakes the reader, an alteration is found, every leaf proves its membership.

Type invariants of the components without a run of their own question (`TypeOK` of
settlement, queues and ledger) are not checked by TLC: they are theorems. The others are
parts of the conjunctions.

*Exceptions are history variables.* Where the code lets two requests cross and a property
fails for them, the exception is stated in the property by a variable that records exactly
that crossing (`overlapped`, `crossed`, `raced`, `late`, `overtaken`, ...), and what then
happens is listed in section 5.

*Bounds.* Three predictions let one user hold a position, reinforce it and revise it, or two
users meet on both sides; two requests let two of them race; two undos are what a
resolve-undo-resolve-undo sequence takes. Stake 5 at 40% gives an uneven payout (12.5) and a
penalty of 1, so that the amounts of different ledger rows differ. In the queues, two
workers are the smallest number that can race; two recharges let one be decided while the
next is asked for; an amount of 3 against a grant of 4 makes the first debit covered and the
second not. In the ledger, three events are a first, a middle and a last one; after two of
them the tail may be lost and an event appended in its place. Damage is checked with one
connection because the lock leaves nothing to interleave with it. In the composites there
are two of whatever can race (two mailers, registrations, exchanges, savers, confirmers,
forms, visits), one more of whatever two may use up (three listings for two places of the
front page, three bot accounts for two agents, callers for each gate's place and queue), and
one of what only carries a race. Constants named `Max...` bound what people, operators and
crashes may repeat for ever; each is in the guard of the steps it bounds. In `MCEditorial`,
an agent's behaviours have all the exchanges and one call under one limit, or all the calls
and one exchange while the limit is edited, and settings are saved by all editors while no
phone calls or by one while phones do. In `MCDelivery`, two sets of limits let an edit lower
one kind and raise another; three comments of a day, or two positions, are more than the
lower limit and as many as the higher.

*Symmetry* is used where values are interchangeable and no liveness is asked. Components of
one composite share the names of interchangeable things (sessions, tokens, forms), so that
one set of permutations serves them all.

*Deadlock* is checked in the two ledger runs, whose transactions can always roll back and
begin again. Elsewhere bounded behaviours may end: markets sealed, users with nothing to
ask, mail sent.

*Fairness.* Only the machines and time are fair. The daemon's loop never stops by itself and
each of its tasks is isolated (`_run_isolated_task`), so a due market is eventually visited
(`WF(CloseDue)`) and a market whose window is over is eventually sealed (`WF(Seal)`),
provided the signing key is configured and the audit does not fail, which otherwise suspends
sealing by design. The daemon's mailer and pusher begin and end their batches, a lease or a
stale claim runs out, image workers poll, and every request in flight makes its next step
(`EmailFairness`, `PushFairness`, `ImageFairness`, `AdmissionFairness`). In the ledger, the
daemon begins an audit every cycle; advisory locks queue, so it is not overtaken for ever
(`SF(BeginAudit(w, FALSE))`), and the failures that roll audits back do not last for ever
(`SF(Commit)`, `WF(Rollback)`). No user, operator or provider is assumed to act, and nobody
to append, seal, damage or repair anything.

## 4. Proofs

The theorems hold for every value of the constants that satisfies the named assumptions
(`SettlementAssumption`, `QueuesAssumption`, `LedgerAssumption`, `EmailAssumption`, ...),
which TLC evaluates on the instances. An assumption says that bounds are naturals, that the
markers for "none" are not among what they stand for, that people, workers and rows are
finitely many where they are counted, and what the code's configuration guarantees. The
theorems of `DeliveryProofs`, `AccountsProofs`, `EditorialProofs` and `ClientsProofs` are
about the composites the runs check; those of the other modules about the components
(`Spec`, `GatewaySpec`, `ReputationSpec`, `RecordSpec`, `ObservationSpec`), each of which a
composite takes the steps of while the component is in focus and leaves alone otherwise.

Every invariant and every action property of the passing runs is the subject of a theorem;
only liveness is not (see the end of this section).

Each component has an inductive invariant: its checked invariant is seldom inductive alone,
and what has to be added is the point of the argument. Each was checked by TLC on the run's
instance before it was proved. A composite's theorem combines its components' invariants,
since a step works on one component and leaves the others unchanged.

`SetSumsProofs` proves what sums over finite sets do (add an element, remove one, ignore
zeros, add pointwise, stay natural), from the fold of the community modules, and the facts
about least numbers and sizes of images the other proofs share.

*Recursion.* The library states induction with an operator as a parameter, which none of the
provers can instantiate. `SetInduction` states it over a set of naturals, and
`SubsetInduction` over the subsets of a finite set. A function defined by recursion is then
shown to exist up to every bound by induction, `CHOOSE` is shown to pick one, and what it
computes is proved by a second induction over an invariant of its loop. The sums, the
ledger's scan, the Merkle trees and the replay of reputation are proved about in this way.

### Settlement (`MarketSettlementProofs`)

| Theorem | Statement |
|---|---|
| `TypeCorrect` | `Spec => []TypeOK`, in particular no locked balance is negative |
| `StakeHeld` | `Spec => []StakeHeldWhileOpen` |
| `RefundTestExact` | `Spec => []RefundTestIsExact` |
| `LockedBalance` | `Spec => []LockedIsOpenStakes` |
| `PaidOnce` | `Spec => []PaidOnceOnOneSide` |
| `ClosingSettles` | `Spec => ClosingSettlesAll` |
| `SealedIsFinal` | `Spec => SealedResultsFinal` |
| `ImplementsCustody` | `Spec => CustodySpec`: the refinement of `StakeCustody` |
| `UndoAloneOverdraws` | `Spec => OnlyUndoOverdraws` |

A refund moves the ledger of a prediction to zero only if the refund's test is exact; a
settlement releases what the ledger holds only if the stake is held; the locked balance
stays natural only if it is the sum of the open stakes. `Inv` is their conjunction with the
types, stated row by row (`RowOK`). Every action writes through `Record`, so
`RecordPreserves` reduces the step to `RowOK` of the rows touched, and the change of the sum
over a user's positions to sums of finite sets. `SettledInv` adds, for `PaidOnce`, what the
ledger of a position has gained its owner after each resolution while at most one was
undone, and that the options of a user's open positions in a market agree, for which the
advisory lock (`Commit...` is one step) is what matters. The refinement goes through the
place of a stake as a function of its row (`place`), and one lemma per kind of step: which
edge of `StakeCustody` it takes.

### Wallet administration, adapter, reputation (`OperatorQueuesProofs`)

| Theorem | Statement |
|---|---|
| `QueuesTypeCorrect` | `Spec => []TypeOK` |
| `QueuesCreditsBounded` | `Spec => []CreditsBounded`: credits of an item and requests that will credit it are at most the workers |
| `SerialCreditedOnce` | with one worker, `Spec => []CreditedOnce` |
| `QueuesOverdraftBounded` | `Spec => []OverdraftBounded` |
| `QueuesOnePendingRecharge` | `Spec => []OnePendingRecharge` |
| `QueuesCreditedIsDecided` | `Spec => []CreditedIsDecided` |
| `GatewayKept` | `GatewaySpec => []GatewayInvariant` |
| `ReputationKept` | `ReputationSpec => []ReputationInvariant` |

A credit is bounded by the workers only because a credited item carries a mark that admits
no further request (`MarkedInv`), so every request that will still credit it was admitted
before the first credit. An overdraft is bounded because a debit is admitted while covered,
at which moment the balance is not negative, and each debit that commits spends one unit of
the count of debits in flight. Commits share `EndPreserves`, whose hypotheses say what a
step may do to rows (`RowsKept`), credits and wallets.

*Adapter* (`GatewayGood`): the edge keeps its table within the limits and never below what
it let through in this minute (`EdgeGood`); a result and an effect go together by the stage
of the call (`CallsGood`); the log agrees with the table of ingested events (`LogGood`); a
file or a delivery stands for a call with a result and is carried by its integration
(`SpoolGood`). In the run, whose horizon is two minutes, no minute is old enough to be
pruned from the table; the theorem covers the pruning.

*Reputation* (`ReputationInv`): rows fit the committed positions (`StandingsFit`), locks
have one holder (`LocksExclusive`, `LocksOfTransactions`), positions that no transaction
works on are as committed (`WorkIsCommitted`), and each player's position in a transaction's
contest is as it was, or settled with the row added to, or recalled with the row to be
rebuilt, read for it, or written (`PositionsGood`, `LeftInContest`). The point is that what
an undo read without a lock cannot have changed when it writes: it holds the wallet of every
player whose position it recalls, and a resolution needs the wallet before the row. The
replay is a recursion over results in the order of `updated_at`; it looks only at the
positions it is given, and a result that came last is added to it, which makes adding and
rebuilding agree.

### Ledger, records, observations (`IntegrityLedgerProofs`)

| Theorem | Statement |
|---|---|
| `LedgerTypeCorrect` | `Spec => []TypeOK` |
| `LedgerChainWhole` | `Spec => []ChainWhole` |
| `LedgerNoAppendCollides` | `Spec => []NoAppendCollides` |
| `LedgerNoFalseAlarm` | `Spec => []NoFalseAlarm` |
| `LedgerCheckpointsExtend` | `Spec => CheckpointsExtend` |
| `LedgerIncrementalAgreesWithFull` | `Spec => IncrementalAgreesWithFull` |
| `LedgerSealsOnWholeChain` | `Spec => SealsOnWholeChain` |
| `LedgerScanFindsFirstBreak` | `Spec => []ScanFindsFirstBreak`, on any stored rows, damaged or not |
| `TreeComplete` | every leaf's proof is accepted against the root, for lists of every length |
| `TreeInjective` | lists of one length with one root are equal |
| `MarketRecordsHold` | `RecordSpec => []RecordInvariant` |
| `ObservationsKept` | `ObservationSpec => []ObservationInvariant` |

The chain stays whole because the transaction that holds the lock, and only it, knows the
head (`NoAppendCollides` is the strengthening that makes `ChainWhole` inductive). No alarm
is false because, while nothing is damaged, every checkpoint, stored, still uncommitted or
already read by a request, agrees with the stored events up to its own head, and events are
never taken back. The action properties follow from what `StickyFailure`, `AuditsAll` and
`ScanFrom` let an audit start from; that a head (`ChainHead`) exists on any finite set of
sequences rests on the least-number principle, obtained from the library's well-foundedness
of the naturals. The scan's loop keeps `ScanKnows`: the next sequence expected, that the
rows before the last good one follow each other, and that the one after it does not.

*Trees.* A level of a Merkle tree determines the level below it when the length is known (an
odd level repeats its last node), and the sibling on the way of a leaf is the one the proof
lists; both are carried from the leaves to the root by induction on the height.

*Records* (`RecordInv`): the stored rows are those the market's history signed, up to an
alteration (`RowsAreGood`), and what a reading has seen is either still so or a publication
or resolution is recorded to have overtaken it (`ReadingIsGood`).

*Observations* (`ObservationInv`): requests are of today or yesterday (`RequestsFresh`), so
with `LateDays + 1 < Mature` no event arrives for a day a consolidator may take
(`HistoryOld`); a plan skips no day that has raw events (`PlansSound`); the history of a day
counts exactly the events kept on it (`HistoryExact`), and its presences are of those
events' actors (`PresenceExact`, `VisitorsBound`); a request of a closed account was under
way when it closed (`NoLateMember`). `PlansSound` also says that the rebuilding of days that
changed after their consolidation never has anything to do: under the assumption no late
event reaches them, and an erasure rebuilds them itself. Nothing locks the raw events: the
gap between the three ages is all that keeps the two consolidators, pruning and arrivals
apart.

### Outboxes, images, community (`DeliveryProofs`)

| Theorem | Statement |
|---|---|
| `MessagesAreAccountedFor` | `Spec => []MessageInvariant` |
| `ImagesAreSound` | `Spec => []ImageInvariant` |
| `NothingComesBack` | `Spec => NothingReturns` |
| `CommunityKept` | `Spec => CommunityIsFair` |

*E-mail* (`MailInv`): open batches hold disjoint sets of waiting rows (that is what `SKIP
LOCKED` gives), so a message is in flight once and the count of its sends exceeds the
attempts on record only by lost batches. *Devices* (`DeviceInv`): while registrations did
not overlap, the one in flight has locked every other active row. *Push* (`PushInv`): while
no claim went stale, a push in state "sending" is carried by one worker, whose copy of the
attempts is the row's. *Images* (`ImageInv`): the calls paid for a job are those its row or
its worker's checkpoints account for, only the worker that owns the lease may make the next
one, and the files a row refers to are exempt from pruning; the quota is a bound on the
cardinality of the jobs of the period, which a request finds below the limits of the moment
(`FitsQuota`) and only an edit of the limits or of the period can upset (`SettingsKeep`).

*Badges* (`BadgeInv`): an undisturbed evaluation has won, of the badges it has judged,
exactly those its facts satisfy (`Judged`); no badge is won by two evaluations; and each
evaluation takes its users and rules in ascending order (`Ascending`), so that of the
finitely many at work the one furthest on (greatest user, then greatest rule) waits for
nobody. *Conversation* (`TalkInv`): each notice stands for a deed of somebody else that was
done (`NoticeGood`), and the phone rang once for each row, since telling (`Tell`) rings for
new rows only. *Agents* (`CycleInv`): what the cycle is about to write is within the limits
it has looked at (`PhaseFine`), although the people's steps between may hide comments and
close markets; hours pass only between cycles. Comments are numbered as they are written
(`Numbered`), so a comment that is hidden or grows old remains one comment, and the counts
of a day are images of the counts before; the positions of a cycle lie apart from the
committed ones (`StakesApart`), so its commit charges each once. An edit of the limits
touches neither the rows nor the limits kept (`OthersKeep`), and what is written later keeps
to those its cycle has read. The day's quota of positions holds only up to one cycle's less
one more, which is what the code's single look at it gives.

### Accounts (`AccountsProofs`)

| Theorem | Statement |
|---|---|
| `SessionsTellTheTruth` | `Spec => []SessionInvariant` |
| `AccountsAreProved` | `Spec => []OnboardingInvariant` |
| `IdentitiesStay` | `Spec => IdentityNeverMoves` |

*Sessions* (`SecurityInv`): a session of somebody the administration accepts was opened with
the present generation of the factor; a challenge stages a factor only for the account that
opened it; a link held by one request has not been used. *Accounts* (`OnboardingInv`): two
requests that act on the same identity or the same operator are known to (`Apart`), a
request that will link an identity found it free, and the bonus of a referrer is the
cardinality of those it invited, which a finished registration raises by one. *Phone*
(`PhoneInv`): what each login in flight was issued, that tokens of different logins differ,
and, while nothing overtook a restore (`Calm`), which combinations of restore, login, logout
and screen occur.

### Operators, agent and gates (`EditorialProofs`)

| Theorem | Statement |
|---|---|
| `ConfirmationsHold` | `Spec => []ConfirmationInvariant` |
| `AgentAuthority` | `Spec => []AgentInvariant` |
| `ContentKept` | `Spec => []ContentInvariant` |
| `GatesKept` | `Spec => []GateInvariant` |
| `NothingRewritten` | `Spec => NothingIsRewritten` |

*Confirmations* (`ConfirmationsInv`): a request in flight holds a market that no other
holds, and a receipt names a window of its market; while that window is the current one, its
outcome is the winner. *Agent* (`AgentsInv`): at most one call acts, because it holds the
integration's row; leases are a finite set counted under that row. *Drafts* (`DraftsInv`): a
page shows a market at a revision and, at the same revision, the market is as shown;
approvals carry the text that was judged; a key's receipt names a market that existed.
*Catalogue* (`CatalogueInv`): a save in flight holds its market and knows who is featured
unless it raced. The proof corrected the model: a save that makes room re-reads the featured
market under its row's lock, and `MakeRoom` had kept what was read earlier. *Settings*
(`SettingsInv`): what each posting read, by its step. *Gates* (`AdmissionInv`): every
caller's step says which place and which connection it holds, so that the free ones and
those held add up; the places are cardinalities over callers, changed one at a time.

### Clients (`ClientsProofs`)

| Theorem | Statement |
|---|---|
| `TicketKeepsItsWord` | `Spec => []TicketInvariant` |
| `WebsiteTellsTheTruth` | `Spec => []WebsiteInvariant` |

*Ticket* (`TicketInv`): each preview in flight and each sheet was asked for a selection the
position allowed (`WireSound`, `ViewSound`), and a panel that is loading has a timer or an
answer coming (`PanelComing`). *Website* (`WebInv`): every row and every copy in a request
pairs a user with a token of theirs (`Owns`); while no save took another back, requests work
on the browser's row as it is (`Current`). *Forms* (`FormsInv`): stages of a form and of its
call, and an upload that may still be taken back is named by no row, no other form and no
other upload (`UploadsApart`).

### What stays with TLC

* Liveness (`AuditsCatchUp`, `MarketsReachTheirEnd`, `QueuesDrain`): fairness and ENABLED
  are out of the prover's reach.
* The two violated properties, of course.

## 5. What the checks found

Claimed by a run:

* **A second undo takes a payout back twice.** `_undo_resolved_market_predictions`
  (`market_lifecycle_engine.py` 661-684) debits the sum of all `prediction_payout` credits
  of the prediction and does not subtract earlier reversals. Resolve, undo, resolve, undo
  leaves the winner a net payout short (`SettlementDoubleUndo`). Up to one undo it is right
  (`PaidOnce`, proved).
* **One item can be credited twice.** `admin_reward_suggestion`, `admin_reward_feedback` and
  `admin_approve_wallet_recharge` check an unlocked row; two overlapping requests both
  credit (`QueuesDoubleCredit`). `QueuesCreditsBounded` bounds the damage.

Met while modelling; each is an exception stated in a property, or outside what is asked:

* *Settlement and wallets.* A position whose market was read while open may be committed
  after it closed (`main.py` 2648), against `docs/specs/contracts/market-lifecycle.md` 37.
  Overlapping manual debits overdraw (`main.py` 6407), bounded by `QueuesOverdraftBounded`.
  A converted suggestion may be converted again after a review or reward overwrote its
  status (`main.py` 7393).
* *Integrity.* An audit after an invalid checkpoint compares no head (`integrity_service.py`
  660), so a ledger that lost audited events is attested again, against
  `docs/specs/features/market-integrity-ledger.md` 94; from a valid checkpoint it cannot
  happen (`LedgerCheckpointsExtend`). A verification that a publication or second resolution
  overtakes reports an intact market as failed. Before a seal, removing a user's last
  prediction with its commitment leaves no trace in the market's records (the ledger has
  it).
* *Outboxes.* An exception outside the caught ones rolls a whole e-mail batch back: what it
  sent is sent again. A late push result overwrites a newer one. Overlapping registrations
  leave a phone active for two accounts.
* *Accounts.* A reset leaves open challenges and logins in flight alive. A second enrolment
  open at once may confirm a second factor. A deactivated account may be given a session by
  `mfa_verify`. The last superuser may delete the own account (`main.py` 8744), against
  `docs/specs/features/auth-and-session.md` 127. Two first social logins of one identity
  leave an account no social login reaches. A confirmation that a change of address crosses
  confirms an address nobody proved. A former operator's two requests get two opening
  balances.
* *Editorial.* Featuring a third market takes the flag off one whose approval includes it.
  Two saves that make room at once leave three featured. A legacy form whose slug changed
  hands by renaming saves over another market. A second resolution notifies nobody
  (`market_lifecycle_engine.py` 207).
* *Badges and agents.* Two concurrent comments may each miss the threshold they reach
  together, until a reconciliation. The attempts of a comment cycle are counted per agent
  (`agent_services.py` 490), while the documentation speaks of the cycle. The day's quota of
  positions is read once per cycle, so a cycle may pass it. A comment is written although
  its market closed, or a human commented, during the model's call. A limit of zero is read
  as unset.
* *Limits edited at run time.* Lowering the concurrent calls of an integration
  (`editorial_routes.py` 294), a quota of images or lengthening its period
  (`thumbnail_settings.py` 71), or a limit of the agents (`main.py` 6092, `forms.py` 303)
  takes nothing back: leases, jobs and comments of the day may exceed the new limit until
  they end or pass. A cycle that has begun goes on under the limits it read. The properties
  state what remains: nothing is added before there is room again.
* *Reputation and analytics.* A row that results were added to out of the order of
  `updated_at` differs from what an undo or a ranking by theme rebuilds, until it is
  rebuilt: the floor of 0 and the streak depend on the order. The revision of a listing does
  not see an erasure of recent raw events nor events received before it was opened. A
  request of an account that is being closed may insert the account's event again after the
  erasure. The dashboard takes events by their arrival, the history by their own day; the
  model takes both by their day.
* *Settings and gates.* Two overlapping saves share one temporary file: the file may be
  torn, which reads as the default. A stale save brings an older policy back. A call of an
  outdated build passes both gates if maintenance is switched on between them. The website
  says "try again" of a write whose outcome is not known.
* *Clients.* A profile update answered after a logout shows a user without a session; a slow
  restore overtakes a login. Two presses of the preview button stack two sheets. A switch
  may become a reinforcement under an open sheet when the market is read again. A form that
  still held a pruned picture of a badge posts it back. A deletion of an account that fails
  at the API signs the person out all the same.

## 6. Left to do

* `LockOrder`: the daemon's audit holds the ledger's lock and inserts alerts that refer to
  market rows; whether it can deadlock with a lifecycle handler is the one hazard no
  property covers.
* Not modelled: the order and columns of rankings, funnels and geography of the analytics,
  recomputed public metrics, integrity alerts as rows operators decide on, OAuth client
  registration, in-memory rate limits, profile fields, the app's enrolment of a second
  factor and its push synchronisation, deletion by age, operations scripts, and everything
  that only shows.
