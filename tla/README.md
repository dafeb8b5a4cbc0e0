# NotiFinance in TLA+

NotiFinance is a NestJS backend (`src/src/`) with a Next.js client
(`src/notifinance-frontend/`). Jobs fetch quotes, dollar rates and country risk, users
put price alerts on them, and an alert that fires becomes a notification in the
user's inbox, an email, or both. PostgreSQL (TypeORM) holds the tables, RabbitMQ the
queues, Redis the idempotency keys, the caches and the login counters.

This directory holds a model of the parts where that can go wrong in ways a unit test
hardly reaches, the TLC runs that check it on small instances, and theorems that the
TLA+ proof system checks for every instance.

Paths below are relative to `src/src/modules/` unless they begin with `src/`.

## 1. Inventory

```
cron jobs --> MarketDataService --persist--> quotes
                    |  market.quote|dollar|risk.updated
                    v
POST /events --> topic exchange --> alert-evaluation-queue ----> AlertEvaluationConsumer
  (Redis key)       ^      |          (nack -> dead letter)        |  load, trigger, save: alerts
                    |      |                                       |  <---- REST /alerts
                    +------|------------ alert.* ------------------+
                           v
                 notification-events-queue --> EventConsumer --> DispatcherService
                   (nack -> dead letter)          preferences -> template -> insert: notifications
                                                  -> email (3 attempts) || WebSocket + unread count
                                                                      ^---- REST /notifications
```

There is one backend process. Its concurrency is that of Node: code runs alone between
two `await`s and anything may run at an `await`. The two microservices of
`src/src/main.ts` (85-121) acknowledge by hand, set no prefetch and never requeue, so every
message that waits is handed over at once and all the handlers interleave; a restart
hands the unacknowledged ones over again.

| Component | State | Operations | What is hard | What makes it correct |
|---|---|---|---|---|
| **Alerts** (`alert/`) | table `alerts` | create, update, change status, delete (REST); evaluate (consumer) | rows are read, decided upon and saved whole across awaits; evaluate-all then publish-all; no transaction | an alert fires when it should and not again in its cooldown; what fired is announced; the user's limit; edits survive |
| **Ingestion** (`ingestion/`) | Redis keys, 24 h | POST /events | a key is taken before the request is known to be good, and outlives the process | an event goes out once; an event is not kept out; a good answer is kept |
| **Dispatch** (`notification/`) | table `notifications`, emails, unread count on screen | dispatch (consumer), read, read all, delete (REST) | two channels in parallel under `Promise.all`; retries; redelivery | nothing acknowledged is missing from the inbox; repeats are bounded; rows do not revert; the badge is right |
| **Preferences** (`preferences/`) | table `user_preferences` | read, upsert | quiet hours over midnight; read-then-insert upsert | a row is what the last save wrote |
| **Templates** (`template/`) | table of templates | compile, admin upsert | the same upsert | the same |
| **Queues** (`src/src/main.ts`, `RabbitMqTopologyService`) | messages | route, hand out, ack, dead-letter | redelivery after a restart | every message settles, once |
| **Quotes** (`market-data/`) | table `market_quotes`, caches, active assets | three refresh jobs, backfill, reads that store what they fetched, top movers, market status | chunks in parallel; slow answers after newer ones; a save, an event or a push that fails | what is announced was stored; clients end up with what is stored; kept answers are true |
| **Providers and health** (`market-data/`) | snapshots in the clients, `provider_health`, its summary | fetch with fallback, track, summarise, rank, clean up | overlapping fetches share a snapshot; bookkeeping fails around a call that succeeded | data is recent; an answer handed on is on record |
| **Rates and risk** (`market-data/`) | `dollar_quotes`, `country_risk` | two jobs, MEP/CCL job, reads that store | sources fail or are wrong one by one | a rate rests on two fresh quotes, and no single one decides |
| **Portfolio** (`portfolio/`) | portfolios, trades | record trade, delete; holdings, distribution, chart | the check of a sale and its insert are apart; prices come from many reads | holdings are never negative; the lots are FIFO; the views agree |
| **Watchlist** (`watchlist/`) | table, unique (user, asset) | add, remove | soft delete under a unique index; read-then-insert | what is listed stays until it is removed |
| **Auth** (`auth/`) | users, Redis login counters, demo account | register, login, refresh, seed, cleanup | INCR and EXPIRE apart; check before an await; seeding without a transaction | a lockout counts right and ends; a demo session is whole and keeps its user |
| **News** (`news/`) | table `news_articles` | the job: fetch, store, delete, announce | overlap of runs, retention against feeds that still list | an article is announced once |
| **WebSockets** (three gateways) | rooms | join, leave, emit | order of emissions; sockets of users who left | who is meant gets it, once |
| **Web client** (`src/notifinance-frontend/`) | session store, React Query cache, localStorage, forms, pages, sockets | sign in and out, renew, load, change, page, push | a renewal under way when the user changes; optimistic resets; pages that vanish; old sockets | the session is one user's; what is shown is what the server has; what was written is not lost |
| HTTP shell, configuration, migrations | - | - | - | - |

`PROJECT.json` lists each part with what is modelled of it ("components") and each hazard
at its line with the properties that cover it ("hazards").

## 2. Plan

Written, in the order of importance:

1. `AlertDomain`, `AlertEngine` - the alerts table and all its writers.
2. `AtLeastOnce` - what a consumer of a queue promises; `AlertEngine` and
   `NotificationDispatch` are shown to implement it.
3. `UserPreference`, `NotificationDispatch` - from the queue to the inbox, the mail
   provider and the badge.
4. `IdempotentIngestion` - POST /events.
5. The proofs: `AlertEngine_proofs`, `NotificationDispatch_proofs`, `Accounts_proofs`,
   `WebClient_proofs`, `ClientLists_proofs`, `Market_proofs`, `Ledger_proofs`, and `FoldLaws`,
   the laws of folds that the last two rest on.
6. `TradeLedger`, `PortfolioReads` - recording trades, the FIFO lots made of them, and what
   the user is shown of them.
7. Accounts: `LoginLockout`, `UpsertRows`, `WatchlistRows`, `DemoAccount`.
8. Market data: `QuoteProviders`, `ProviderHealth`, `QuoteRefresh`, `MarketHours`,
   `TopMovers`, `DollarRates`, `NewsFeed`.
9. The web client: `SessionClient`, `ClientCaches`, `ClientQueries`, `PagedLists`,
   `AlertForm`, `EntryForms`, `LiveClient`.

To come:

10. A composition of ingestion, evaluation and dispatch through the exchange, which gives
    `AlertEngine` its market events and `NotificationDispatch` its alert events.
11. Quiet hours against a circular interval over all bounded inputs, with a proof.

## 3. The modules and the code

In every module an action is the code between two awaits, a handler is a record with a
program counter (`pc`), and the failure of an awaited call is an action of its own, with
the effect of the call done or not when its answer can be lost. "map" in `PROJECT.json`
gives the lines of each definition. Definitions named `X_Something` next to `X`, marked
"Mutant of X", are plausible bugs and are used by no specification: they show that the
property listed with them can fail.

### AlertDomain, AlertEngine

`AlertDomain` is the entity (`alert/domain/entities/Alert.ts`): `Evaluate`, `CanTrigger`,
`Triggered`, and which event announces an alert (`EventOf`, from the consumer).

| State | Code |
|---|---|
| `db` | table `alerts`; a row keeps its `deletedAt` as `deleted` |
| `task[d]` | the handler of message `d`: `todo` the loaded rows of the loop, `write` the row being saved, `pending` the triggered list not yet published |
| `req[t]` | a REST handler and the row it will save |
| `now` | `Date.now()` in ticks; `Cooldown` ticks are 60 s |
| `version`, `fires`, `published`, `skipped`, `lost`, `raced`, `revived` | history, read by properties only |

`MarketEvent` -> `Load` -> (`PassOver` | `Trigger` -> `SaveTriggered`)* -> `Publish`* ->
`Ack`, with `LoadFails`, `SaveFails`, `PublishFails` to the dead-letter queue. REST:
`CreateCheck`/`CreateSave`, `UpdateFind`/`UpdateSave` (PATCH and status),
`DeleteFind`/`DeleteSave`, `RequestFails`. `Crash` restarts the process.

Abstractions. TypeORM's `save` of an entity with an id selects the row, compares, and
updates the columns that differ; two such saves of one row do not interleave further than
whole-row writes do, so `Write` writes every column but `deletedAt`, which the mapper
leaves out. Whether an asset exists does not change during a run: a create that finds none
is `RequestFails`. The order of the loop over loaded alerts is left open, which covers
every order the query gives.

### AtLeastOnce

The promise of a consumer that acknowledges by hand, never requeues and is handed its
unacknowledged messages again after a restart: a message settles once and for good, and
a unit of its work is done at most once for each time it may have been handed out.
`Contract` in `AlertEngine` maps a unit to an alert and its effect to a persisted trigger;
`Contract` in `NotificationDispatch` maps it to a notification row.

### UserPreference, NotificationDispatch

`UserPreference` is `preferences/domain/entities/UserPreference.ts`. `Channels`, the event
types and the minutes of a day are all that matters of a preference.

| State | Code |
|---|---|
| `inbox` | table `notifications`; the id names the message that made the row, so repeats can be told apart |
| `task[d]` | `DispatcherService.dispatchEvent` for message `d` and the preferences it read |
| `mail[d]`, `push[d]` | `EmailChannelAdapter.send` with its attempt, `InAppChannelAdapter.send` with its count; they outlive a rejected `Promise.all` |
| `mails`, `badge` | what the provider took, the unread count last emitted to a user |
| `unsure` | history: users whose inbox changed after the last count was taken |

`Arrive` -> `ReadPreferences` -> `Compile` -> `Persist` -> (`MailSent` | `MailFails`)* ||
(`CountUnreadAnswers` -> `EmitCount` | `CountFails`) -> `Acknowledge` or `Reject`;
`DispatchFails` and `AnswerLost` to the dead-letter queue. REST: `Find`, `SaveRead`,
`SaveDeleted`, `MarkAllAsRead`. Environment: `ChangePreferences`, `Tick`, `Crash`.

Abstractions. `EmailChannelAdapter.sendToProvider` is a stub that waits 300 ms; it is
modelled as the provider it stands for, which may refuse, or take the email and time out,
because the retry loop around it is there for that. Emitting the notification itself is
part of `Persist`: no await lies between. Templates are fixed during a run, their text is
left out. An update of preferences is one step here; `UpsertRows` takes it apart.

### IdempotentIngestion

`key` is the Redis key of an event id, which remembers (for the properties) who made it;
`req` a request between the interceptor and its answer; `routed` the requests whose event
the exchange took. `SkipKey`, `Claim`, `Duplicate`, `ClaimFails` are the interceptor,
`Refuse` the API key and validation, `Route`, `Accept`, `PublishFails` the publication,
`Release` the DEL of the error branch. The one Redis connection runs commands in the order
they were sent, so the DEL, though not awaited, comes before any SET NX sent later: it is
part of `Fail`. `Expire` may hit a request under way, as nothing bounds how long `emit`
waits for a broker that is away.

### TradeLedger

One portfolio. `trades` is its table in the order of insertion, `req[t]` a request between
`Open` (the portfolio is found), `Check` (a sale is covered, the date is not in the future,
a missing date is filled) and `Save`; `DeleteFind`/`DeleteSave` soft-delete the portfolio,
which does not stop a trade on its way. `Lots`, `Consume` and `Sorted` are
`HoldingsCalculator` over the order of dates; trades of one date come in any order the
query may give. A lot is known by its purchase, which stands for its unit cost; prices,
commissions and weights are left out. `sales` and `overtaken` are history.

`PortfolioReads` is a reading of the portfolio over that state of trades reduced to what is
held: `holdings`, `distribution` and `performance` each look up every paper, in stored rows
or with the provider, while quotes are stored, days pass and assets leave the catalogue.
One unit of each paper is held; papers are priced in any order.

### Compositions: MCTradeLedger, MCAccounts, MCMarket

These put components side by side that share no variable. A behaviour has a `focus` that
never changes, only the component in focus moves, and the others keep one initial state.
An invariant of a component speaks of its own variables only, so it holds in all behaviours
of the component exactly if it holds in the composition: nothing is lost by not
interleaving them, and one run checks them all. For the same reason `market` tells states
apart by the focus and the variables of the component in focus only (`FocusView`, the VIEW of
its configuration): all other variables keep the one initial value that goes with the focus. Where components do touch - dispatch and
preferences, the engine and market events - the input of one is left open in the other.

### Accounts

- `LoginLockout`: one email; `counter` and `lockTtl` are the two Redis keys with their times
  to live, `login[l]` a handler between single Redis commands. A handler may stop anywhere.
- `UpsertRows`: rows of preferences or templates; a save reads, inserts, or reads again and
  updates the columns that differ (TypeORM's `save`).
- `WatchlistRows`: the rows of one user, whose removal marks them as deleted.
- `DemoAccount`: the inserts of `DemoSeedService`, the token of a day, the cleanup job.

### Market data

- `QuoteProviders`: `fetchQuote` over data912, BYMA, Yahoo and Rava, with the snapshot,
  robots.txt and rate limit that all fetches share. Scores are left open, although at present
  `health_unknown` makes them all equal. The requests have one `Timeout` (8 seconds; 5 for
  robots.txt), except those to Yahoo, which have none; that the database saves the check of a
  request within that time is an assumption.
- `ProviderHealth`: `track` around a call, the summary with its cache, the ranking, the
  cleanup. Latency is left out.
- `QuoteRefresh`: the jobs by chunk and asset, GET of an asset's quotes, the backfill; a
  quote is known by the moment it was fetched.
- `MarketHours`: open or closed from a kept answer, next opening and phase from the clock.
  The server's clock is in Argentina's time zone; it starts at any moment of a week; a step
  is the time for which a status is kept.
- `TopMovers`: the two reads of the answer and the answer kept in Redis; rows of equal change
  come in any order.
- `DollarRates`: consensus of sources (one price stands for buy and sell; the median is
  doubled, to stay whole), risk, MEP/CCL, what is stored and pushed. Rows that are identical
  are one.
- `NewsFeed`: two instances run the job side by side; a URL has one date.

### The web client

- `SessionClient`: the store, the interceptors of `apiClient` with their queue, `useAuth`
  (which no page calls yet: the pages of login and registration put tokens of their own
  making into the store, `PageSignIn`). The answer to a login comes with or without a refresh
  token, as the demo account's has none.
- `ClientQueries`: React Query's entries of a list under two keys, with one change of the
  server's rows; `ClientCaches`: the copies in localStorage.
- `PagedLists`: the table of assets and the page of notifications; the order of rows does
  not matter, only how many a page has.
- `AlertForm`, `EntryForms`: dialogs and forms. The menus of the alert dialog show the item
  picked last; the threshold stands for channels, recurrence and period too. A ticker that is
  listed already is answered with its row, as a success.
- `LiveClient`: sockets by access token, the bell, prices over the watchlist, the dashboard.
  Inserting and emitting a notification is one step; what is emitted is on the wire until it
  comes, each on the socket of one token, and those of earlier tokens stay in their rooms. A
  ticker's quotes are numbered as they are stored: by a refresh, which pushes them later
  (`StoreQuote`, `EmitQuote`), or by who never pushes (`StoreSilently`). The load of the list is
  one of the latter: `getAssetQuotes` asks the provider, stores what it gets and answers it
  (`LoadFromProvider`), or answers the rows when that fails (`LoadFromRows`). An answer without
  any closing price, which the page shows as zero, is left out. The page may be closed and
  opened again, and its market socket lost.

## 4. What is checked

Twelve runs; a `violation` run checks one statement of the repository's documents or seed
data that the code does not keep.

| Run | Instance | Properties |
|---|---|---|
| `alert_engine` | 1 alert, 2 messages, 1 request, 3 instants, cooldown 2, 1 restart | `TypeOK`, `RepeatNeedsStaleRead`, `FreshSavesCompose`, `ImplementsAtLeastOnce`, `EveryMessageSettles` |
| `alert_quota` | 3 alerts, limit 2, 1 message, 2 requests, 1 restart | `FiresAccounted`, `LimitHoldsUnlessRaced` |
| `alert_limit` | as `alert_quota` | violated: `ActiveLimit` |
| `alert_percent` | 1 percentage alert, 1 quote | violated: `PercentAlertsMeetPercent` |
| `dispatch` | 2 messages with one event, 2 attempts, 1 request, 1 restart | `AckMeansRecorded`, `RepeatsNeedRestart`, `BadgeTrueUnlessOvertaken` |
| `dispatch_settles` | 1 message, 2 attempts, 2 requests, quiet hours, 1 change of preferences, 1 restart | `TypeOK`, `InboxNeverReverts`, `ImplementsAtLeastOnce`, `EveryMessageSettles` |
| `dispatch_twice` | 1 message, 1 restart | violated: `OneNotificationPerEvent` |
| `accounts` | 3 logins (limit 3), 2 saves of a row of 2 columns, 4 watchlist requests on 2 assets, 1 demo account over 3 days, 2 calls and 2 sign-ins, 2 saves of the alert dialog, 2 presses in the forms, 3 requests for 2 events with 1 restart | `AccountsTypeOK`, `LockoutHolds`, `RowIsLatestSave`, `ListedUnlessRemoved`, `SessionsSeeded`, `TokensHaveUser`, `SessionIsUsers`, `FormsKeepWord`, `OncePerKey`, `GoodAnswersKept`, `KeysHaveReason`, `EveryCallSettles` |
| `market` | 2 fetches, 2 sites, 2 quote runs on 2 assets, 91 steps of the market's clock, 2 requests for movers among 2 shares, 2 calls for rates, 2 instances of the news job on 3 articles, 2 loads, 2 keys of a list, 5 assets and 5 notifications in pages of 2, 2 users and 2 tokens of the bell, 3 stored quotes | `MarketTypeOK`, `QuoteDataRecent`, `HandedOnIsOnRecord`, `QuotesReachClients`, `KeptAnswersTrue`, `OneQuoteCannotMove`, `RecentNewsOnce`, `SeenPartsStay`, `ListsAreTrue`, `LiveIsTrue` |
| `live_dollar` | 1 user, 1 push | violated: `PushesAreShown` |
| `health_unknown` | 2 sites, 1 call | violated: `HealthIsKnown` |
| `ledger` | 4 requests, 2 assets, quantities 1 and 2, 2 dates; 1 paper over 3 days | `LedgerTypeOK`, `SolventUnlessOvertaken`, `LotsAreLatestPurchases`, `PortfolioShowsTrades` |

What the properties say:

- `RepeatNeedsStaleRead`: cooldown and one-shot hold between a trigger and any decision
  taken on the row that trigger left. The code promises no more: two overlapping messages
  do fire an alert twice, and so does an edit that writes back a row it read before.
- `FreshSavesCompose`: when a save's row was read at its present version, the engine's save
  leaves the owner's columns alone and the owner's leaves `lastTriggeredAt` alone.
- `FiresAccounted`: every trigger in the table is announced, has no event, is in its
  handler's list, or is lost, in exactly one of these ways, and loss needs a restart or a
  dead letter.
- `LimitHoldsUnlessRaced`: the limit on active alerts is only passed by creates that
  overlap or by writing ACTIVE over another status; `ActiveLimit` is the documented rule.
- `ImplementsAtLeastOnce`, `EveryMessageSettles`: the contract of section 3, and liveness.
- `AckMeansRecorded`: what is acknowledged is in the inbox of the user it names, or was
  discarded as that user has no preferences; no email without its row.
- `RepeatsNeedRestart`: at most `maxAttempts` emails of a message for each time it was
  handed out, though the email channel outlives the rejection of `Promise.all`.
- `BadgeTrueUnlessOvertaken`: the unread count on screen is right unless the inbox changed
  since it was taken, or an older count overtook it.
- `InboxNeverReverts`: deleted stays deleted, read stays read, whoever interleaves.
- `OncePerKey`: one publication of an event, plus one for each expiry of its key and each
  request that failed after the exchange took it.
- `GoodAnswersKept`: an event whose requests were all answered "accepted" or "duplicate" is
  in the exchange, although "duplicate" is said while the first one is still working.
- `KeysHaveReason`: a key without a live or successful request was left by a restart, by a
  DEL that failed, or by a SET NX that failed after all.
- `SolventUnlessOvertaken`: an asset is overdrawn only if a sale was inserted after another
  one that its check did not see.
- `LotsAreLatestPurchases`: the reference definition of FIFO: what is left are the latest
  purchases, all whole but the oldest, also when a sale found less than it asked for.
- `PortfolioShowsTrades`: the lots add up to purchases less sales (`HoldingsShowNet`), although
  the check of a sale runs in the order of recording and the lots in that of the dates,
  unless a sale is dated no later than a purchase recorded before it, or was overtaken; and
  the chart of a period ends at the value of the holdings (`ChartMeetsHoldings`), unless quotes
  changed between the two reads or the latest is older than the period.
- `LockoutHolds`: a failed login counts for no longer than the lockout time, unless the EXPIRE
  after an INCR came late or never; and an account that is open has had fewer wrong guesses
  than the limit, unless a login stopped between commands, took a tick to write, or a success
  cleared the keys meanwhile. Guesses sent side
  by side do all get through the check: each is written down, so the lock comes in the end.
- `RowIsLatestSave`: a row is what the last save wrote, but for an update that read it
  before another changed it.
- `ListedUnlessRemoved`: an asset that a request was told is listed stays so until removed.
- `SessionsSeeded`, `TokensHaveUser`: a demo session finds what is seeded, and keeps its
  user as long as its token lives, unless seeding took as long as a tick of the clock.
- `SessionIsUsers`: the tokens of the client's store are those of its user, unless another
  user's session began while the `refreshToken` of `useAuth` was under way; and the user is who
  signed in last or nobody, unless somebody signed in or out while a renewal was on its way.
  `EveryCallSettles`: no call waits for ever in the queue of a renewal.
- `FormsKeepWord`: an edit that the page calls saved is what the form showed, unless it was
  pressed again on the reset form; and what was written stays until the server has it.
- `QuoteDataRecent`: behind a quote is data asked for within the life of a snapshot and one
  request, unless it is a quote of Yahoo. `HandedOnIsOnRecord`: an answer that was handed on has
  its success on record for as long as checks are kept, and no failure.
- `QuotesReachClients`: no event or push tells of a quote that was never stored, and clients
  end up with the stored one, unless a run that never pushes stored it or runs overlapped.
- `KeptAnswersTrue`: the opening that is named is the next one, however old the kept status;
  the movers shown were first in the last changes on record, though a later row may have
  none and assets may be deactivated between the two reads.
- `OneQuoteCannotMove`: a rate rests on two fresh quotes, and of three or more no single one
  takes it out of the range of the others. `RecentNewsOnce`: a dated article is announced
  once while it is within the retention.
- `SeenPartsStay`: a load of the dashboard or of an asset never replaces a kept part by an
  older one or by nothing. `ListsAreTrue`: a list that passes for fresh shows the changes its
  user was told of, and a page with rows is shown while there are any; the page of
  notifications may get lost when rows go, until the user turns it.
- `LiveIsTrue`: a notification pops up once and before its user only, also when it comes after
  a token was renewed or somebody else signed in (`ToastsAreOwn`); once what the refreshes stored
  was pushed and has come, the open watchlist shows the latest of it, or the loaded price if
  nothing was refreshed, unless that push was lost or came before an older one, and a newer
  loaded price that stays hidden is one that nobody pushes (`PricesCatchUp`); and the bell is its
  user's until a second one signs in (`BellIsOwn`).

The five violations: the limit of 20 alerts (requirement C-004) can be exceeded; a
percentage alert is compared with the price and then announced as a percentage; an event
handed out again makes a second notification, where the integration rules ask for an
inbox pattern; the dashboard takes the object that is pushed for the list of the rates and
fails; and the summary of provider health drops every row, as the driver returns numbers
where the repository expects strings. Each is quoted with its lines under "findings".

**Bounds.** Races here are of two actors (two handlers, a handler and a request, two
requests) over one row, so two messages or two requests and one row show them; three
alerts are needed only to pass a limit of two, three logins to pass a limit of failures with
guesses side by side, four requests on the watchlist to add and remove one asset twice. Four
trades are the fewest in which a sale that found too little lies between two purchases and
another sale follows. One restart is enough to hand a message out twice and to lose what a
handler remembers. The cooldown of two ticks lets a second trigger come before, at and after
its end; other times to live are one or two ticks for the same reason. `MaxAttempts` is 2
instead of 3: first, last and no attempt in between; the bound enters `RepeatsNeedRestart` as
a factor. A day of one or two minutes has quiet hours that pass midnight; the market's day
has twelve steps with an opening, a closing and an end of the runs that fall on different
ones, and its clock runs for a week and a few hours from any step of the week. Two rates, 1
and 9, are within and beyond the deviation that is allowed. Pages of two rows over five show
a full, a last and a vanished page. Every bound is a constant named in its module; they make
runs end, which is why `CHECK_DEADLOCK` is off: a state without a successor is one where
everything was sent and settled.

**Symmetry** is used in runs without liveness or refinement only, on sets that no property
orders (`MC*.tla`).

**Fairness.** `FairSpec` asks weak fairness of each message's handler (`Handle(d)`) and of
nothing else: Node runs a continuation whose promise settled, a query or a timer settles
or fails, and the broker hands out what waits. Requests, market events, preference changes
and restarts may never come. `Trigger` and `MailFails` do not repeat for ever because the
loaded list shrinks and the attempts are counted. `SessionFairness` asks the same of a call
of the client that was sent (`Settle(c)`). For the calls through `apiClient` the code gives the
reason, a timeout of 15 seconds (`api.ts:9`); the request of `refreshSessionToken` is a plain
`axios.post` without one (`api.ts:31`), so that a renewal ends is an assumption on the network:
while it hangs, the queue waits. The user need not act, and tokens need not expire.

## 5. What is proved

Forty-five theorems, each for every value of the constants that satisfies the assumptions of the
modules. An assumption is named in the module that declares the constants (`DomainAssumption`,
`EngineAssumption`, `DispatchAssumption`, ...) and says no more than that null is none of the
values it is distinguished from, that sets of ids are finite where something is counted, that
bounds are numbers, and, where the code has it, how constants relate: a rate's type is not one
of the calculated ones or the risk (`RatesAssumption`), a page has a row (`ListsAssumption`).
Where a variable is bounded by a last tick, day or step, the assumption says that it begins
within the bound. TLC evaluates them all.

Every invariant and every action property that a passing run checks is a theorem; only liveness
is left to TLC. Each is argued by one lemma for the initial states and one for the steps, with a case
for each action; steps that touch nothing a conjunct reads share a lemma (`QuietStep`,
`SilentStep`, `QuietMove`, `OthersKeep`).

**The engine and the queue** (`AlertEngine_proofs`)

- `TypeCorrect`: `Spec => []TypeOK` of `AlertEngine`. `TypeOK` alone is not inductive: a
  save reads the row it overwrites, so `TypeInv` adds `SavesStored`, that whatever a
  handler or a request is about to save has a row.
- `RepeatsAreStale`: `RepeatNeedsStaleRead`. `FireInv` adds the chain of versions: versions
  read and written lie in the past (`ReadsPast`), a row (or a copy) at the version a fire
  wrote still has that fire's `lastTriggeredAt` and status (`RowsAsLeft`, `CopiesAsLeft`),
  and a decision taken on such a copy respected them (`DecisionsRespect`, `OneShotsSpent`).
- `NoFireUnaccounted`: `FiresAccounted`. `AccountInv` says for one trigger at a time where
  it is (`Accounted`) and that a handler's list holds its own triggers (`ListsOwned`).
- `AtLeastOnceImplemented`: every step of `AlertEngine` is a step of `AtLeastOnce` or a
  stutter under the mapping of `Contract`. `ContractInv` adds to `FireInv` that a handler
  holds an alert once (`HoldsOnce`) and that the triggers of an alert it may still persist
  and has persisted fit the number of times it was handed out (`OncePerHandOut`).
- `SavesCompose`: `FreshSavesCompose`, an action property. `CopyInv` adds to `FireInv` that what
  a handler or a request holds at the present version of a row is that row (`HoldsCopies`,
  `HoldsEdit`), that rows' triggers lie in the past (`RowsPast`), and that owners never change.
- `LimitKept`: `LimitHoldsUnlessRaced`, however many alerts, users and requests. `CreatesAlone`
  says of a user who neither raced nor revived that one create at most is past the check and
  that there is room for what it inserts.

**Dispatch** (`NotificationDispatch_proofs`)

- `TypesHold`: `TypeOK`, with who a message was routed to, that a channel rests unless its
  message was saved, and that what a request found is stored.
- `RecordedBeforeAcknowledged`: `AckMeansRecorded`. `RowInv`: the rows of a message are numbered
  without gaps, one for each time it was handed out at most, tell what the message tells, and
  are there as soon as anything depends on them (`NeedsRow`).
- `EmailsBounded`: `RepeatsNeedRestart`. `MailInv` bounds what the provider took by
  `MaxAttempts` for each restart so far (`Budget`), and by the attempt that runs.
- `BadgeIsTrue`: `BadgeTrueUnlessOvertaken`. `BadgeInv`: a count that waits to be emitted is the
  true one, and if none waits the badge is; the escapes are what ends either.
- `InboxKeepsWord`: `InboxNeverReverts`, step by step (`Rewritten`).
- `AtLeastOnceImplemented`: every step is one of `AtLeastOnce` or a stutter, which needs
  `RowInv`: an insert makes the next row of its message, and none beyond its hand-outs.

**Ingestion** (`Accounts_proofs`)

- `EventsGoOutOnce`, `KeysAreBacked`, `GoodAnswersAreKept` of `IdempotentIngestion`. `IInv`
  bounds the live publications of an event (`LiveBound`: none beyond one for the key and
  one for each expiry), ties "accepted" to the exchange (`AcceptedRouted`), the exchange to
  requests that passed the checks (`RoutedPassed`), the history of left-over keys to
  failures (`LeftoverFailed`) and "duplicate" to the request it duplicates
  (`DuplicateFollows`).

**Accounts** (`Accounts_proofs`): handlers that write without a transaction,
any number of which overlap.

- `WatchlistKeeps` (`ListedUnlessRemoved`). Beside the types it needs that a handler past its
  first read acts on an asset of the catalogue. An insert is refused by the unique index when
  there is a row, a removal marks the row of its own asset only, and "listed" and "removed" end
  a request: so a row that leaves "live" has its witness, which stays.
- `RowsHoldLatestSave` (`RowIsLatestSave`). `SavesKnowRow` strengthens it: rows are never
  deleted, so what was found is there when `save` reads it again. The lemma `UpdateWritesAll`
  says that the columns in which a request differs from a read, written over that same
  row, give what was sent; it is cited when the row is still what was read, and the key is
  torn otherwise.
- `DemoSeeds` (`SessionsSeeded`). `SoFar` says, for each loop of the handler, which seeds are
  made or were skipped by the time it is in it; a turn of a loop moves one item from what is
  left to one of the two, and the token is issued when nothing is left. `OthersKeep` settles
  the other calls. It assumes that `Day` is a natural number.
- `DemoMakesOnce` (`DemoTypeOK`): no item is both made and skipped, and no token outlasts the
  clock by more than a day. A call makes only items of the loop that it is in.
- `DemoUsersOutliveTokens` (`TokensHaveUser`). `UserOutlives`: a call that no tick has passed
  made its user just now, and the token ends with the day of its user, whom the cleanup job
  keeps for as long.
- `LockoutProtects` (`LockoutHolds`). `CounterInv`: the age of a failure that counts and the life
  left of the counter add up to no more than `Lockout`. `GuessInv`: a guess since the keys were
  last cleared is in the counter or in a login that is yet to count it, and a counter at the
  limit has a login on its way to lock.
- `AccountsTyped` (`AccountsTypeOK`) and `AccountsHold`: the types of all parts and the ten safety
  invariants of the run, as theorems of the composition. By `EachPartRuns`, a behaviour of
  `AccountsSpec` is one of each component's own specification: its initial states are theirs,
  and a step moves the component in focus and leaves the variables of the others.

**The web client** (`WebClient_proofs`, `ClientLists_proofs`)

- `SessionKept` (`SessionIsUsers`), for any number of calls and tokens. `RenewalInv`: one renewal
  runs at a time, with a token of the user it runs for, who signed in last. `OwnRefresh`:
  `refreshToken` was sent by the user the store has. Each has the escapes of the property.
- `FormsKept` (`FormsKeepWord`, of two components). `EditInv`: as long as an alert's form was not
  reset, one press at most is on its way and carries what is shown; that needs the names
  and menus to agree with the row (`NamesKnown`, `MenusAgree`). `EntryInv`: an entry is what
  was written or empty, and a pending one carries what was written.
- `LiveTold` (`LiveIsTrue`). `BellInv`: what the bell has, and what is on the wire, is of users it
  was opened for; what is on the wire of the present socket is its user's and was not heard yet
  (`WireInv`). `QuoteInv`: unless its push was lost or overtaken, the latest refreshed quote is
  yet to be pushed, or the last on its way, or what the page has (`Reaches`); and every quote that
  was stored after it is one that nobody pushes (`Accounted`).
- `SeenPartsKept` (`SeenPartsStay`). `CachesInv`: as long as nobody wrote to the store since
  a load began, the store has nothing newer than that, and the dashboard's load holds all of it.
- `ListsKept` (`ListsAreTrue`, of two components). `QueriesInv`: an entry that was not cleared and
  is not stale shows every change its user was told of (`ShowsConfirmed`). `TableInv`,
  `InboxInv`: the page is not beyond the last; `PagesReach`, `PageHasRows`, `ArrowsLead` are the
  arithmetic of pages for every page size.

**Market data** (`Market_proofs`)

- `NewsToldOnce` (`RecentNewsOnce`). `NewsInv`: what was announced and is recent is stored, so no
  run finds it new; what a run stored itself is in no other's list.
- `QuotesAreRecent` (`QuoteDataRecent`). `ProvidersInv`: a snapshot dies within `Timeout +
  SnapshotTtl` of being asked for, and a request that has a timeout is no older than that.
- `ChecksAreKept` (`HandedOnIsOnRecord`). `HealthInv`: a check is of a call that ended, and the
  check of a call that was handed on is a success and stays while the cleanup keeps it.
- `RatesHold` (`OneQuoteCannotMove`). `AgreedSound` is the heart: the median that the consensus
  answers, for any finite number of sources, rests on two fresh quotes at least, and on three
  or more lies between the second lowest and the second highest. It needs `Extremes`,
  `NthIsThere` and `NthRises` about the n-th lowest of finitely many quotes, of which some may
  be equal. `RatesInv`: every row that is stored, held or shown is sound.
- `QuotesArrive` (`QuotesReachClients`). `DebtInv`: of an asset that no run stored without
  pushing and no two runs handled at once, one run at most has a quote yet to push, that quote is the
  latest, and if there is none the clients show the latest. `RunInv` says for each step of a
  run what is left, stored and announced; `AnnouncedWasStored` follows it.
- `OpeningToldRight` (`OpeningIsNext`), for any length of a day in steps and any opening and
  closing. A moment is a day times its length plus a time of day; from there the weekday of
  the next opening, at most three days away, is a case of seven, and two moments that are both
  the first opening after a third are the same, so the `CHOOSE` of `Opens` is the one the code
  adds up. `HoursInv` ties a kept status to a moment at which it was true.
- `MoversToldRight` (`MoversWereTrue`). A sorted list cut at the size of the answer, read from either
  end, has the first of the rows (`RanksAreFirst`), and leaving out the shares that are no longer
  listed keeps order and distinctness. `MoversInv` says so of what a request found, of what is
  kept and of what is shown; `DaysKept` that rows once read are still on record.
- `KeptAnswersHold` (`KeptAnswersTrue`) is the two together, in the composition.
- `MarketTyped` (`MarketTypeOK`): the types of every part. Some take more than the types: that the
  summaries a reader of `ProviderHealth` holds have states there are, and a ranking has every
  site (`HealthTypes`, `RankingHasAll`), that a run of quotes dates what it stores
  (`QuotesTypes`), that a call for rates holds one row of a type at most (`RatesTypes`), that a
  run of the news holds one item of a URL (`NewsTypes`).
- `MarketHolds`: the theorems above and those about the client's lists, as theorems of
  `MarketSpec`, by `EachComponentRuns`.

**Portfolio** (`Ledger_proofs`, `FoldLaws`)

- `FoldLaws` has what the folds of the community modules compute, for every list: the fold over
  nothing is the base, and the fold over a list with one more element is one step more
  (`FoldedLaws`, `FoldIs`). Induction over the length of a list is stated for a set of numbers
  that has 0 and with each number the next (`AllNumbers`, `AllLists`), by the well-foundedness of
  the order of numbers, since the induction theorems of the library cannot be instantiated.
- `NoOversale` (`SolventUnlessOvertaken`). `Solvent` strengthens it: of an asset that was not
  overtaken every prefix of the trades is covered (`NeverShort`), and a request that was checked
  and not overtaken asks for no more than there still is.
- `LotsFollow` (`LotsAreLatestPurchases`). `Latest` is the property for a prefix of the sorted
  trades; a purchase keeps it (`BoughtIsLatest`), and so does a sale (`SoldIsLatest`), as what
  `Consume` leaves is its list cut at one place (`ConsumeCuts`), also when it finds too little.
- `HoldingsAgree` (`HoldingsShowNet`). Where no prefix of a sorted list is overdrawn, the lots hold
  what the list nets (`HeldIsNet`). That sorting overdraws no prefix is `SortedNeverShort`: a
  prefix by date has, of the trades up to its last sale in the order of recording, all purchases and
  no more sales, which is a sum over a set of places (`SumAtLeast`, `SumOfPrefix`).
- `ChartEndsAtHoldings` (`ChartMeetsHoldings`). `ReadsInv`: a paper whose quotes nobody changed since
  it was priced is charted by the row that gave its price (`WhilePricing`, `WhileCharting`), so what
  is carried to the end of the chart is that price (`ChartDrawn`).
- `PortfolioIsShown` (`PortfolioShowsTrades`), `LedgerTypes` (`LedgerTypeOK`), `LedgerHolds`: the same of
  the composition, by `EachOfBoth`.

**What proving changed.** The first form of `SessionCoherent`, which its run had passed, was not
an invariant: three calls and three tokens, more than the run has, bring the store the tokens
of one user under the name of another by way of a renewal that began in the old session. It now
has the history `mixed`, and holds for any number. In the other direction, `LockoutHolds` no
longer excepts logins that stop when it says that failures are forgotten: the proof did not need
it. `RowAssumption`, `NoRowAssumption` and the line of `RatesAssumption` above were used before
they were stated, and so were the bounds that a clock begins within: a demo token may live to
`MaxDemoTime`, a week of the market's clock fits its last step, checks are kept for less than the
last tick, the first day is not beyond the last.

Some definitions were sharpened. `OpeningIsNext` had an exception that the proof did not need. `ByChange` ordered rows of equal change in one way, though the
query promises none: it is now every order that descends. `Ranked` was computed by sorting;
it is now the order in which each site outranks those after it, of which there is exactly one, as
sites of equal score are ordered by their place. `LotsAreLatestPurchases` now says of the lots
themselves what they are: in order, without a gap, whole but for the oldest.

**Only model-checked.** Liveness (`EveryMessageSettles`, `EveryCallSettles`): the prover has no
fairness. And the five violations, which are counterexamples.

## 6. What is not modelled

- Formulas: bonds and fixed income, weights and returns of a portfolio, the calculators of
  the client. They are arithmetic on real numbers.
- The read-only endpoints that only select and map (listings, statistics, search), text
  (templates, emails, mentioned tickers, parsing of pages), logging, exception mapping,
  configuration, migrations beyond the indexes and defaults that are used.
- Rendering. The command palette of the client is among it: it reads `symbol` and `type` of
  search results that have `ticker` and `assetType` (`CommandPalette.tsx:75`), which no
  state machine is needed to see.
- More than one backend process, except for the news job: the deployment files start one.

What the models show in passing and no property promises, because no document says what
should happen: a one-shot alert that its user reactivates can never fire again (`Alert.ts:64`);
the dollar job publishes events that no alert is evaluated on, as they carry no price
(`MarketDataService.ts:589`); a trade whose answer was lost is recorded twice when it is tried
again (`TradeService.ts:83`); preferences that change while a message is dispatched do not
reach it (`DispatcherService.ts:32`); two waiting requests to Rava leave together, whatever
its rate limit (`RavaScraperClient.ts:257`); an asset removed from the watchlist can never be
added again (`WatchlistService.ts:39`); the settings, the forgotten password and the buttons
of an asset's page say that something was done when nothing was sent (`EntryForms`); on the open
watchlist a price that was pushed hides a newer one that a load stored and brought
(`watchlist/page.tsx:38`), and pushes that were lost while the connection was down leave the older
one there; a notification that comes on the socket of the token before is heard by nobody
(`NotificationBell.tsx:56`); a quote of Yahoo is dated after its answer, however long that took
(`YahooFinanceClient.ts:32`).
