# A TLA+ verification of tradele

tradele is a paper-trading game. A player sends one batch of orders a day; every
hour a job fills the orders that the hour's prices allow, and records what every
portfolio is worth. The server is a FastAPI application (request handlers run in a
thread pool) over one SQLite database, with the job running in threads of the same
process; the client is a React application. Paths below are relative to the root of
the repository.

## Inventory

| part | code | state | operations | how it interacts | what is hard | what makes it correct |
|---|---|---|---|---|---|---|
| order fill rules | `app/services/trade_execution_service.py` 125-448 | none: a portfolio in, a portfolio out | six `_try_execute_*` | called once per trade and hour | rounding, gaps over a stop, order of checks | no overdraft, honest prices, values kept |
| trade execution job | `trade_execution_service.py` 59-123, `app/jobs/trades_and_portfolio_update_job.py`, `portfolio_service.py` 44-83 | local variables of a run | fast-forward every user hour by hour, then save every user's state | reads and writes four tables, one connection at a time | overlapping runs, crashes, exceptions, cancellations in between | portfolio and closed trades agree; no hour skipped or repeated |
| database | `app/services/database_service.py` | `_active_connection`, SQLite's lock | `connect`, `transaction`, `run_migrations` | every repository call | the attribute is shared by all threads | a transaction is atomic |
| trade repository | `app/repositories/trade_repository.py` | `active_trades`, `historical_trades`, `trade_submissions` | insert, cancel, move, record | job and requests | the same trade closed twice | a trade is open or closed once |
| portfolios | `portfolio_repository.py`, `portfolio_service.py` | `portfolios`, `portfolio_states` | get or create, update, record state | job and `GET /portfolio` | stale or early snapshots, creation races | one honest state per hour |
| trade submission | `trade_submission_service.py`, `app/routers/trades.py` | local variables of a request | validate, check the day, insert, cancel, record | trade repository | four kinds of transactions in a row | one batch a day, answers that are true |
| scheduler | `app/jobs/job_scheduler.py` | task table | start, stop, trigger | starts runs | runs beside runs; table changed while iterated | jobs repeat; nothing starts after stop; the process ends |
| market data | `market_data_service.py`, `market_data_repository.py`, `alpaca_market_data_client.py` | `market_data_cache` | range queries, fetching what is missing | job and `GET /market` | confirmed-missing entries, a moving last hour | never caches an unfinished hour |
| migrations | `database_service.py` 86-175, `app/migrations` | schema and its version | run at start-up | before everything else | crash within a script, or between script and version | served only on the latest schema; no trade lost |
| API keys | `api_key_service.py`, `service_account_creator.py`, `authentication_service.py` | `api_keys` | create, deactivate, authenticate | requests, start-up | cross deactivation, predefined keys | an owner keeps an active key |
| signing keys | `auth_service.py` | two files, two attributes | generate or load, sign, verify | requests | threads generating at once | issued tokens verify |
| client session | `frontend/src/api/client.ts` | `localStorage`, one promise | request, bootstrap, retry | every call of the client | two tabs | one user per browser |
| client data | `frontend/src/services`, `hooks/useAsync.ts`, `screens/MarketScreen.tsx` | memoised promises, drafts | load, reload, submit | client session | stale answers, drafts cleared in flight | what is shown is the latest asked for |

Tutorials, settings, DTOs, rendering and the read-only endpoints keep no state whose
changes could go wrong together; see "Not modelled".

## Modules

| module | role |
|---|---|
| `OrderFill` | the fill rules as operators, and one portfolio that any orders are tried against |
| `OrderFillProofs` | theorems about `OrderFill`: solvency, honest fills, kept values |
| `HourlyAccounts` | abstract: what the job promises a player; an hour of a user is one step |
| `TradeExecution` | runs of the job against requests, over the shared transaction attribute; implements `HourlyAccounts` when runs do not overlap |
| `TradeExecutionProofs` | theorem about `TradeExecution`: types |
| `TradeExecutionSafety` | theorems about `TradeExecution`: no trade closes twice, every fill is executed |
| `TradeExecutionAccounts` | theorems about `TradeExecution`: closings are of passed hours; without overlap it implements `HourlyAccounts`, and what follows |
| `TradeProgress` | `TradeExecution` under fairness: runs end, users catch up, orders close |
| `TradeSubmission` | batches of orders, one action per transaction |
| `TradeSubmissionProofs` | theorems about `TradeSubmission`: types, true answers, one closer per trade, one batch a day in turn, a recorded day that only moves on |
| `MarketHours` | hours, clock and latency, shared by the next two |
| `MarketOracle` | abstract: market data without a cache, answered in one step |
| `MarketData` | queries over the cache and Alpaca; implements `MarketOracle` |
| `MarketDataProofs` | theorems about `MarketData`: types, nothing cached too early, it implements `MarketOracle` |
| `Migrations` | the migration runner and its scripts |
| `ApiKeys` | the service account's keys: start-up and requests |
| `ApiKeysProofs` | theorems about `ApiKeys`: types, a key remains and is held, a deactivation stands |
| `SigningKeys` | the key pair of access tokens, file access by file access |
| `JobScheduler` | the scheduler's tasks on the event loop |
| `Server` | composes `Migrations`, `ApiKeys`, `SigningKeys` and `JobScheduler`: one process after another, over what outlives them |
| `ServerProofs` | theorems about `Server`: types, tokens accepted, nothing starts after stop, no trade lost, served only when started and on the latest schema |
| `MCOrderFill`, `MCTradeExecution`, `MCTradeProgress`, `MCTradeSubmission`, `MCMarketData`, `MCApiKeys`, `MCServer` | values for TLC |

### OrderFill

Quantities are thousandths of a share, the grain `_value_to_quantity` rounds to, and
money is counted so that quantity times price is an integer. `Result` gives the
checks of a `_try_execute_*` function in their order; `Triggered`, `SizingPrice`,
`FillPrice`, `Affords` and `Settled` are what the six functions differ in. The machine tries any
order against any window. What is abstracted:
binary floats (the program computes with them, so its amounts carry rounding errors
that are not modelled), the other symbols' holdings (copied unchanged), and `close`
(no fill rule reads it). Prices, quantities and values are positive, as `TradeInput`
demands; combinations `_validate` refuses (both or neither of quantity and value, no
price) are kept, because the fill functions answer them with `malformed_request`.

### TradeExecution

Each action of a run is one `with connect()` block or the code between two.
`job[r]` is the run's program counter and local variables (`left`: users still to be
visited, `upto`: end of `enumerate_range`, `todo`: trades still to be tried, `base`:
the computed portfolio, `closings`: trades still to be moved). The tables have the
database's names.

* A portfolio is the set of fills `<<trade, hour>>` its cash and holdings come from,
  so that "the portfolio reflects the trade" can be said; `last` is
  `last_hourly_update`. `born` is the hour the row was inserted, kept for the
  properties only. What a fill does to the money is `OrderFill`'s subject. The fill
  rules enter as the constant `Outcome(trade, hour, fills)`.
* `activeConn` is `DatabaseService._active_connection`, named by the run whose
  transaction it is. `connect()` opens a connection of its own when it is `None`,
  joins when it is the run's own, and raises when it is another thread's (`sqlite3`
  refuses a connection used by a thread that did not create it).
* `pending[r]` are the uncommitted writes of the run's transaction. A connection takes
  SQLite's write lock with its first write; another writer waits, and may time out
  (`WriteLockTimesOut`).
* `__exit__` commits, then clears the attribute: one action, as nothing of the program
  runs between that another thread could tell apart from running before or after,
  except the short moment in which a connection is committed but still shared. `COMMIT`
  itself is taken not to time out.
* A request that meets another thread's transaction answers 500 and changes nothing:
  it is a step that does not happen.
* `User` are the users there will ever be. One that has no row in any table may not
  have registered when a run lists the users, and be there when it saves states.
* The clock is in hours; `settled` tells whether the 16 minutes of
  `last_passed_hour` are over.
* `Crash` may come at any time and loses all that is not committed.

### TradeSubmission

A request reads the date, validates, checks the day, inserts each trade, cancels each
trade and records the submission, one transaction each. `at` is the `now` read after
the check; `date` the hour read by the router. A batch is valid or invalid as a
whole: the wording of the refusal does not matter to any property. `Raises` ends a
request anywhere (another thread's connection, a locked database, a crash): what it
has committed stays. `JobCloses` is the job, seen from here. `overlapped` remembers
the users who had two requests in progress; only a property reads it.

### HourlyAccounts

The same tables without threads, connections and exceptions. `ExecuteHour` settles every
order due in an hour at once, each against the portfolio its predecessors left; hours
come in turn and no open hour is left out; a state is recorded once, of a portfolio that
has reached its hour and no later one. `TradeExecution!KeepsAccounts` maps the tables to
themselves and `passed` to `LastPassedHour`; a run's steps between its commits are
stuttering steps.

### TradeProgress

`TradeExecution` with a counter of faults (crashes and failed price requests) and the
fairness below. It starts two hours after the orders were placed, so that the job has
something to catch up with. `Early` are the orders that may have been placed then; a
player with none of them has no portfolio yet, until the job or `GET /portfolio` creates it.

### MarketHours, MarketOracle and MarketData

A query is the thread of a request of `GET /market/prices` or a call from the job: it
caps its range and searches the cache (`Search`), fetches what is missing (`Fetch`),
stores it (`Store`) and combines both. `kind` is the caller: any range, a window of
fixed length that ends at the last passed hour, or the latest open market, which looks
back day by day. The clock counts parts of an hour. It moves, other queries write, and
the process may restart with other tradable symbols, between any two of these steps.

* A row says that a symbol has no bar in an hour, a bar, or a bar of an hour that was
  still running when it was fetched. The last is what must never be cached.
* Alpaca refuses a range that reaches into its latency, and has the final bars of an hour
  once hour and latency are over (`LatencyAssumption`: the program's 16 minutes are no
  less than Alpaca's latency). Which symbols trade when is fixed by `market`.
* `MarketOracle` answers in one step: with all hours up to one that had passed between
  question and answer, or with an error. `asked` and `told` are what a caller sees.
* Prices are left out: of a bar the properties need to know whether it is there and
  whether it is final. `cache_hour` and `get_cached` have no caller.

### Migrations

A script is a sequence of statements, a table the version of the script that created it;
a column or an index counts as a table of its own. `executescript` commits what is
pending and then each statement by itself, so the version written after a script is
committed by the next `executescript`, or by the end of the block. A crash may come
between any two statements. Of the rows only those of the two trade tables are kept. The
schema a version stands for (`SchemaOf`) is, table by table, what the last script that
changed it leaves.

### ApiKeys

Each action is one `with connect()` block of a start-up or of a request. `shown` are the
keys whose secret somebody has seen; only they are presented. A key's `since` is its
`deactivated_at`, told by the request that wrote it. `overlap` and `unseen` remember
that requests ran side by side, and that a start-up died before it showed its key; only
properties read them.

### SigningKeys

`write_bytes` truncates a file and then fills it; the two attributes are set one after
the other. A key is named by its pair, a token by the pair that signed it. `raced`
remembers that a thread looked for files while another was making them, or that a crash
came while the second file was being filled; only `TokensAreAccepted` reads it.

### JobScheduler

`ready` are the callbacks of the event loop, taken in order; a task is a chain of
callbacks that waits for its thread or a timer in between. `Steps` is `_run_job` and
`_run_job_once` from one await to the next. Cancelling a task ends its wait and makes its
next step ready; its thread goes on. `stop` awaits one task after another over the table
as it is (`AwaitFrom`), and raises when the table has changed its size (`StopResumes`).

### Server

The order of `lifespan`: `RunMigrations`, `EnsureExists`, `StartScheduler`, then requests
and jobs, then stop. `Ends` is what the end of a process does to every part: `Exit` is an
end by itself (a start-up that raised, or a loop with nothing left to do), `Crash` one at
any point. What outlives it are the database, the key files, and what clients hold.

## What the runs show

| run | bounds | shows |
|---|---|---|
| `order_fill` | prices 2..4, requested prices 1, 3, 5, quantities 2, 3, values 2, 5, 6, cash up to 18, holding up to 8 | no overdraft, honest fills, worth conserved, values kept by market and limit orders |
| `order_fill_stops` | the same | **violated**: stop orders by value do not keep it |
| `execution_serial` | 1 run, 1 user, 2 trades for the hours that pass, hours 0..4, hour 2 closed | portfolio, closed trades and states agree; no trade, open or closed since, was passed over in an hour; implements `HourlyAccounts` |
| `execution_overlap` | 2 runs, 1 user, 1 trade, hours 0..3 | a trade is closed once, for an hour with complete prices; no fill out of nothing |
| `execution_overlap_lost` | the same | **violated**: a trade executed that the portfolio does not reflect |
| `new_portfolio` | as `execution_serial` | **violated**: a new portfolio misses the hours before it |
| `execution_live` | 1 run, 2 users with an order each or one with none yet, hours 2..3, 1 fault | under fairness runs end, users catch up, orders close, states are recorded; an order that raises holds up its user only |
| `submission` | 2 users, 2 trades, 2 requests, 3 hours over a midnight | true answers, one closer per trade, one batch a day and a recorded day that only moves on for requests in turn |
| `submission_twice` | 3 requests and 3 trades | **violated**: the requests of a day may change trades twice |
| `market_data` | 2 queries, 2 symbols, 5 hours, 2 markets, days of 2 hours, 2 days back, ranges of up to 2 hours | nothing cached too early; implements `MarketOracle` |
| `api_keys` | 3 keys, 2 requests, any number of starts | an active key remains and somebody holds it; start-up succeeds; a deactivation stands |
| `server` | 7 versions to come from, 1 trade, 2 keys, 2 key pairs, 2 threads, 1 triggered run, any number of starts | latest schema only, no trade lost, tokens accepted, nothing starts after stop, the job repeats, the process ends |

Every price is in one of the orders below, equal to and above every requested price,
and no value is a multiple of all prices, so both roundings and both sides of each
comparison occur. In the execution runs the first trade fills at once and the second
raises in hour 1 and waits for the first, so that exceptions, waiting, a closed hour
and the order of trades within an hour all matter; a crash, a cancellation and an
exception can each come between any two steps. Two runs are enough for every conflict
of two transactions; the third would only repeat one of them. `execution_serial` is
the program as it is meant to run (one job an hour); `execution_overlap` what the
scheduler allows.

In `market_data` the clock passes the end of a latency, so that the last passed hour
moves while a query is under way; two tradable sets leave hours cached for one symbol
and missing for the other; and one market has days on which nothing trades. In
`server` the service account needs only one key and no requests, which `api_keys` looks
at; token requests and runs of the job do not take place at the same time (`NoJobs`), as
they share no state.

### Fairness

`TradeProgress`: the clock moves on and a run that can take a step takes one. The first
half is time; the second holds because `asyncio.to_thread` runs the job in an operating
system thread that waits for nothing but SQLite's lock and HTTP, both with timeouts
(which are exceptions, and so steps), and because `_run_job` starts the next run whatever
the last one raised, which `server` shows (`KeepsRunning`). A crash or a failed price request may
come at any time, once where every order has been placed early (a crash leaves what was
committed, as the end of a run does, so a second one meets nothing new), and not where a
player is still to come. Nobody has to send a request. A run's exceptions other than
those are not bounded; where they recur for ever is the order that raises, which
`CatchesUp` and `OrdersClose` name (`Blocked`). Nothing bounds the runs in one hour: an
operator may trigger them, and the program starts one an hour. `StatesAreRecorded` is
therefore about hours that last long enough for another run, and lets an hour pass.

`Server`: the event loop takes its next callback, threads and timers end, and a process
whose loop is done exits. That threads end is `RunsEnd`. No start, request, crash or stop
is forced.

Deadlock is not checked where the system may really stop: requests all answered
(`submission`), the clock at its bound with the job done (`execution_live`, `market_data`),
every key used (`api_keys`), and a process that is down for good (`server`).

### Disagreements between the code and what is written about it

1. `trade_execution_service.py:352`. A stop order by value is sized at the stop price
   and settled at the open when the window gaps over it; the comments at 444 and 447
   promise otherwise.
2. `database_service.py:65`. With two runs of the job at once (`job_scheduler.py:55`
   does not prevent it) one run's rollback clears the shared attribute, the other goes
   on moving trades on connections of their own, and a crash then leaves a trade
   executed without the portfolio reflecting it. The comment at
   `trade_execution_service.py:110` rules that out.
3. `portfolio_repository.py:145`. A new portfolio is dated to the current hour, so the
   branch commented "start from the earliest active_from" (line 75) is never taken and
   earlier hours of the user's trades are not tried.
4. `trade_submission_service.py:81`. The check and the record of a submission are apart,
   so the "one-per-day batch" (`routers/trades.py:36`) can be two. The run shows two
   requests sent together. Two more ways lead to the same: a request that fails halfway
   (line 90) leaves its first trades placed and the day unused, and the retry adds its
   own; and `record_submission` (`trade_repository.py:42`) overwrites unconditionally, so
   a slow request of the day before puts back the date of a batch of today, and a third
   request is let pass. Requests in turn, none of which failed, keep to one batch
   (`OneBatchADayInTurn`, `RecordedDayMovesOn`).
5. `database_service.py:171`. The migrations skill
   (`.agents/skills/database-migrations/SKILL.md:19-21`) says that `run_migrations` works
   "inside a single transaction per call". `executescript` commits each statement by
   itself, and the version is written after it, so a crash leaves part or all of a
   script under the version before. No run has this as its property: `server` goes
   through all these states, and shows that no process serves on one of them
   (`ServesLatestSchema`) and that none has lost a trade (`NoTradeLost`).

Met on the way, and no run of its own: with two requests at once, each authenticated by
one of two keys, both keys may be deactivated (`api_key_service.py:12` says "the
authenticating key always remains active"); two first requests at once, or a crash while
the second key file is written, leave key files of two pairs, so that tokens are refused
after a restart; a migration script cut as in 5 may make every later start-up raise; a crash between the insert of a generated service key and its log line
leaves an active key that nobody knows; `stop` raises `RuntimeError` when a triggered
run ends while it awaits. The properties of `api_keys` and `server` name these cases as
their exceptions, and show that there are no others. And when a player opens
`GET /portfolio` between the two halves of the job's `get_or_create`
(`portfolio_repository.py:57`), the insert raises and `save_state_for_all_users` gives up
the users after that one, though it is to record "the portfolio state of every user"
(`portfolio_service.py:73`). `StatesAreRecorded` shows that a later run makes up for it
while the hour lasts; when the hour passes first, those states are missing.

## What is proved

The theorems hold for all values of the constants that meet the named assumptions; the
runs are instances of them. Each rests on an inductive invariant, which TLC checked on
the instance of the run that checks the property before it was proved.

| component | theorem | property of the runs |
|---|---|---|
| order fills | `Typing`, `NeverOverdrawn`, `FillsAreHonest`, `WorthIsConserved`, `MarketAndLimitValuesAreKept` | all of `order_fill` |
| execution, any overlap | `Typing`, `EachTradeClosesOnce`, `EveryFillIsExecuted`, `ClosingsAreOfPassedHours` | all invariants of `execution_overlap` |
| execution, runs in turn | `PortfoliosReflectTrades`, `StatesAreOfTheirHour`, `NoHourIsMissed`, `PortfoliosGrow`, `AccountsAreKept` | all of `execution_serial` |
| submission | `Typing`, `AnswersAreTrue`, `EachCancelledByOne`, `NoneCancelledSilently`, `OneBatchInTurn`, `RecordsMoveOn` | all of `submission` |
| market data | `Typing`, `NothingIsCachedTooEarly`, `ImplementsMarketOracle` | all of `market_data` |
| API keys | `Typing`, `AnActiveKeyRemains`, `SomebodyHoldsAKey`, `StartUpFailsOnlyAfterOverlap`, `DeactivationsStand` | all of `api_keys` |
| process | `TypeCorrect`, `IssuedTokensAreAccepted`, `NoRunAfterStop`, `TradesAreNotLost`, `ServesAfterStart`, `ServesOnLatestSchema` | all safety of `server` |

### Order fills

`OrderFillProofs`: for all positive integer prices, quantities and values and any cash.
The inductive invariant is `Solvent`, a well-typed portfolio with `NoOverdraft`;
`TryKeepsSolvent` shows that the amount checked is the amount settled, and `SizedValue`
bounds the rounding of `_value_to_quantity` by the division lemma `Quotient`.

### Execution, however runs overlap

For every set of users, trades and runs, any market hours, any outcomes and any bound on
the clock, under the assumptions of `TradeExecution` (owners and ranks are typed, `None`
is not a user, a run or a portfolio, `HourAssumption` puts the first hour before the
last). `TypeOK` alone is not inductive: a run that is past `get_or_create` dereferences
its user's portfolio row, so the row must exist. `TradeExecutionProofs` shows
`Typed == TypeOK /\ RowExists`; no step deletes a row (`StepKeepsRows`), which keeps
`RowExists` for the runs that do not move.

`ClosedOnce` and `NoGhostFill` rest on what a run holds between two of its steps.
`TradeExecutionSafety!Consistent` adds to `Typed`

- `OneWriter`: at most one run has uncommitted writes (SQLite's write lock), so while a
  run has moved trades and not committed, nobody else closes or cancels one;
- `Bookkeeping`: uncommitted writes exist only inside a transaction; a trade is at most
  once among those still to try, to move and moved; the moved ones are still active;
- `Accounted`: the fills a run has computed, and those of the row it has written and not
  committed, are executed already, or by a move the same run still has to make or to
  commit.

`RunStep` reduces a step of a run to these three facts about that run and to the two
properties; `RunLeaves`, `RunContinues` and `RequestStep` specialise it, and one lemma
per step that closes trades or writes a portfolio applies it. `NoGhostFill` survives a
lost connection because `UpdateOnOwnConnection` comes after all moves.

`TradeExecutionAccounts!ClosingsAreOfPassedHours` adds `RunsOnTime`: an hour a run is in
had passed when it read the clock, and the trades it has to try and to close were active
in it. Time only moves on (`StaysOnTime`), so what was in time stays so.

### Execution, runs in turn

The converse of `NoGhostFill` fails when runs overlap (`execution_overlap_lost`), so the
rest is proved under the hypothesis `[]OneAtATime`: of any number of runs, none starts
before the last has ended, died or raised. That is the program as `_run_job` runs it,
one interval after another, without a triggered run beside it. Requests, crashes,
exceptions and the clock remain as free as before. With a single run, as in
`execution_serial`, the hypothesis holds of itself (`AccountsOfOneRun`).

The core is the refinement `AccountsAreKept`: `Spec /\ []OneAtATime => KeepsAccounts`. A run
that has the transaction to itself commits an hour that `HourlyAccounts` settles in one
step, so the invariant must say of a run in the middle of an hour what it has settled so
far. That is `Serial`:

- a run inside a transaction owns the shared connection (`Alone`);
- `InHour`: its user's row is at an earlier hour with the market shut in between; the due
  trades it has tried, in their order, have the outcome that `Outcome` gives on the fills
  of the row and of those before them (`Settled`), and `base` and the row it has written
  are exactly these fills;
- `Saves`: while states are saved, no portfolio has come to a later hour.

`CommitPromised` turns `InHour` at the commit into a step `ExecuteHour` of the promise,
`OpenPromised` and `RecordPromised` do the same for a new row and for a state,
`RequestsPromised` for requests and `TickPromised` for the clock; every other step is a
stutter (`Unseen`), which includes every exception and every crash.

What a player is promised then gives the properties: `Accounts`, an invariant of
`HourlyAccounts`, says that executed trades and fills agree, that no row or state is ahead
of its time, and `NoMissedHour`. This last one speaks of trades that are open
(`OpenTradesTried`) and of those the job has closed (`ClosedTradesTried`, of the hours before
the one that closed them), and is stated on the fills of the trades before
(`FillsBefore`): that such an outcome stays what it was, after more hours and more
trades, is what its proof shows (`ClosedStays`, `NothingExecuted`), and what a statement
about present fills would not say. It speaks only of the hours after a portfolio was
created; that those before are lost to trades placed earlier is what `new_portfolio` shows.

### Submission

`TradeSubmissionProofs`: any users, trades, requests and lengths of the day, with the job
closing trades and requests failing at any point. `Consistent` says of every request
(`Sound`) that what it has left to insert has no row, what it has inserted has the row it
wrote, whether open or closed since, and what it has cancelled is closed by it; and that no
two requests have the same new or cancelled trade (`NothingShared`). `OneBatchADayInTurn`
needs an order in time instead: `Turns` says of a user whose requests did not overlap that
the dates of the stored batches come no later than the date recorded last, that a request in progress
comes after it (`Dated`), and that only one is (`InTurn`). The arithmetic is in
`DayGrows`: between two hours of one day there are only hours of that day.
`RecordedDayMovesOn` is the step that `Turns` allows: `record_submission` overwrites
whatever is there, and does not put a date back only because a request that records comes
after the date recorded last (`Dated`). Requests of one user that overlap could.

### Market data

`MarketDataProofs`: any symbols, settings, markets, queries, lengths of hours and days, and
any latency that the program's margin covers (`LatencyAssumption`). `CacheIsFinal` rests
on what a query holds between two steps. The inductive invariant `Inductive` says of
every query (`Sound`): the hours it fetches lie in the range it works on and have passed
when it capped it (`Bounded`, `AtBounds`), its range lies in the question it was asked
(`Asked`, `InDays`), and what it has found so far is final (`Found`). The core is
`PassedIsElapsed`, that an hour up to `LastPassedHour` is over and out of the latency,
and `LastPassedHourGrows`, that time does not take it back; then one lemma per action.

`ImplementsMarketOracle`: `Spec => KeepsPromise`. On top of `Inductive`, each action is
shown to be the step of `MarketOracle` it stands for: `RangePromised` and `LatestPromised`
for the answers (by `CombinedIsFinal`, what is combined is what the market has), `Silent`
for the steps in between, which a caller cannot see.

### API keys

`ApiKeysProofs`: any keys and any number of concurrent requests, for configured and
generated keys (`ConfigurationsAssumption`: the configuration is read as set or not).
`KeyRemains` is not inductive: that a deactivation leaves a key relies on the request's
own key being active still. `Kept` therefore says that requests run one at a time unless
they overlap (`OneAtATime`), that the key of a request that was let pass is active and is
not the one it deactivates (`OwnKeyStands`), that who presents a key has its secret
(`KeysArePresented`), what a start-up has found (`StartUpFinds`), and that without overlaps
the last key, and the last one somebody holds, never went (`NeverWithoutKey`,
`NeverWithoutSecret`). `KeyIsHeld` follows, and so does `DeactivationStands`, since the
request that writes `deactivated_at` has found the key active.

### The process

`ServerProofs`: any threads, key pairs, trades and triggered runs, and any sequence of
starts, ends and crashes. The parts share nothing but the order of `lifespan`, so the
invariant is the conjunction of six:

- `SigningInv`: unless a race was recorded, the key files go through `BeforePair` (nobody
  has a key but the one request that writes the files) to `AfterPair` (files, attributes,
  tokens and all local variables are of one pair), and never back. A crash takes the
  files no further back than to where a next start writes them again.
- `SchedulerInv`: before `stop` every task that may still run the job is in the table
  (`InTable`), so that after it every such task is cancelled (`AllCancelled`). `InLoop`
  says why each callback is there: its task has something to do, it has ended, `stop` has
  not begun, or what it awaits has ended. So none is put there twice, which is what the
  types rest on (a task has one place in the table and one next step), and `stop` is
  resumed only once it has cancelled. `MadeReady` is about the steps that cancelling makes
  ready, `Awaits` about the task that `stop` awaits next, the first that has not ended
  (`HasLeast`).
- `MigrationInv`: a script in work is the one after the committed version, and when it
  rebuilds a trade table, the copy is complete before the drop, and the table empty before
  the rename (`AtStatement`). `VersionsAssumption` says that a database comes from a
  release of this program.
- `SchemaInv`: outside the tables that the first script not counted changes, the schema is
  the one of the committed version (`Unfinished`); of those, what the script in work has
  done to a table is what its last statement on it left, whatever an earlier crash had
  left of that script (`InScript`); and a script may have ended and not be counted
  (`NotCounted`). The core is `ExecuteLeaves`, one statement on any schema from which it
  does not raise, and `SchemaOfNext`, how the schemas of two versions differ.
- `ServiceInv`: the types of the service account's start-up, which shows a key only if it
  has made one.
- `LifespanInv`: one part has finished before the next begins. `ServesAfterStart` follows:
  who is served, is served by a process that has reached the latest version and ensured
  the service account; with `Unfinished` at the latest version, `ServesOnLatestSchema`.

What the proofs need of sequences (`Appended`, `HeadAndTail`, `Joined`, `RemovedAt`: what
they hold, and that they hold it once) is stated once at the head of the scheduler's part.

### Only model-checked

Liveness under fairness: `RunsEnd`, `CatchesUp`, `OrdersClose`, `StatesAreRecorded`, `KeepsRunning` and
`StopEnds`. It takes ENABLED, which is beyond the prover. Every invariant and every action
property of a run that passes is a theorem, and so are both refinements.

## Not modelled

- The client (`frontend/src`): session, memoised data, drafts and screens. It is a program
  of its own that shares nothing with the server but requests, of which the models of the
  server already admit every order. Its own hazards (`PROJECT.json`) are next in the plan.
- Players' accounts and tutorials: single inserts that nothing changes later.
- Amounts in floating point, the value of a portfolio at an hour (`total_value`), the
  contents of settings and logs, the wording of answers.
- Key derivation and signatures: a secret is known or not, a token verifies under the
  pair that signed it.
- A transaction of the job inside other requests' statements is modelled for trades and
  portfolios; elsewhere it is an exception that may come at any step (`RequestRaises`,
  `Raises`).

## Plan

What is left is the client: `ClientSession` (bootstrap, retry after a 401, two tabs) and
the client's memoised data and drafts. No module of the server depends on it.

The execution of trades came first because it moves the money, submission because it
feeds it, then the parts both depend on.
