# Verification of the paper-trading backend

TLA+ modules, TLC configurations and TLAPS proofs for the Python backend under
`src/backend/src` of *dhan-crude-paper-trading*: a single asyncio process that
takes market data from one WebSocket, fans it out to the browsers, simulates
order fills against the published depth, runs three automated or semi-automated
strategies, and keeps orders, positions, cash, charges, journals and alerts in
one database (SQLite by default, through SQLAlchemy's `AsyncSession`).

Paths below are relative to `src/backend/src` unless they start with `src/`.
`PROJECT.json` maps every definition to the lines it translates.

## 1. The system

### Components, state, operations

| Component | State | Operations that change it | What makes it correct | Modelled in |
|---|---|---|---|---|
| Order lifecycle `orders/services/order_service.py` | `orders`, `order_fills`, `order_charges` | submit, initial fill, matcher fill, finalise, reject, cancel | status tells what executed; never more than asked; charges once | `PaperOrders` |
| Matcher `orders/services/order_matcher.py` | a list of loaded orders, one open transaction | one pass over every resting order each 250 ms | no half fill survives a restart; nothing starves | `PaperOrders` |
| Fill simulator `orders/services/fill_simulator.py` | locals of one call | walk the depth for market, limit and resting orders | invents nothing, never flatters, leaves nothing tradable | `FillSimulator`, `BookFills` |
| Charges engine `charges/services/charges_engine.py` | none: a rate card | compute for what an order executed so far | no fill is booked a negative charge | `ChargesEngine`, `ChargedFills` |
| Position book `positions/services/position_service.py` | `positions` | `apply_fill`: open, average, reduce, close, flip | one open row per portfolio and contract; the net is the executions' net | `PositionRows`, `PositionBook` |
| Position endpoint `positions/controllers/position_controller.py` | a row held across a placement | close | acts on its own portfolio's row | `PaperOrders` |
| Portfolios and balance `portfolios/services/` | `portfolios`, `cash_ledger` | deposit, withdraw, archive, restore, (create, rename, delete) | books are apart | `PaperOrders` |
| P&L reports `reports/services/pnl_service.py` | none: replays `order_fills` | read | tells the same story as the positions | `PositionReports` |
| Swing scheduler `swing/services/{scheduler,swing_runner,journal_service}.py`, `daily_bars/` | in-memory attempt guards, `swing_sessions`, `daily_bars` | tick, warm-up, refresh, rebalance and nightly runs, manual runs, missed-run check | each portfolio's session decided once; retries retry; what is missed is reported | `SwingSchedule` |
| Swing rebalance and stops `swing/services/{execution_service,stop_service,stop_monitor,rebalance_planner}.py` | holdings, `swing_stops` | sells, buys, trigger, exit, ratchet, close by hand | what is held is guarded; nothing is sold twice | `SwingStops` |
| BTST `btst/services/` | `btst_holdings`, scan records | scan, exit, both by clock and by hand | nothing bought is forgotten; nothing not held is sold | `BtstOvernight` |
| Chart trading, bracket monitor `chart_trading/services/` | `chart_trades` | click, close, set levels, bracket pass | no option is written; what is held is under a trade | `ChartTrading` |
| Feed manager, feed client `market/services/{feed_manager,dhan_feed_client}.py` | subscription sets, pending queues, one socket | resync, window edge, connect, flush, drop, watchdog, reconfigure | the server streams what is wanted | `FeedSubscriptions` |
| Market book, broadcaster, web sockets `market/services/{market_book,broadcaster}.py`, `market/routes/market_router.py`, `src/frontend/src/market/MarketFeedContext.jsx` | rows, dirty set, per-client queues and flags, what a tab shows | packet, forget, flush, overflow, status, configure, prime, send | nobody is left on an old price | `BookFanout` |
| Alerts `connections/services/`, `alert_sink.py` | `alerts` rows, the log sink's buffer | raise, collapse, deliver, fail, give up, suppress | told again only after a delivery whose mark was lost; no occurrence uncounted, all settled | `AlertOutbox` |
| Strategy registry, state `strategies/services/` | in-memory flags, settings rows | enable, disable, arm, policy | memory and database agree | switches only, in the modules that read them |
| Token renewal, IPO, instruments, candles, greeks, ranking, users, notes, health, pages | | | | not modelled, see section 7 |

### How they interact

Everything runs in one process as coroutines, so a step is atomic between two
`await`s. What is shared is the database, the in-memory book (`MarketBook`) and
the strategy registry.

- A request opens its own session. On SQLite with the driver's legacy
  transactions a session's SELECTs see whatever is committed at that moment;
  its first INSERT/UPDATE takes the single write lock, held to its commit.
  Objects it already loaded are **not** refreshed by a later SELECT (identity
  map, `expire_on_commit=False`), and an UPDATE writes only the columns whose
  value differs from what was loaded. There is no version column.
- The matcher, the bracket monitor, the stop monitor, the swing scheduler, the
  alert watcher and dispatcher, the feed's resync loop, connection and watchdog,
  and the broadcaster are background tasks. Each pass reads, then writes, and
  requests go on between its awaits.
- `submit_paper_order` -> `fill_simulator` -> `PositionService.apply_fill` ->
  cash ledger and charges is one transaction. Close, chart trading, swing and
  BTST all trade through that one function with MARKET orders; their modules
  take its outcome (wholly, in part, not at all) as an input that `PaperOrders`
  and `FillSimulator` justify. A strategy drops the row it read before it places
  the order, so `apply_fill` looks up a fresh one: a strategy's exit can be sized
  on an old quantity, but what it sells is taken from the current one. Only the
  close endpoint keeps its row across the placement.
- The swing scheduler's clock also starts BTST's jobs through module hooks.
- Positions change what the feed manager subscribes; packets change the book,
  which the simulator, the monitors and the broadcaster read.
- Reports do not read positions; they replay `order_fills`.

### What is hard here

Copies that outlive the state they were read from (matcher, cancel, close,
rebalance, exit jobs); a check far from the write it protects; averages, money
and levies rounded at each step; one commit for a whole pass; journal records
that stand for success; in-memory guards lost at a restart; an edge recorded
before the work it asks for; queues that overflow; a delivery outside and its
mark inside a transaction. `PROJECT.json` lists 40 such hazards, each at its
line, with the properties that watch it or the reason none does.

## 2. The modules

| Module | Models | Notes |
|---|---|---|
| `Quanta` | sides, `ROUND_HALF_UP` | integers count quanta: prices in one unit, money in `MoneyUnit` of them (four and two decimals in the code) |
| `PositionRows` | `PositionService.apply_fill` as an operator on the table | `held` is what the session had loaded; `Flush` is SQLAlchemy's changed-columns UPDATE |
| `NetPosition` | abstract specification: one signed quantity per portfolio and contract | |
| `PositionBook` | a run of executions through `apply_fill` | refines `NetPosition` (`Promise == INSTANCE NetPosition WITH ...`) |
| `PositionReports` | `replay_fills` beside the book | |
| `BookFills` | what the fill simulator may answer, whatever the depth | the interface between the next two |
| `FillSimulator` | the level sort and the walk, one loop iteration per step | shown to answer inside `BookFills` (`MeetsContract`) |
| `ChargesEngine` | brokerage, levies, intermediate and final rounding under a rate card | amounts are exact rationals over `Whole`, as the code's `Decimal` |
| `ChargedFills` | `_apply_fills` and `_recompute_charges` for one order: the stored, rounded average and the charges over all the calls that fill it | composes `FillSimulator` (the walk that may fill first) and `ChargesEngine` |
| `AccountStatement` | abstract specification: one line per order, one balance per portfolio | no sessions, statuses, passes, prices or positions |
| `PaperOrders` | orders, positions, cash, matcher, sessions, restart | composes `PositionRows` and `BookFills`; refines `AccountStatement` (`Statement == INSTANCE AccountStatement WITH ...`) |
| `SwingSchedule` | the scheduler's day, its memory, the journal, bars, manual runs, restart | |
| `SwingStops` | rebalance, monitor, ratchet, close by hand, over one name | |
| `BtstOvernight` | scan and exit over one name | |
| `ChartTrading` | clicks, closes, levels, the bracket pass | |
| `FeedSubscriptions` | manager, client and the vendor's end of one connection | |
| `BookFanout` | book, broadcaster, web socket, browser | |
| `AlertOutbox` | raising, collapsing, delivering | |
| `MCFillSimulator`, `MCPaperOrders`, `MCSwingSchedule`, `MCSwingStops` | values of constants for TLC | the other modules' constants are given in their `.cfg` |
| `PositionRowsProofs`, `PositionBookProofs`, `FillSimulatorProofs`, `PaperOrdersProofs`, `SwingScheduleProofs`, `SwingStopsProofs`, `ChartTradingProofs`, `FeedSubscriptionsProofs` | theorems | section 5; each EXTENDS the module it is about |

The mutated operators standing before the definitions they distort
(`...Unreduced`, `OverflowedQuietly`, `SettledAnyhow` and the like, marked
*mutant*) are plausible bugs, used only to show that each property can fail.

### State, actions and code

**PaperOrders.** `db` is the committed rows (`orders` with the sums `traded`,
`booked` its fills and charges moved through the ledger, `rows` of `positions`,
`cash` as the ledger's sum per portfolio); `work` and `locked` what the
matcher's open transaction would commit and whether it has written; `sess` what
a request had read when it validated; `matcher` the ORM copies it loaded, the
simulated fill and the funds verdict; `active`, `enabled`, `quote` the
portfolio status, the switch and the book.

| Action | Code |
|---|---|
| `SubmitRead`, `PlaceWrite` | `submit_paper_order`: validation on committed state; then insert, `_attempt_initial_fill`, `_finalise`/`_reject`, commit |
| `CloseRead` (then `PlaceWrite`) | `PositionController.close_position`, which keeps its row in the session |
| `CancelRead`, `CancelWrite` | `cancel_paper_order` around its first write |
| `WithdrawRead`, `WithdrawWrite`, `Deposit`, `SetActive` | `PortfolioService` |
| `SetEnabled`, `Tick` | the registry switch, any new book |
| `MatcherWakes`, `MatcherSkips`, `MatcherDecides`, `MatcherWrites`, `MatcherCommits` | `OrderMatcher.run_once` over `try_fill_open_orders` |
| `Restart` | the process dies between any two awaits |

**FillSimulator.** `Init` is a call with its arguments and sorted levels, `Take`
one iteration of the loop, `Exhausted` its breaks, `Return` what follows it.

**ChargedFills.** `executed` and `average` are the columns of the order's row.
`Walk` is the simulator's call, `ApplyWalk` the row booking it, `ApplyResting` a
later matcher pass that fills some of a limit order at its limit: any quantity
of what is left. Each books through `ApplyFills`, whose new average is computed
from the *stored* one (`AverageFillPrice`), so that its rounding compounds;
`RecomputeCharges` computes with that average.

**SwingSchedule.** A day is cut into slots no shorter than `RETRY_AFTER`;
`attempted`, `done`, `warmed`, `missed`, `checkedOn` are the scheduler's memory,
`journal` the `swing_sessions` rows, `bars` the newest stored session of the
index and of the universe, `runs` the run in flight of the scheduler and of an
operator; `halfDays` remembers the sessions whose bar was stored while the
exchange still traded. `Warm`, `StartRebalance`, `StartNightly` are `_tick_strategy`'s three
jobs; `Refresh`, `RefreshBreaks` the bar refresh; `CheckSession`,
`DecideSession`, `FinishRun`, `RunRaises` the run over the portfolios;
`ManualRun`, `SetSchedule`, `SetEnabled` the endpoints; `DetectMissed` the
report; `Stop`, `Start` a restart.

**SwingStops.** `net` is the name's position row, `stops` the `swing_stops`
rows, `reb` and `mon` what the rebalance and the monitor's pass had read.
`BeginRebalance`, `RebalanceSells`, `RebalanceBuys`, `EntryRefused` are
`run_rebalance` cut at its two commits; `SeeHit`, `Fire` the monitor's mark and
trigger; `ResumeExit`, `PlaceExit` an unfinished exit and its order; `Ratchet`
the nightly. `Sell` takes what filled from the row as it then is; `Overlap`
remembers an exit placed while the rebalance (`RebalanceSizes`) or the monitor
(`MonitorSizes`) had decided on another.

**BtstOvernight.** `position`, `holdings`, `scanned` are tables, `run` what the
clock's and the operator's job had read, `attempted`/`succeeded` the
scheduler's memory. `StartExit`, `StartScan`, `Request` start a job; `Work` is
one transaction of it on one portfolio (`Scan`, `Exit`, ...); `CloseByHand` and
`OtherBuys` move the same position row from outside. A job decides on what it
read of the position (`Held`); every fill moves the position as it then is.

**ChartTrading.** `db` and `work` as above for `chart_trades` and positions,
`job` what a click or close had read, `pass` the trades the monitor loaded: a
set, taken oldest id first (`First`), as `list_open` orders them.
`MonitorWakes`, `MonitorReads`, `MonitorSells`, `MonitorFails`,
`MonitorCommits` are one pass of `run_once` with its single commit.

**FeedSubscriptions.** `resync` is each resync under way (`Resolve`, `Apply`,
`Unsubscribed`, `Subscribed`: its code between awaits); `client` the client's
sets, pending queues and the queue of its send lock; `conn` and `step` the
socket and where `_connect_and_consume` is; `server` the vendor's side.
`LoopNotices` is the window edge, `Drop`, `Die`, `Stop`, `Watchdog` the ways a
connection ends, `TearDown` and `Start` a reconfiguration. `EnabledMarketOpen` is
what the watchdog asks before it reconnects: outside the hours of the enabled
strategies a silent socket stays as it is, and `StreamComesBack` asks nothing.

**BookFanout.** `rows`, `price`, `deep`, `dirty` are the book, `client` the
server's side of each tab (its view, queue, flag, and what is being sent),
`shown` the browser's map. A queued row is the book's own dict, so it is
serialised (`Send`) as it is then, not as it was flushed. `orphans` are the
clients whose socket went while they were primed, outside the `try` that
unregisters; flushes do not depend on them.

**AlertOutbox.** `rows` is the outbox, `sink` the log handler's buffer, `disp`
the dispatcher's pass. `Watch`, `Fill`, `Log` raise; `Load`, `Send`, `Suppress`,
`Commit` are one pass, in which a send that fails is counted or given up.
`PassFails` is any other exception of a pass, a locked database at a mark or at
the commit included, which `_run` logs: the marks of the batch, or the drained
records, are lost (`Forgotten`), and the next pass starts anew.

### Abstractions, and why they are sound for the properties stated

- A request's write step is atomic: it holds the write lock from its first
  write, and nobody reads its uncommitted rows. A pass that reads before and
  between its writes is **not**: its steps are separate.
- Two waiting writers: a step guarded by the lock waits as SQLite's busy
  timeout does; the timeout's error (the request fails, nothing written) is
  the same as the request never being made.
- In `PaperOrders` charges are `Brokerage + Levy * quantity` of the cumulative
  quantity: fixed and proportional part are all that "once per order" tells
  apart. `ChargedFills` runs the real computation, over all the calls for one order.
- Depth beyond the touch is `MaxWalk`: an average fill price up to that far
  from the touch, any quantity up to what was asked. `FillSimulator` justifies
  it, under `MaxWalkCovers`: `MaxWalk` spans the published depth, from its touch
  to its last level, and the slippage. That is what the constant stands for.
- The strategy modules follow one name (one future for the chart): names do not
  interact there, except through cash, which `PaperOrders` has.
- A price in `BookFanout` is the number of the write that left it: the
  properties compare old with new, not values.
- History variables (`raced`, `overlapped`, `leftBehind`, `crossed`,
  `disturbed`, `overlooked`, `unmarked`, `own`, `left`, `halfDays`, `overwritten`) read nothing back into the
  model. The properties name them as their exceptions: where an exception is
  stated, the code does reach it (section 4).

## 3. The runs

Deadlock checking is off in every run: bounded numbers of executions, days,
events or writes are used up, and a system may then wait for nothing.

| Run | Instance | Distinct states | Shows |
|---|---|---|---|
| `position_book` | 3 executions, 2 portfolios, 1 contract, prices {2,4}, quantities {1,2}, charges {1,2}, 2 levels, money of 2 quanta | 266,305 | one open row each, totals explain the realised money, the report agrees on single-level executions, the book implements `NetPosition` |
| `orders_core` | 2 sessions, 2 orders of 2, market and limit, walk 1, money of 2 quanta, cancels, closes from rows read earlier, restart | 528,017 | executions, statuses, charges, positions and ledger agree; history stands; the statement of each account is kept |
| `orders_accounts` | 2 portfolios, 2 sessions, closes from rows read earlier, deposits, withdrawals, the strategy switch | 266,692 | neither portfolio touches the other; cash moves by what orders settled or by one entry |
| `orders_liveness` | 2 resting orders, fair matcher, portfolios archived and restored | 5,226 | no order the market trades through starves |
| `fill_simulator` | up to 3 levels in any order, dead ones included, orders of 1, 3 and 4, ticks of 2 quanta, slippage {0,1}, later fills at the limit, 5 rate cards | 65,129 | the walk never flatters and is inside `BookFills`; no call that fills an order lowers its charges |
| `swing_schedule` | 3 weekdays, 2 portfolios, a nightly before the open or in the evening, 2 disturbances (restart, manual run, switch, moved schedule, failure) | 1,184,709 | a portfolio's session is decided once, after its evening; done means decided; missed stays missed |
| `swing_stops` | 1 name, entries of 2 shares, 4 snapshots, 2 sessions, 2 stops, 1 event | 215,184 | what is held is guarded, shorts need an overlap, stops never fall, triggers are answered |
| `feed` | 3 instruments, limit 2, the loop and one request, 2 events | 190,776 | the wire agrees, what is subscribed is described, the stream comes back, the window reaches the feed |
| `alerts` | one condition, fills, errors, 2 attempts, batch 2, 2 events | 735,540 | an alert is told again only after a delivery whose mark was lost, no occurrence uncounted, all settle, a condition keeps its cadence |
| `btst` | 1 portfolio, 2 days, 2 holdings of 2 shares, 2 events | 90,148 | no share forgotten or sold short, done means flat, the exit comes back |
| `chart_trading` | 2 portfolios, one session and the monitor, 2 trades, 2 levels, 1 event | 742,208 | no option written, what is held is under a trade, one trade per contract, brackets answer |
| `fanout` | 2 instruments, one tab, queue of 2, 2 writes, 2 events | 414,865 | a tab not due a snapshot has every flushed change on its way; a connected tab comes to show the book |

**Why the bounds are enough.** Three executions are the least that open,
average or reduce, and flip or close a round trip; the fourth would only
repeat one of these from a state already reached up to the numbers (rounding
is the exception: `SingleLevelReplayAgrees` has a bound that grows with the
number of executions, from the fourth one on). Two sessions and the matcher give
every pairwise race of readers and writers the order core has; an order of
quantity 2 can be filled in part twice, so immediate + resting + rest is
reached. Two portfolios on one contract is the case a forgotten portfolio filter
breaks. `orders_core` has no deposits or withdrawals, which would multiply its
states; of the steps of `AccountStatement`, `Entry` is therefore checked by what
`PortfoliosApart` says of cash in `orders_accounts`, and proved. In
`swing_schedule`, day 3's rebalance looks back on a session that day
2 decided, failed or skipped, and two disturbances put a restart around a manual
run; of the two hours a nightly can be moved to, one is before the open (it can
then run late, inside the session), the other after the close. In `swing_stops` two stop rows are an entry, its exit and the next entry. A
limit of 2 over 3 instruments makes the feed's limit refuse; two events are a
drop in the middle of a trade's resync. A queue of 2 overflows behind one
message in flight; two writes are an old and a new price, or a row made anew. In
`fill_simulator`, an order of four units over up to four calls rounds its average
at each, off the grid of ticks; an order is of at most twice as many units as its
limit has quanta (`WorthItsRounding`, with quanta of 0.0001), beyond which the
property is false: one more unit is then worth less than the rounding of the
average on all the others. In
`alerts`, two rows of a key are a first alert and its successor, two attempts a
failure and giving up, and the two events are shared by crashes, failed passes and
lost answers: a pass that failed forever would settle nothing, and neither does
the code's. The chart's session clicks and closes against the
monitor; with size 1 an exit either sells or does not, which is the split the
properties make, and since portfolios are interchangeable, the one event
(`Operated`) is the first one's. Every bound is a constant of its module or `.cfg`. Symmetry is
used for sessions of `PaperOrders` only, and never with a liveness property.

**Fairness.** Nothing is assumed of users, of prices, or of a restart.

| Run | Assumed | Why |
|---|---|---|
| `orders_liveness` | `WF(Matcher)` | the loop sleeps 250 ms and runs again, catching whatever a pass raised |
| `swing_stops` | `WF` of the monitor's and the rebalance's own next step and of the market's phases; `SF(ResumeExit)` for each row | the monitor wakes again and lists every unfinished exit in each pass: it may be in the middle of another row, and comes round |
| `feed` | `WF` of each coroutine's next step, of `Connect`, `Send`, `Watchdog`, `Start` | each is a task that runs when it is ready; connecting is retried with a bounded back-off |
| `alerts` | `WF(Dispatch)` | the dispatcher's loop survives every failed pass, and passes do not fail forever |
| `btst` | `WF` of the clock and of the jobs; `SF(SoldOut)` | an exit retried again and again meets a depth that takes what is left: without it, an empty book forever is a market that never buys. The last day of the instance does not end, and the retries fall in it |
| `chart_trading` | `WF(Monitor)` | the loop wakes every quarter of a second |
| `fanout` | `WF(Flush)`, `WF(Primed)`, `WF(Deliver)`, `SF(Send)` | the broadcaster's loop comes round every 100 ms and a connected browser takes what is sent. `SF`: the queue is emptied under a slow sender again and again, but a sender woken by a message runs before that loop wakes again |

## 4. What was found

### Documented claims the code does not keep

Each is stated in its module, with the quoted sentence, under the name given.
No run lists them, because they fail: add the name to the module's `.cfg`
(`PROPERTIES` for the temporal ones) to have TLC print the counterexample.

| Property | Module | What happens |
|---|---|---|
| `CancelledStaysCancelled` | `PaperOrders` | the matcher fills from copies: an order cancelled after it was loaded is filled and its status overwritten |
| `MarketRemainderAbandoned` | `PaperOrders` | a partially filled market order is terminal, and cancel accepts it |
| `NeverOverdrawn` | `PaperOrders` | the second funds check covers LIMIT orders only: a market order that walks the book overdraws |
| `ReplayedRealisedAgrees` | `PositionReports` | one fill per level in the report, one averaged fill in the position: realised P&L differ |
| `NoStraddle` | `ChartTrading` | `close` marks the trade CLOSED whatever its exit came to (`chart_trading_service.py:425`); the next click on the other side buys a put while the call is held. `src/README.md:474-479` says it cannot. The partial case is also documented (`src/README.md:2363-2368`) as a rest that "rests … as an open order"; the code finishes the remainder of a MARKET order |
| `DoneMeansCurrent` | `SwingSchedule` | a nightly whose refresh failed for the universe still writes its record; the next attempt takes the record for success |
| `EachHasItsOwnRecord` | `SwingSchedule` | `swing/services/scheduler.py:820-823`: "the same strategy may run in several and their books must not mix, so each gets its own decision record and its own orders". The scheduler does go through every active portfolio, but `run_rebalance` (`execution_service.py:366`) and `run_nightly` (`swing_runner.py:125`) ask `sessions_completed_on` for the strategy, the session and the kind alone: the first portfolio's record passes for the others', which decide nothing, trade nothing and keep no record. TLC finds it in the first morning's rebalance, with nothing disturbed. `DecidedOnce` is stated per portfolio, and would hold of a journal asked per portfolio too |
| `NoStopWithoutHolding` | `SwingStops` | closing by hand leaves the stop ACTIVE, and the next entry's `open_for_entry` is then refused |
| `WindowReleases` | `FeedSubscriptions` | the window closes with nothing held: a resync that resolves no target while a strategy is enabled takes the instrument master for missing and leaves the universe subscribed (`market/services/feed_manager.py:603`), though the docstring at 385 says it leaves the feed after the scan |
| `NobodyWaitsOnTelegram` | `AlertOutbox` | the first mark of a batch takes SQLite's write lock, held through the sends that follow |
| `HeldOvernight` | `BtstOvernight` | an exit that runs after the scan sells what was bought the same day |
| `NothingLingers` | `BookFanout` | a browser keeps rows the book forgot until its next snapshot |
| `OneRowPerTab` | `BookFanout` | `Broadcaster.clients` lists "One row per connected browser tab"; the priming send (`market_router.py:196`) is outside the `try` whose `finally` unregisters, so a socket lost there stays listed and is flushed to for the life of the process |
| `NeverGoesBack` | `BookFanout` | queued rows are the live dicts, a view without depth gets copies: after a switch of the view a browser can briefly return to an older price |

### Exceptions the checked properties name

- `PaperOrders`: a close keeps the row it loaded across the placement
  (`position_controller.py:132`) and `apply_fill` computes the new row from it:
  of two closes, or of a close and a fill, that read the same row, one update of
  the position is lost while both orders and their cash stand (`overwritten`).
  It is the only way rows, orders and ledger come to differ.
- `BookFanout`: the end of priming (`market/routes/market_router.py:199`)
  clears `needs_snapshot`, also when an overflow during a slow priming set it:
  the tab then keeps old prices until the rows tick again (`overlooked`).
- `FeedSubscriptions`: an instrument unsubscribed and subscribed again while the
  socket is down ends subscribed at the client only (`crossed`); two resyncs
  that overlap, or one that fails after the edge was recorded, leave the window
  unanswered (`disturbed`).
- `SwingSchedule`: a manual and a scheduled run that both asked the journal
  before either wrote it trade the session twice (`raced`); an unforced nightly
  by hand on an older session stops the evening's; a nightly due before the open
  that starts late, inside the session, stores today's half-finished bar, the
  rebalance of the same day then trades on it, and it is never fetched again
  (`halfDays`); a session reported missed is still written by a run by hand that
  had passed its check. The proofs could not be completed without naming the
  last two.
- `SwingStops`: an exit order that filled in part leaves shares no stop watches
  (`leftBehind`); of two exits sized on the same shares the second sells what the
  first already sold, and the name goes short (`overlapped`).
- `BtstOvernight`, `ChartTrading`: two writers that met on one reading
  (`crossed`) can open a short or lose an update; what a chart exit could not
  sell is under no trade (`left`).
- `AlertOutbox`: a delivery whose mark was rolled back, by a crash or by a failed
  pass, is repeated (`unmarked`).
- `ChartTrading`: an archived portfolio's armed trade whose level is hit makes
  every pass fail and roll back the others' exits.

### Observations

Orders: two concurrent withdrawals can both pass the balance check; a limit
order executed in part becomes REJECTED when its next fill cannot be afforded;
the matcher fills the resting orders of an archived portfolio; two strategies
holding one contract in one portfolio share a row.

Swing: a nightly before the open with a late start
stores a half-finished bar; an index fetch that fails within the tolerated
fraction leaves its session undecided; an empty bar table writes a SKIPPED
record dated today (in UTC), which uses up tomorrow's rebalance; one handler of
`_refresh_bars` returns one value where two are unpacked (`RefreshBreaks`); a
rotation's exit is reported as closed by hand; `_open_quantity` is not filtered
by strategy.

BTST: with several portfolios only the first scans; a scan by hand uses up the
day's; a retry after a partial exit can sell another strategy's shares.

Browsers: an exception between the drain of the dirty set and the end of a flush
(`broadcaster.py:289`) is logged, and what was drained reaches no client until it
changes again; the flush of the model is one step. Feed: the pending flush may exceed the limit; a start whose first resync fails
leaves no loop. Alerts: the order of rows is not kept when a send fails in
passing; the sink is drained before the rows are committed; deliveries move
`updated_at` and so delay a condition's re-arming; a suppressed row silences its
condition until the reminder. Chart: a close sells everything held of the
option, whoever bought it; a double click opens two trades.

## 5. What is proved

Checked by TLAPS for every value of the constants the named ASSUMEs allow: any
sets of portfolios, contracts, strategies, sessions, requests and instruments,
any prices, quantities, charges, depths, tick and slippage, and any number of
executions, orders, days, trades, events and restarts. The counters that bound
the instances of TLC are arbitrary here. Every inductive invariant below was
first checked by TLC on the instance of its run.

**Position book.**

- `PositionRowsProofs`: what one `apply_fill` does to the table, with *any*
  copies held by the session: it types, touches no closed row and no other
  contract, keeps the identity of every row, and preserves "one open row" and
  "open iff holding". The book and order proofs rest on these lemmas.
- `PositionBookProofs`: `BookIsSound` (type, one open row, open iff holding,
  the audit totals explain the net quantity) and `BookImplementsNetPosition`
  (the table refines one signed quantity per portfolio and contract). The
  inductive invariant is the conjunction of the four properties themselves: one
  open row needs open-iff-holding (a row left open at zero would be found in
  place of the next), and the totals need the types.
- `RealisedIsExplained`, in the same module: the `Gap` between what a row has
  realised and what its totals and its average say moves, in one execution, by
  no more than the roundings made in it: half a money quantum for the value of
  the leg, and either half a money quantum for the realised sum or half a price
  quantum per unit held for the new average. The last is why the bound grows
  with what the row has bought or sold (`Scale`), and why the invariant needs
  `TotalsExplainNet`: what is held is no more than that. A row of a flip starts
  with the rounding of one leg.

**Fill simulator.**

- `WalkIsFair` (never flattering, within the book, nothing tradable left
  behind). The properties speak of a finished walk; the invariant says the same
  of every prefix of it: each level met so far gave at most what it shows, the
  value so far is between the touch and the limit times the quantity so far, and
  the levels passed were exhausted.
- `WalkMeetsContract`: every answer is one `BookFills` allows, so what is proved
  of the order core with those sets holds with the walk in their place. Assumes
  `MaxWalkCovers`. The invariant adds that no level is further than `MaxWalk`
  from any other (`Spread`), hence the value no further from the touch than that
  times the quantity (`Reach`), and that a walk which took nothing met nothing
  it could have taken at the touch (`Begun`).

**Order core** (`PaperOrdersProofs`). `OrdersAreSound` (no order overfilled,
status tells fill, charges booked once, one open row, open iff holding),
`ChargesAreBookedOnce` by itself, and `HistoryIsKept`, under every interleaving
of sessions, matcher and restarts. The properties are about the committed
database, but what a step commits depends on copies read earlier. So the
invariant says how stale a copy can be: `DataSound` (the matcher's uncommitted
work is itself sound, only ever extends the committed database, and equals it
while the lock is free), `SessionsSound` (a row held by a close is still that
row, open when it was read), `MatcherSound` (a loaded order has the filled and
ordered quantity of the stored one; only a cancellation can have come between),
`Settings`. The third is why a stale pass can revive a cancelled order and yet
cannot overfill one.

- `PositionsAgreeWithFills` and `LedgerAgreesWithPositions`: for every position
  not in `overwritten`, over any history of fills, the quantity executed is the
  quantity held, the cash moved is what the rows bought and sold (but for one
  quantum per flip) and the charges booked are those accrued. The invariant
  (`Balance`) says it of the committed database *and* of the matcher's
  transaction, since it is the latter that a pass commits. Each step is one
  fill: `TurnsAdds`, `ChangesAdds`, `ApplyFillAdds` in `PositionRowsProofs` say
  what it adds to the sums over the rows when the session reads the open row as
  it is (`Fresh`), `OrderSumsMove`, `OrderSumsGrow` what it adds to the sums
  over the orders, `ExecutesKeeps` that they are the same.
- `PortfoliosStayApart`: a commit of the matcher takes in any number of
  executions of several portfolios at once, so the invariant (`PassApart`) keeps
  the two copies apart: a row of the open transaction differs from the committed
  one only if an order of its portfolio executed more, and what a portfolio's
  cash is beyond what its orders settled (`Purse`) is the same in both. Requests
  keep it step by step; only a deposit or a withdrawal moves a purse
  (`EntryApart`, `EntryMovesOnePurse`).
- `OrdersKeepStatement` (which contains what `ChargesBookedOnce` says of the
  ledger, so no run lists that property separately): the order core implements `AccountStatement`. Under
  the mapping (`Stated`) an order is a line: what it is for, what it executed,
  what it moved and what it was charged. The initial database is an empty
  statement (`RefinesInit`); a commit is a `Trade` (`RefinesTrade`), an `Entry`
  (`RefinesEntry`) or a stutter. A matcher's commit may take in several fills of
  one order, so the step `Later` between two lines has to be transitive where a
  single fill is not: `Continues`, kept by `PassApart` along the pass
  (`ContinuesThrough`), is that relation; the bounds of a line (executed at most
  what was asked, charged the tariff on it) come from `SoundDb` at the commit.
  `StatementSettles` says that the abstract and the concrete sums are the same.

The sums are folds of the community modules, whose definitions choose the order
in which a set is taken apart. The library's induction theorems take an operator
and cannot be used, but well-founded sets can: a non-empty set of subsets has a
smallest member (`WFMin` on the strict subset order), so were the sum of some
set to depend on the order, a smallest such set would be a contradiction.
`PositionRowsProofs` has what follows from that: a sum with one element more,
one changed, or none.

**Swing scheduler** (`SwingScheduleProofs`, from `ScheduleAssumption`): there is
a portfolio, the calendar has its first day, and a nightly is never scheduled
inside the session, which `validate` refuses.

- `SessionsDecidedOnce`: the journal is asked before a decision and written
  after it, so the invariant (`DecidedAlone`) ties the two: whoever is deciding
  a session for a portfolio finds no completed record of it, and is alone, unless
  the three are in `raced`.
- `RebalanceOnFinishedSessions`: needs that the index never runs ahead of the
  vendor and that a bar of today stored inside the session is in `halfDays`
  (`BarsServed`), and that a rebalance in flight is inside the session and
  decides the newest stored bar (`RunSound`).
- `DoneIsDecided`: "done" is set by a run that passed *all* portfolios, while
  the record is asked for per strategy; `NightlySound` carries the record from
  the first portfolio to the end of the run, and across a restart through the
  journal.
- `MissedIsFinal`: what is missed is older than the newest bar (`MissedPast`)
  and the scheduler's own run decides only the newest.

**Swing stops** (`SwingStopsProofs`, from `StopsAssumption`).
`StopsNeverFall`, `HoldingsGuarded`, `ShortsExplained`. The properties are
inductive only together and with facts the code nowhere states: at most
one row is ACTIVE (`create` refuses a second), an ACTIVE row has no exit order
yet, and the row of an exit in flight has fired (`ExitRow`): otherwise closing
it could end a guard, and the next entry would find another row in its way.
`ShortsExplained` rests on `SizedRight`: without an overlap, what the rebalance or
the monitor has decided to sell is still held when it sells it, although the row
is read afresh; it needs to know of a rebalance about to sell that no entry came
since it read its holdings (`RebalanceCovers`).

**Chart trading** (`ChartTradingProofs`, from `ChartAssumption`).
`OptionsNeverWritten`, `HoldingsUnderTrades`, `OneTradeAtATime`. All three are
statements about two copies of the tables, the committed one and the monitor's
uncommitted one (`TablesSound`), and about what was read before
(`JobsFresh`: a click still finds no open trade and a close still holds the
stored quantity, in every portfolio not in `crossed`). `WorkAhead` says the
uncommitted pass only closes trades, so that what a session reads behind its
back can be out of date in one way only.

**Feed** (`FeedSubscriptionsProofs`, from `FeedAssumption`).

- `ServerStreamsWhatIsBelieved`: the property speaks of a moment with nothing
  left to send; the invariant of every moment. For each instrument not in
  `crossed`, what the client believes is either pending or what the server will
  do once it has received the queue, by the *last* message in it about that
  instrument (`Wired`); and what is pending is flushed in the order of the
  connection's steps (`SocketSound`).
- `SubscribedAreDescribed`: one resync at a time (`Alone`), and at each of its
  awaits what it is about to subscribe is already described and what it is about
  to forget is not subscribed (`Plan`).

**Only model-checked**, and why:

- Liveness (`NoOrderStarves`, `TriggerIsAnswered`, `StreamComesBack`,
  `WindowReachesFeed`, `AlertsSettle`, `ExitComesBack`, `BracketsAnswer`,
  `CatchesUp`): outside the prover, as is ENABLED.
- What a fold over a log or a rate card computes (`SingleLevelReplayAgrees`,
  `ChargesOnlyGrow`, `EveryOccurrenceCounted`, the last conjunct of
  `NeverInventsQuantity`): the minimal-counterexample argument used for the sums
  would have to be repeated for each fold, since a lemma cannot be stated of an
  arbitrary operator.
- `NothingUntold` of `BookFanout`, `NoShareForgotten`, `NeverSoldShort` and
  `DoneMeansFlat` of `BtstOvernight`, `RepeatsAreExplained` and
  `ConditionCadence` of `AlertOutbox`: within reach, not attempted.

## 6. Plan

Done: the order core, position book, fill simulator and charges, reports; the
swing scheduler, rebalance and stops; BTST; chart trading; the feed; the market
book's fan-out; the alert outbox; the two abstract specifications; and the
proofs above. What is left, in order:

1. Proofs: `NeverSoldShort` and `DoneMeansFlat` of `BtstOvernight`, whose
   invariant has the shape of chart trading's (what a job read still holds,
   unless two writers met); then `RepeatsAreExplained` of `AlertOutbox`.
2. The deletion of a portfolio against a placement in flight, and the
   credential row of the token renewal.

## 7. What is not modelled, and why

The map covers the control of the trading core and of the background tasks. It
covers a small share of the repository's lines, and most of the rest cannot be
modelled to any purpose: half of them are pages and components of the browser
(`src/frontend`) and offline research (`src/experiments`), and a good part of
the backend is reporting, rendering, validation of settings and numerical work
without a state that steps could disturb.

- Statistics and pricing (`market/services/black76.py`, `greeks_poller.py`,
  `candle_service.py`, `swing/services/ranking_service.py`, `indicators.py`, the
  BTST screen): floating point over data, no state to interleave.
- Health pages, reports and digests (`swing_health_service.py`, `health/`,
  `ipo/` views, `reports/` aggregations): read-only.
- `synthetic_feed.py`, `instruments/`, `ipo/`, `notes/`, and the upsert of
  `daily_bars/`: single-writer imports.
- Token renewal: one row and two writers; its race is listed as a hazard.
- Users and authentication: single-row changes behind a check.
- Lot and freeze-quantity validation, order events, previews, the parsing of
  strategy definitions, the lint of rate cards, the strike-based base of option
  exercise charges, binary packet decoding, wording and formatting: no property
  here depends on them.
- PostgreSQL: the isolation modelled is SQLite's, the shipped default.
