# TLA+ specification of the BCS trading bot

The bot (Go, `src/`) trades intraday on one account. Market data comes over one
WebSocket; every experiment of the configuration runs one strategy per ticker;
all of them share one executor and one risk controller. The same signals and the
same position code run over history in the backtest. This directory holds TLA+
modules of that core, TLC configurations for small instances, and proofs checked
by TLAPS for all instances.

    tlasany M.tla                         parse
    tlc -workers 2 -config X.cfg M        model-check
    tlapm M.tla                           check the proofs of M

`PROJECT.json` lists components, runs, seeded faults, the map from definitions
to source lines, findings, hazards and theorems.

## 1. The system

    exchange ──WebSocket──> broker (session loop, alarm) ──dispatch──> datafeed routes
       ^                       │ Connect (OAuth)                       │ barCloser per route
       │ orders                │                                       v closed bars, ticks
    BCSClient / VirtualExecutor <──ExecuteOrder── SelfManagedStrategy (one goroutine per
                                                  experiment and ticker)
                        GlobalRiskController <──TryOpen, ReleaseOpen, RegisterClose──┘
                                    ^── ResetDaily ── StrategyRunner (30 s timer per slot)

    the raw stream ──> Recorder ──> day files        server ──History──> CSV of bars, charts
    recorded bars  ──> portfolio backtest ──> report, optimizer, warm-up of the live bot
    search space   ──> trial ──> best configuration ──config──> strategy and trail of the bot

| component | source | state | operations | what makes it correct |
|---|---|---|---|---|
| portfolio risk | `engine/risk/global.go` | day's result, reservation per ticker, breaker, date | TryOpen, AdjustOpenRisk, ReleaseOpen, RegisterClose, ResetDaily, PreTradeCheck | budget and worst case hold between any two calls; the breaker latches |
| slot risk, sizing | `engine/risk/manager.go` | day's loss of one slot | CalculatePositionSize, CapQuantityByCash, RegisterLoss, CheckCircuitBreaker | a slot over its limit opens nothing |
| virtual executor | `engine/execution` | cash, position per ticker | ExecuteOrder (open, close), GetBalance | cash agrees with the trade log |
| slot | `strategy/selfmanaged` | position, last price, EOD date, reset date, trade count | handlers of tick, candle, timer; entry; exit; EOD | slot and executor agree on who owns what; nothing stays overnight; no reservation leaks |
| session clock | `engine/session.go` | none | four predicates | EOD and entry window do not overlap |
| runner | `engine/runner.go` | none | reset loop | a reset falls between days |
| position, trailing | `engine/position`, `engine/trailing` | stop, target, stage, MFE | CheckExit, fills, Apply | the stop never loosens; fills are possible prices |
| trade audit | `engine/tradeaudit` | none | AnnotateTrade | live and backtest mark the same trade alike |
| backtest | `internal/backtest` | position, last close, portfolio | Run over bars, slots | same exits as live; exits before entries; the report is the account |
| data feed | `engine/datafeed` | routes, pending bar, last closed bar | Subscribe, Run, barCloser | each closed bar once, in order, complete |
| stream | `engine/broker/websocket.go`, `stream_alarm.go` | backoff, session, alarm | dial, read, reconnect, alert | comes back; tells a person what a person must fix |
| broker client | `engine/broker/client.go` | access token | Connect, orders, balance | an order is sent once, its outcome known |
| history download | `engine/marketdata` | CSV files, throttle delay | paging, retry, authorization | success means every bar, once, in order |
| recorder | `engine/wsrecord` | bounded queue, file of the day | Record, run, Close | nothing lost uncounted; the day's file can be read |
| dashboard | `engine/dashboard` | day's candles, last prices, sessions | Ingest, snapshots, HTTP | a day's chart has the day's bars |
| archives, export | `engine/api` | JSON file of archives | add, delete, list | file equals list |
| storage | `engine/storage` | SQLite tables, or lists | save, queries | |
| signal strategies | `internal/strategy` | ranges and averages of the day | OnCandle | what they know of the day is the market's; a limit is honest |
| configuration, optimizer | `internal/config`, `internal/optimizer` | none that outlives a call | trial, best configuration, load | what was scored is what trades |
| wiring | `internal/app`, `cmd/bot` | goroutines, channels | start, warm-up, shutdown | |
| export, logging, models, scripts | | none that outlives a call | | |

Hard behaviours: slots interleave at every call to a shared object; the daily
reset runs on timers of its own; an order may fail after its risk was reserved;
EOD may fall between a decision and its fill; updates of bars come late, twice,
out of order or not at all; tokens expire during outages; an order may be carried
out and its answer lost; a download or a recording may die between two writes;
live sees ticks and the backtest does not. Each is listed with its line under `hazards` in
`PROJECT.json`, with the properties that watch it or the reason why none does.

## 2. The modules

| module | models | kind |
|---|---|---|
| `GlobalRisk` | GlobalRiskController, one action per method | state machine |
| `VirtualExecutor` | the paper-trading account | actions only, composed by `Trading` |
| `SessionClock` | SessionClock | operators |
| `TickerLock` | what "one-position-per-ticker" promises | abstract specification |
| `Trading` | slots, executor, risk controller, reset loops and the clock together; instantiates the modules above and implements `TickerLock` | composition |
| `MCTrading` | constants of `Trading` for TLC | model |
| `Sizing` | size of an order, cap by cash, trading costs; used by `Trading` and `Backtest` | operators |
| `Position` | position and trailing stop, as functions from value to value | operators |
| `TradeAudit` | the marks of a closed trade | operators |
| `BarTrading` | one ticker traded live and in the backtest from one market | state machine |
| `BarFeed` | dispatch, bar closers, channels | state machine |
| `RangeStrategies` | OnCandle of the four strategies that trade a range of the day | operators |
| `SignalStrategies` | OnCandle of the other ten kinds | operators |
| `Signals` | one strategy of any kind among the bars of several days, as its slot runs it | state machine |
| `MarketStream` | stream loop, authorization, alarm | state machine |
| `RealTrading` | a slot's orders at the broker, with the token the stream loop renews; extends `MarketStream` | composition |
| `Backtest` | the portfolio backtest: slots, tickers, account, risk, report; instantiates `GlobalRisk` and `VirtualExecutor` | composition |
| `History` | download of bars into a CSV file or into memory | state machine |
| `Recorder` | queue, writer and day files of the raw stream | state machine |
| `MCBacktest` | constants of `Backtest` for TLC, with `History` and `Recorder` beside it | model |
| `StrategyOptions` | what each strategy reads of its parameters and writes into a configuration | tables |
| `Parameters` | from the search space over trial and file to the bot | state machine |
| `Sums` | theorems about sums over a finite domain | proofs |
| `GlobalRiskProofs`, `BarFeedProofs`, `BarTradingProofs`, `TradingProofs`, `SignalsProofs` | theorems about the module they are named for | proofs |
| `StreamProofs` | theorems about `MarketStream` and `RealTrading` | proofs |
| `BacktestProofs` | theorems about `Backtest`, and about `History` and `Recorder` as `MCBacktest` has them | proofs |

**GlobalRisk.** `openPositions` is a Go map; here it is total, and `NotOpen`
means "no entry". The sum over it is the cardinality of a set of risk units, so
that the proofs can argue about it with the theorems on finite sets.

**Trading.** A slot is one goroutine. Its handlers (tick, candle, EOD timer) are
lists of stages in the order of the code; a stage that calls a shared object
ends there, so the calls of different slots interleave while what a handler does
to its own fields does not. `pc` names the call a slot stands at:

    run ─EntrySignal─> sizing ─GetBalance─> sized ─TryOpen─> reserved ─ExecuteOrder─> run
                                                              └─refused─> releasing ─ReleaseOpen─> run
    run ─closePosition─> closing ─ExecuteOrder─> closed ─RegisterClose, SaveClosedTrade─> run
                          ├─no open position─> releasing ─ReleaseOpen─> run
                          └─any other error─> run, position restored

`now` is the `time.Now()` a handler began with: the clock may move on before the
handler asks about EOD. The only executor error besides its own two refusals is
a cancelled context, as in the code. Which price hits a stop is left open (any
price of `Prices`); `Position` and `BarTrading` settle that. Slippage and
commission are integers per unit, and the step value is 1.

**BarTrading.** The market moves inside a bar along the code's own
`IntrabarPath`, one price unit at a time, and runs against the live position
first. The live side handles each price; both sides handle each closed bar with
the same signal. A bar may open anywhere and any bar may be missing. Live and
backtest differ in two places, and the properties name both:
* A stop that a bar's close has passed ends the live position on that close, the
  backtest's on the next open. Where that open is another price, or the bar
  does not come, the two decide at different prices; `parted` collects
  the positions to which that has happened, by the bar of their entry.
* Live looks at the close of the entry bar (`selfmanaged.go:334-336`), the
  backtest does not. That close counts for the live position's best price, and so
  for a stop that is trailed behind it in the last stage. `AsLive` says what the
  live position is, given the backtest's; `EntryBarTrails` which trades have a
  stop that comes from that close.

A limit that was filled inside its bar says so in the signal (`IntrabarFill`), as
an entry at the close must not be taken for one. A trade is stored with its
final stop, its stage and its audit marks, and both sides store the same, with
one exception more that `SameExit` spells out: at EOD the backtest has trailed the
last bar before it closes and the live strategy has not, so the columns
FinalStopLoss and TrailStage of such trades may differ. The mark HOLD_VS_TF is
left out; it asks for seconds inside a bar.

**Backtest.** A bar is labelled with the instant it begins, `label`;
`exitsLeft` and `entriesLeft` are the slots that the two walks over the label
have still to visit, and `stage` is where the slot in hand stands. The walk of
entries begins when that of exits is over, and `Rank` is the order within a
walk, so each visit is a step and the order of the code is kept. What hits a stop inside a bar is the matter of `BarTrading`; here any price may.
`closeMissedEOD` is what a slot meets whose last bar of the day is missing. The
live bot's warm-up is the same run over the last days of history.

**History.** Bar *k* covers the time from *k* to *k* + 1; the bar that is forming is
among those the server returns, and the model keeps its unfinished row apart
(`final`). An attempt may be answered, answered short, found empty, refused for
its rate or its token, or broken; one renewal of the token per chunk. An answer
may begin with the bar before its window (`Seam`), which `candlesAfter` and
`dedupeCandles` take out again. A crash
writes a prefix of the rows in hand and leaves the last row whole, cut inside its
volume (which still reads as a number, until the next row is appended to it) or
broken; a file with a broken row cannot be read again.

**Recorder.** Messages are numbers, their day that of receipt. Each session of
the bot is a gzip member of the day's file; a member that was not closed hides
those behind it from a reader. A failed write or flush makes bufio refuse all
that follows, as in the library. `Exit` is the process ending while the loop
that reads the stream may still hand over a message.

**BarFeed.** An update is a pair of the bar's start and the instant the exchange
said it; prices are left out. Channels are bounded and block, in both
directions. Exchange time and wall clock are the same clock.

**RangeStrategies, SignalStrategies, Signals.** `opening_range.go`,
`opening_range_continuation.go`, `opening_range_fade.go` and
`afternoon_range_fade.go` share their first half (day, range) and differ in the
second; a strategy is a record and OnCandle a function from record and bar to
record and order. The other kinds are treated alike in `SignalStrategies`.
Indicators whose inputs are volumes or true ranges are arbitrary properties of
each bar (the VWAP's level, a quiet range, a coin); moving averages of closes
and highs of the last bars are computed. Whether a stop can be found is
arbitrary, too; it is two properties, because a filled limit asks before its bar
enters the history and a new order asks after. `busy` says that the slot does
not ask its strategy: that is what makes the strategies' memory a hazard,
because a strategy that is not asked does not notice that time passes. Late
bars, which the slot withholds as well, count as missing ones. The properties are
about days, ranges, limits, watches and what an order is for; which indicator
keeps one of the ten other kinds from an order is modelled, but no property
depends on it.

**MarketStream.** The branches of `SubscribeMarketDataFanOut` after a failed
session are actions: dial, dial with 401, connect, pause. An attempt takes no
time; time passes in pauses and sessions. A fresh access token is accepted and
outlives the attempt it was fetched for. The instants of the alarm are ages in
parts of a minute, capped where the code stops telling them apart; `Down` rounds
the outage to minutes before it compares, as the code does. The branch for a session that
ends without an error is not modelled: `runMarketDataSession` cannot return nil.

**RealTrading.** `believed` is what the slot thinks it holds, `account` what the
broker holds for it, signed. An order is carried out or not, and its answer comes
or does not; a limit order may be accepted and rest, which the code takes for
filled. Orders use whatever token is there and never renew it: the loop does,
when a session has ended, or a download for a chart.

**StrategyOptions, Parameters.** Options and written fields are tables from
names to the keys tried in turn; `Parameters` follows a sample through the trial
(`eval`), the best configuration (`report`), the file's keys (`snakeToCamel`, the
defaults of `applyDefaults`) into the bot. What is compared is all a strategy is
built with and what its position trails with.

## 3. The runs

| run | module, cfg | asks |
|---|---|---|
| `global_risk` | `GlobalRisk` | do budget, worst case and breaker survive every order of calls? |
| `trading_midday` | `MCTrading`, `trading_midday.cfg` | two slots on one ticker after a start in mid-session: who owns the position, is a reservation leaked, does cash add up, is it a lock? |
| `trading_day` | `MCTrading`, `trading_day.cfg` | two days, two tickers, two sessions: resets, limits, EOD |
| `trading_reset` | `MCTrading`, `trading_reset.cfg` | *violated*: a reservation lost to the first reset |
| `bar_trading` | `BarTrading` | does the backtest do what the live strategy does, over gaps and missing bars? |
| `late_bars` | `BarTrading`, `late_bars.cfg` | *violated*: a stop trailed on a price from before the entry |
| `bar_feed` | `BarFeed` | closed bars: once, in order, complete, none lost |
| `backtest` | `MCBacktest`, `backtest.cfg` | the programs on recorded data: is the report the account, does a trade end with its day, is risk kept, do exits come first; is a download that reports success complete; is a message in its file or accounted for? |
| `signals` | `Signals` | does a strategy that misses bars still act on this day's market, an honest limit, the right breakout? |
| `market_stream` | `RealTrading`, `market_stream.cfg` | does the stream come back, is the right person told, where do slot and account part, is a position closed after EOD? |
| `stream_alarm` | `MarketStream`, `stream_alarm.cfg` | *violated*: a refusal in the silent hour |
| `parameters` | `Parameters` | *violated*: a bot that does not trade what was scored |

Why the bounds are enough:

* `global_risk`: three tickers, risks 0 to 2, a budget of two full trades and a
  daily limit of 3: each answer of TryOpen and both ways into the breaker occur,
  and the third ticker is the one that is turned down. The theorems hold without bounds.
* `trading_midday`: two slots are enough for every race on a ticker. Both
  directions and two exit prices make gains and losses; the cash suffices for
  one position, so the cap and the refusal for want of cash both occur. The
  slots differ in nothing but the name, which is what the symmetry uses; the
  refinement is a safety property, so symmetry is sound for it.
* `trading_day`: a second day for resets; a session that skips it; EOD in the
  last minute of a day, where a closing that is late shows at once; a
  daily limit of a slot that one lost trade of two lots reaches, before the number
  of trades does. No symmetry, as there is a liveness property.
* `bar_trading`: five prices, R of two units, trailing in steps of half of R and
  two stages: breakeven, lock and the trail behind the best price all occur in a bar
  or two, and so does a position that only one side still holds. Three bars a
  day and one bar of the next day; one trade on each side, since sides that agree
  on one trade begin the next in the same state.
  `late_bars` lets one bar wait. A stop that is trailed on several bars of a day needs
  four of them; with `PartsOfR = 3`, `MaxPrice = 4`, `BarsPerDay = 4`,
  `LastInstant = 4`, stops at 2 or 3 and no target TLC has found `SameStop` and
  `StopNeverLoosens` to hold (7 million states); for all sizes both are proved.
* `backtest`: of the three slots two share a ticker, where order within a label
  matters, and the third has bars of two minutes, the last of which begins before
  EOD and ends at midnight; one slot has the second day off. The account pays for
  two positions. The download has five bars in chunks of two, so a range is cut
  in three, one retry, and a crash at every point. The recording has two days,
  four messages, room for two, and two failures, enough for a cut member with
  another behind it. The three programs share nothing but finished files and
  are alternatives of the initial state.
* `bar_feed`: buffers of one are the hardest case for blocking; two routes for
  one that waits on the other; a delay of two instants lets an update come after
  its bar's end, after the timer, and after the next bar.
* `signals`: four prices are enough for a range and a breakout on each side, also
  with the threshold, and for a bar that opens beyond a limit; a day has a bar
  before the session, two of the range, those in which entries are made, and the
  one that ends at EOD; any bar may be missing, though not two in a row; a second
  day for what is left of the first.
* `market_stream`: pauses 1 and 2; a minute of four ticks, so that an outage may be
  rounded down, up, and from exactly half a minute; the alarm's delay is one minute
  and has no common divisor with its repeat; one night a day; one lot at a time lost, resting or expired (the
  theorem has no such bound). `stream_alarm` has the longer pauses 1, 2, 4.
* `parameters`: the strategy whose counterexample has both findings in it. Put
  another into `Strategies` and the run answers for that one: `random_entry` and
  `late_session_imbalance` pass.

### Findings

1. **A reset drops live reservations** (`engine/risk/global.go:181`,
   `trading_reset`). A controller starts with an empty date, so the first call
   of ResetDaily always clears it, up to 30 seconds after the start. A bot
   started within the session may have opened by then. The ticker lock itself
   survives: `OneOwnerPerPosition` holds in `trading_midday`, where the same
   start happens, because the executor refuses a second position. The budget
   and the worst case do not count the position any more.
2. **A bar from before the entry trails the stop** (`selfmanaged.go:412`,
   `late_bars`). The guard compares with the entry bar, not with the moment of
   the entry. With `MaxLag = 0` (`bar_trading`), when bars are handled
   as they close, it cannot happen.
3. **A refused authorization may be silent for an hour** (`stream_alarm.go:30`,
   `stream_alarm`). The repeat interval is asked before the cause.
4. **A parameter is lost on the way to the bot** (`strategy_config.go:312`,
   `parameters`). `snakeToCamel` cannot restore abbreviations:
   `min_minutes_above_vwap` becomes a key no strategy reads, and so does
   `trend_sma_period`, the documentation's own example.
5. **A breakeven nobody scored** (`evaluate.go:149`, `parameters`). The trials
   never read `trailBreakevenR`, though it is drawn, written and applied by the bot.

Met while modelling, without a run of their own:

* **A break is taken for longer than it is** (`stream_alarm.go:33`). The outage is
  rounded to minutes before it is compared with the ten minutes of
  `streamDownAlertAfter`, so the alarm comes from 9m30s on, half a minute before
  what the comments say (lines 9-11 and 19; `architecture.md:136`). This is why
  `ShortBreaksAreSilent` leaves half a minute: with `outage >= AlertAfter`
  instead, TLC finds an alert that comes early.
* **The close of the entry bar trails one side alone** (`selfmanaged.go:334-336`
  against `backtest/runner.go`). Say R is 2, there is one stage, and a BUY at 10
  closes its entry bar at 14; the next bar is flat at 13. Live trails to 14 - 2, the
  backtest to 13 - 2. It takes a last stage that is reached, for the trail is
  continuous only there, and a gap against the position. The comments of both
  trails say that they do the same (`selfmanaged.go:398-399`, `runner.go:251`), and the replay
  test (`replay_history_test.go:305-309`) names other differences. With
  `live.pos.stop = bt.pos.stop` in place of `AsLive` in `SameStop`, `bar_trading` ends
  in such a state.
* A recorder that restarts the same day behind a cut gzip member writes what a
  reader of the file will not get; `recorder.go:11` says the file reads as usual.
  `RecordingIsComplete` claims readability only for days without a failure.
* A crash in the middle of a row leaves a CSV file that may hold a wrong row or
  be refused; `HistoryIsComplete` excepts it.
* The row of the bar that is forming is written and, in a file that grows, never
  written again.
* With other `Strategies` the run `parameters` shows more that is scored and not
  written: the trail of `momentum_breakout`, `momentum_sber_daytrend`,
  `mean_reversion` and `opening_range`, and the hours of the compression of
  `midday_compression_breakout` (`midday_compression_breakout.go:331-378`).
* Orders do not renew an expired token: without `[]<>(phase # "session")`, that
  is with a session of the stream that stands for ever, `ClosedInTheEnd` fails.
* The columns of trades closed at EOD (see BarTrading).
* The pause of the stream loop is reset by an authorization alone. The comments
  (`websocket.go:64-65`, `253-254`) also say by a successful session, but the
  branch that would do it is dead code: a session never ends without an error.
* `WriteCSV` (`csv.go:241-260`) asks for the writer's error before the deferred Flush:
  if the disk refuses the last buffer, the file is short and the download reports
  success. Writes that fail without a crash are not modelled.

### Fairness

* `Trading`: a handler that has begun goes on (a goroutine is scheduled, every
  call returns); the reset timers fire; the clock runs. `SF` on the EOD timer of
  a slot: `select` picks at random among ready cases, so a stream of ticks does
  not keep it away for ever. `Settled` says what 30-second timers mean at
  one-minute resolution: what is due at a minute is done before it is over.
  Nothing is assumed about ticks and candles: a position is closed even if none comes.
* `BarFeed`: readers read, senders send when there is room, the clock runs, `SF`
  on the closer's timer for the same reason. Nothing is assumed about the exchange.
* `MarketStream`: attempts end (every call has a timeout), time passes, and a
  session without a network ends at its read deadline. A session with a network
  may last for ever or end at once.
* `RealTrading`: the same, and `SF` on an accepted closing order after EOD: the
  slot's EOD timer asks every 30 seconds, and a broker that is reached with a good token again
  and again accepts one of them. `ClosedInTheEnd` itself assumes a server that
  can be reached from some moment on and sessions that keep ending.
* `Backtest`, `History`, `Recorder`, `Signals`, `BarTrading`: none; their
  properties are about safety.

## 4. The proofs

All proofs hold for every value of the constants that satisfies the named
assumption of the module. Four theorems have a hypothesis of their own, named and
discussed below (`DayOpensFirst`, `OpenInTheMorning` and, twice, `MaxLag = 0`);
nothing else is assumed.

**Risk.** `GlobalRiskProofs`: `TypeCorrect`, `BudgetIsRespected`,
`WorstCaseIsCovered`, `BreakerLatches`. The invariants are inductive once the
sum is understood: lemmas say what the number of risk units becomes when a
reservation is made, changed or removed (disjoint units, monotone cardinality).

**Sums.** `SumFunction` is a fold, that is, a recursive function chosen over all
subsets of a domain. `Sums` shows that there is such a function and only one, by
induction on subsets: the library's theorem that a well-founded set has minimal
elements gives the induction without an operator as a parameter, with a set of
good subsets in the predicate's place. `SumOfUpdate`, what a sum becomes when
one value changes, is what the ledgers need.

**Trading.** `TradingProofs`: `TypeCorrect` for the composed system, one lemma per
group of actions. Two facts beyond types are needed: a slot that stands at a
call has an order with a positive quantity, and the trade counter of a slot
about to open is below its limit (`tradesToday` would leave its type otherwise).

On ownership: `PositionsHaveOneOwner`, `TradingImplementsLock`,
`LedgerIsTheLog`. A step of the program is quiet for ownership, opens one
position or closes one. Ownership is inductive *without* the risk reservations,
which is why finding 1 does not break it: what matters is that the executor
refuses a taken ticker, and that a slot is an owner from the fill until the
close is confirmed. The refinement follows: a fill acquires, a confirmed close
releases, everything else stutters, a close that failed included. The ledger
adds what each of the three kinds does to cash, to the reserved notional and to
the log; results that are confirmed and not yet saved count by `Unbooked`.

On the trading day:
* `SlotLimitHolds`: only a slot's own close raises its loss, and a slot that
  stands at a close is not about to open.
* `NoReservationLeaks` (`ReservedInv`). A step keeps the reservations as they are,
  reserves, gives one back, or resets the day. The strengthening is that a slot
  in the middle of a call holds no position (`EmptyHanded`): it has handed it to
  the call, and is the user of the reservation until the call is over. After a
  reset two slots may use one ticker; the theorem needs no more than one that does.
* `NothingIsHeldOvernight`: what is true of a slot by the clock, the instant its
  handler began with and its `pc` (`DayInv`): a handler in progress is of this minute or
  of the last of a day, and once a day is marked as closed a slot has nothing in
  the market or on its way there, also by a handler that began before EOD.
* `PositionsAreCovered` has the hypothesis `DayOpensFirst`: the bot starts before
  any slot's first entry of the day, and on each day of a slot some slot opens
  before that slot's first entry. Finding 1 is what happens without. The run
  `trading_day` satisfies it; a configuration with one experiment and
  `entry_delay_minutes: 0` does not, since the reset loop's tick may then come
  after the first entry.

**Bars.** `BarFeedProofs`: `TypeCorrect`, `StrategySeesClosedBars`,
`StrategySeesBarsInOrder`, `BarsCloseWithTheirLast`. The invariant follows a bar
along its way: an update on its way is not from the future; a bar that is sent,
waiting or handled is over; times grow from the strategy's last bar through the
channel and the closer's hand to the last bar closed and the pending one. For the
last theorem it follows the last update of each bar that may still be closed: it
waits in the closer, in its channel or in the dispatcher, nothing there is newer,
and updates of one bar arrive in the order in which they were made.

**Stream.** `StreamProofs`: `TypeCorrect`, `AllClearReachesThePerson`,
`NobodyCalledForShortBreaks`. The strengthening ties the alarm to the truth: the
last message is not "ok" only while the alarm remembers an alert, the alarm never
believes in a longer outage than there is, but for what rounding adds
(`RoundedAddsHalfAMinute`), and in a session it remembers nothing.
`BooksArePartedBySilence`, for orders of any size and any number of lost answers:
account + resting + expired = believed + lost is inductive with the types of its
five terms, because an order adds its quantity to exactly one term of each side,
or to none.

**Backtest.** `BacktestProofs`:
* `ReportIsTrue` (`AccountInv`): executor and slots agree on who holds a ticker
  and on what, so each close moves account and report by the same net result.
* `TradesEndTheirDay` (`TimeInv`): where a bar may end. A position is younger than
  a day when the exits of a bar are done (`OldOnesAreGone`), its slot's last bar
  is of the day it was opened in, or ended at the following midnight
  (`LastBarIsOfTheDay`), and no entry is made at or after EOD. It needs that a
  bar's length divides the day, which `BacktestAssumption` states and the time
  frames of `timeframe.go` satisfy.
* `ExitsComeFirst`: the two walks of a label.
* `TodaysRiskIsReserved` (`ReserveInv`) has the hypothesis `OpenInTheMorning`: no
  session opens at 00:00. With one that does, a bar that ends at midnight resets
  the controller to the new day while shorter bars of the old one are still to
  come, and these reset it back. No configuration of the repository has such a session.

**Download.** `DownloadsAreComplete`, in `BacktestProofs`: for any range, any set
of bars, any number of retries and windows of any length (`HistoryAssumption`
says that a window has bars). What is promised is about a download that is over,
so it says nothing while one runs; `DownloadInv` does:
* what is kept, in the file and in memory, is complete up to its last bar
  (`Complete`), also behind a crash, for a prefix of the new rows is appended;
* between the last bar kept and the start of the next window nobody has traded
  (`NothingSkipped`), which is why an empty window may be skipped and why the
  next one begins behind the last bar received and not behind the window;
* an answer consists of the first bars of its window, perhaps behind the seam
  (`AnswerIsSound`).

`NewerRows` says what `candlesAfter` leaves of such an answer, by the least index
of a newer row. The theorem gives more than the property asks for: the rows of a
spoilt file are complete, too, as far as anybody can read them.

**Recording.** `RecordingsAreComplete`, in `BacktestProofs`: for any number of days
(at least one, `RecorderAssumption`), messages, failures and any size of the
queue. The invariant is an account (`Account`): each message received is in the
text of its day, waits in the queue, or is gone, dropped or lost, and never two
of these; all texts grow, and everything written is older than what waits. Only
the last part makes appending keep the order, since a message is written on the
day of its receipt and perhaps after midnight. Each step moves messages from
one of the three places to another: `AccountOfMessage`, `AccountOfWrite`,
`AccountOfLoss`. A failed flush, a file that is closed badly and a crash have one
lemma, in which the open file keeps the first k messages of its buffer
(`BufferCut`). Besides that a member is cut only on a day on which a writer failed
or died (`ClosedUnlessSpoilt`), so that a reader gets everything on the other
days; and the queue is empty when Close is back, so that the end of the process
loses nothing unseen. The text of a file is `FlattenSeq` of its members, a
recursive function chosen over the number of texts: `FlatteningExists` and
`BuiltOnce` show that there is one and only one, by `NaturalInduction` of `Sums`,
and `FlattenAppended` what a member more makes of it.

TLC checked `DownloadInv` and `RecordingInv` on the run's instance before they
were proved.

**Live and backtest.** `BarTradingProofs`: `TypeCorrect`, `StopsNeverLoosen`,
`FillsStayInsideBar`, for every scale of prices, every trailing configuration and
every number of closed bars that wait. `Apply` loops over the stages; its recursive function
is shown to exist and each pass to move the stop one way only, by induction over
the stages with `NaturalInduction` of `Sums`, which speaks of sets and needs
no operator as a parameter. A position that is opened again in the same
step is a new one because a closed bar ends positions older than itself alone.
The backtest's fills are settled by the lemma on its walk, `Walk`: what it does is told by
the first of the four prices that hits. A stop that is reached after the
open was behind the open, so its level lies in the bar.

`BothEndAlike` and `BothTrailAlike` say that live and backtest agree, under the
hypothesis `MaxLag = 0`: a closed bar is handled before the market moves on. That
is what `bar_trading` checks. Without it `SameExit` is false
(with `MaxLag = 1` TLC finds an entry on a bar that has been overtaken), as is
`TrailsOnPricesSinceEntry` in `late_bars`. Nothing is asked of the market: bars
gap and fail to come as they like. Where the sides differ is said by the properties
(`AsLive`, `parted`, `EntryBarTrails`; section 2); plain equality of the stops would
be too much (section 3). Neither property is
inductive: the live side acts on each tick, the backtest once behind the bar, so
within a bar they differ. `StepInv` says how, by phase:
* `Quiet`, between bars: both hold a position, the live one being what `AsLive`
  makes of the backtest's (`TwinsAt`), or one of them has ended it;
* `InBar`, on the route of ticks: as long as both hold it, its level has missed every price of
  the path that is behind (`OnRoute`), so that the backtest's walk will miss them too;
* `Waiting`, behind a bar: the walk of that bar comes to the same end.

A closer live stop needs lemmas of its own: trailing keeps a pair of positions
apart by the entry bar's close alone (`ApplyAsLive`), and what hits the one stop
hits the other, or the trade has a stop that comes from that close (`TwinStops`,
`TwinMisses`, `TakeAlike`).

What the live side has ended and the backtest still holds is owed: each phase
names the trade that the backtest must yet make of it (`DueIdle`, `DueOn`,
`DueClosed`), at the next open, in the walk of this bar, or at EOD. `Pair` keeps
apart what was entered on different bars. A trailed stop that has passed the close ends
the live position at once and the backtest's with the next open; when that open is
another price, the debt is written off, and only then (`parted`).

**Signals.** `SignalsProofs`, for all thirteen kinds, every session, every scale
of prices and every parameter: `TypeCorrect`, `StrategiesKnowTheDay`,
`OrdersAreTradable`, `BusySlotsWaitForNothing`, `LimitsAreKept`, `FadesAreFresh`,
`PullbacksContinue`. Half of the module is a lemma for each operator of
`RangeStrategies` and `SignalStrategies`: what a bar makes of range, open, limit
order and watch, and for which price an order is. The other half is the
invariant `SignalInv`, which ties three histories together: the strategy's, which
misses the bars at which its slot is busy; the market's window of the day; and
the breakouts as an onlooker counts them (`outside`).
* A strategy that keeps a range or an open has begun the day that is on, or the
  day is past the last minute of entries, when nothing can come of it
  (`KeepsTheDay`); in between it has the market's values (`KeepsTheRange`,
  `KeepsTheOpen`). The key is `DayBegins`: a bar that is
  shown opens a new day for the strategy exactly when it does so for the market,
  so a slot that comes free again does not mistake the middle of a day for its start.
* A watch is the onlooker's last breakout (`FadesTheLast`), the side of a pullback
  the first of the day (`FollowsTheFirst`); only the kinds that make limit orders or watches
  have any (`KeepsToItsKind`).

Days and minutes are quotients and remainders of the time; that both grow with it
is `TimeGoesOn`. The three action properties follow from the same invariant, step
by step. TLC checked `SignalInv` on the run's instance before it was proved.

**Only model-checked:**
* liveness (`EveryPositionIsClosed`, `EveryBarCloses`, `OutageIsAlerted`,
  `Reconnects`, `ClosedInTheEnd`): TLAPS has no means for fairness and ENABLED here.

Every invariant and action property of a passing run is stated by a theorem.
`StopsNeverLoosen` is the one theorem on a property that no run checks.

## 5. Not modelled, and what may come next

Left out for good: formatting, HTML and JSON, SQL, the rest of the configuration
files, numeric search, objectives and charts of the optimizer, reports, time
zones, floating-point rounding, MAE and journal fields, logging, scripts. They
keep no state that two calls share, or none that decides anything.

Left out, and possible:

* the dashboard's hub (the candles of a day; it displays and decides nothing),
  archives and sign-in sessions (a list behind one mutex);
* storage that fails: a trade that cannot be saved is logged only;
* a restart with positions held: the slot begins without them, `OpenSlots` of
  `Backtest` says which those are;
* a server that refuses a fresh token, and the pinger that outlives its session;
* the throttle of the download, which adapts its pauses, and tickers fetched side by side.
