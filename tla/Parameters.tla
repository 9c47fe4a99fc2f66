------------------------------ MODULE Parameters ------------------------------
(***************************************************************************)
(* The way of the parameters from the optimizer to the bot: a point of the *)
(* search space is scored in trials (internal/optimizer/eval), the best    *)
(* one is written into a configuration (internal/optimizer/report), and    *)
(* the bot builds its strategy from that file (internal/config).           *)
(*                                                                         *)
(* What is compared is all a strategy is built with, and what its position *)
(* trails with.                                                            *)
(***************************************************************************)
EXTENDS StrategyOptions

CONSTANTS
    Strategies,     \* the strategies looked at
    Numbers         \* what the optimizer draws for a number, none of them a default

VARIABLES
    stage,      \* how far the parameters have come
    strategy,   \* its type
    params,     \* the sample
    scored,     \* what the trial was run with
    config,     \* the strategy section of the configuration
    traded      \* what the bot runs with

vars == <<stage, strategy, params, scored, config, traded>>

None == [none |-> 0]

-----------------------------------------------------------------------------
(* The search space                                                        *)

Switches == {"volumeFilter", "longOnly", "requireInsideRange", "takeProfitEnabled",
             "entryAtClose", "allowAllTickers", "rangeUseCap"}

Exits == {"rewardRatio", "atrMultiplier", "trailActivationR", "trailStageMax",
          "maxEntriesPerTickerPerDay"}
Volume == {"volumeFilter", "volumeFilterMultiplier"}

\* The keys of the search space configs/strategies has for the type.
SearchSpace(type) ==
    CASE type = "momentum_breakout" ->
            {"lookback", "breakoutThreshold", "volumeFilterMultiplier", "trailDiscreteStepR"}
                \cup (Exits \ {"rewardRatio"})
      [] type = "momentum_filtered" ->
            {"lookback", "breakoutThreshold", "longOnly", "trendSMAPeriod",
             "strategyEntryDelayMinutes", "trailDiscreteStepR"} \cup Volume \cup Exits
      [] type = "momentum_sber_daytrend" ->
            {"lookback", "breakoutThreshold", "longOnly", "strategyEntryDelayMinutes"}
                \cup Volume \cup Exits
      [] type = "mean_reversion" ->
            {"lookback", "fadeThreshold", "trailDiscreteStepR"} \cup Volume \cup Exits
      [] type = "opening_range" ->
            {"orbMinutes", "breakoutThreshold", "trailDiscreteStepR"} \cup Exits
      [] type \in {"opening_range_continuation", "session_orc"} ->
            {"orbMinutes", "breakoutThreshold", "trailBreakevenR"} \cup Exits
      [] type \in {"opening_range_fade", "session_or_fade"} ->
            {"orbMinutes", "breakoutThreshold", "fadeWindowMinutes", "fadeTradeEndMinutes",
             "requireInsideRange", "trailBreakevenR"} \cup Exits
      [] type = "afternoon_range_fade" ->
            {"rangeStartMinutes", "rangeEndMinutes", "breakoutThreshold", "fadeWindowMinutes",
             "fadeTradeEndMinutes", "requireInsideRange", "trailBreakevenR"} \cup Exits
      [] type = "vwap_pullback_continuation" ->
            {"orbMinutes", "breakoutThreshold", "minMinutesAboveVWAP",
             "strategyEntryDelayMinutes", "trailBreakevenR"} \cup Volume \cup Exits
      [] type = "prev_day_level_breakout" ->
            {"strategyEntryDelayMinutes", "entryEndMinutes", "breakoutThreshold",
             "trailBreakevenR"} \cup Volume \cup Exits
      [] type = "midday_compression_breakout" ->
            {"lookback", "atrBars", "compressionPercentile", "compressionStartMinutes",
             "compressionEndMinutes", "entryEndMinutes", "breakoutThreshold"}
                \cup Volume \cup Exits
      [] type = "late_session_imbalance" ->
            {"volumeFilterMultiplier", "entryStartMinutes", "entryEndMinutes"} \cup Exits
      [] type = "session_gap_drive" ->
            {"gapThreshold", "entryEndMinutes", "trailBreakevenR"} \cup Exits
      [] type = "random_entry" ->
            {"lookback", "entryProbability", "seed", "strategyEntryDelayMinutes", "longOnly",
             "atrMultiplier", "rewardRatio", "maxEntriesPerTickerPerDay"}

\* Sample: one draw for the switches and one for the numbers.
Samples(type) ==
    {[key \in SearchSpace(type) |-> IF key \in Switches THEN switch ELSE number] :
        switch \in {0, 1}, number \in Numbers}

-----------------------------------------------------------------------------
(* The registry                                                            *)

\* newXFromParams of the type
Options(type, p) ==
    CASE type = "momentum_breakout"           -> MomentumOptions
      [] type = "momentum_filtered"           -> FilteredOptions
      [] type = "momentum_sber_daytrend"      -> DaytrendOptions
      [] type = "mean_reversion"              -> MeanReversionOptions
      [] type = "opening_range"               -> OpeningRangeOptions
      [] type = "opening_range_continuation"  -> ORCOptions(0)
      [] type = "session_orc"                 -> ORCOptions(1)
      [] type = "opening_range_fade"          -> ORFadeOptions(0)
      [] type = "session_or_fade"             -> ORFadeOptions(1)
      [] type = "afternoon_range_fade"        -> AfternoonFadeOptions(p)
      [] type = "vwap_pullback_continuation"  -> VWAPOptions
      [] type = "prev_day_level_breakout"     -> PrevDayOptions
      [] type = "midday_compression_breakout" -> MiddayOptions
      [] type = "late_session_imbalance"      -> LateOptions
      [] type = "session_gap_drive"           -> GapOptions
      [] type = "random_entry"                -> RandomOptions(p)

\* ParamsToConfigFields of the type
Fields(type, p) ==
    CASE type = "momentum_breakout"           -> MomentumFields(p)
      [] type = "momentum_filtered"           -> FilteredFields(p)
      [] type = "momentum_sber_daytrend"      -> DaytrendFields(p)
      [] type = "mean_reversion"              -> MeanReversionFields
      [] type = "opening_range"               -> OpeningRangeFields
      [] type \in {"opening_range_continuation", "session_orc"} -> ORCFields(p)
      [] type \in {"opening_range_fade", "session_or_fade"}     -> ORFadeFields
      [] type = "afternoon_range_fade"        -> AfternoonFadeFields
      [] type = "vwap_pullback_continuation"  -> VWAPFields
      [] type = "prev_day_level_breakout"     -> PrevDayFields
      [] type = "midday_compression_breakout" -> MiddayFields
      [] type = "late_session_imbalance"      -> LateFields
      [] type = "session_gap_drive"           -> GapFields(p)
      [] type = "random_entry"                -> RandomFields

-----------------------------------------------------------------------------
(* The optimizer                                                           *)

\* trailCfg of the evaluator, which does not ask for trailBreakevenR.
TrialTrail(p) ==
    ReadAll(p, [activationR |-> Positive("trailActivationR", 100),
                discreteStepR |-> Positive("trailDiscreteStepR", 100),
                stageMax |-> Positive("trailStageMax", 2),
                breakevenR |-> Always(0)])

\* newTrialContext
TrialOf(type, sample) ==
    LET p == [atrPeriod |-> ReadOne(sample, Positive("atrPeriod", 14))] @@ sample IN
    [options |-> ReadAll(p, Options(type, p)),
     trail |-> TrialTrail(sample),
     maxTrades |-> ReadOne(sample, Plain("maxEntriesPerTickerPerDay"))]

-----------------------------------------------------------------------------
(* The configuration                                                       *)

\* applyDefaults
WithDefaults(c) ==
    ReadAll(c, [lookback |-> Try(<<"lookback">>, 2, DefaultLookback),
                atr_period |-> Try(<<"atr_period">>, 2, DefaultATRPeriod),
                atr_multiplier |-> Positive("atr_multiplier", DefaultATRMultiplier)]) @@ c

\* TrailingConfig
BotTrail(c) ==
    ReadAll(c, [activationR |-> Positive("trail_activation_r", 100),
                discreteStepR |-> Positive("trail_discrete_step_r", 100),
                stageMax |-> Positive("trail_stage_max", 2),
                breakevenR |-> Positive("trail_breakeven_r", 0)])

TrailKeys == {"trail_activation_r", "trail_discrete_step_r", "trail_stage_max",
              "trail_breakeven_r"}

\* paramKeyForYAML: but for the first, what snakeToCamel makes of the keys, which
\* knows no abbreviations.
ParamKey ==
    [max_trades_per_ticker_per_day |-> "maxEntriesPerTickerPerDay",
     lookback |-> "lookback", seed |-> "seed",
     atr_period |-> "atrPeriod", atr_multiplier |-> "atrMultiplier", atr_bars |-> "atrBars",
     reward_ratio |-> "rewardRatio", breakout_threshold |-> "breakoutThreshold",
     fade_threshold |-> "fadeThreshold", gap_threshold |-> "gapThreshold",
     volume_filter |-> "volumeFilter", volume_min_ratio |-> "volumeMinRatio",
     long_only |-> "longOnly", trend_sma_period |-> "trendSmaPeriod",
     min_minutes_above_vwap |-> "minMinutesAboveVwap",
     strategy_entry_delay_minutes |-> "strategyEntryDelayMinutes",
     orb_minutes |-> "orbMinutes", entry_at_close |-> "entryAtClose",
     allow_all_tickers |-> "allowAllTickers", require_inside_range |-> "requireInsideRange",
     fade_window_minutes |-> "fadeWindowMinutes",
     fade_trade_end_minutes |-> "fadeTradeEndMinutes",
     range_start_minutes |-> "rangeStartMinutes", range_end_minutes |-> "rangeEndMinutes",
     entry_start_minutes |-> "entryStartMinutes", entry_end_minutes |-> "entryEndMinutes",
     compression_percentile |-> "compressionPercentile",
     entry_probability |-> "entryProbability", limit_offset_atr |-> "limitOffsetAtr",
     limit_expiry_bars |-> "limitExpiryBars",
     min_stop_bps |-> "minStopBps", take_profit_enabled |-> "takeProfitEnabled"]

\* toStrategyParams
ParamsOf(c) ==
    LET named == DOMAIN c \ TrailKeys
        p == [key \in {ParamKey[name] : name \in named} |->
                 c[CHOOSE name \in named : ParamKey[name] = key]]
    IN [rangeUseCap |-> 1] @@
       (IF Value(p, "volumeMinRatio") <= 0 /\ Value(c, "volume_filter") = 1
        THEN [volumeFilterMultiplier |-> DefaultVolumeMinRatio] ELSE <<>>) @@ p

\* BuildStrategy, and what the slot takes from the configuration itself.
BotOf(type, c) ==
    LET p == ParamsOf(c) IN
    [options |-> ReadAll(p, Options(type, p)),
     trail |-> BotTrail(c),
     maxTrades |-> ReadOne(c, Plain("max_trades_per_ticker_per_day"))]

-----------------------------------------------------------------------------
Init ==
    /\ strategy \in Strategies
    /\ stage = "search"
    /\ params = None /\ scored = None /\ config = None /\ traded = None

\* evaluateTrial
Trial ==
    /\ stage = "search" /\ stage' = "scored"
    /\ params' \in Samples(strategy)
    /\ scored' = TrialOf(strategy, params')
    /\ UNCHANGED <<strategy, config, traded>>

\* buildBestConfig
WriteBest ==
    /\ stage = "scored" /\ stage' = "written"
    /\ config' = ReadAll(params, Fields(strategy, params))
    /\ UNCHANGED <<strategy, params, scored, traded>>

\* Load
Load ==
    /\ stage = "written" /\ stage' = "loaded"
    /\ config' = WithDefaults(config)
    /\ UNCHANGED <<strategy, params, scored, traded>>

Start ==
    /\ stage = "loaded" /\ stage' = "trading"
    /\ traded' = BotOf(strategy, config)
    /\ UNCHANGED <<strategy, params, scored, config>>

Done == stage = "trading" /\ UNCHANGED vars

Next == Trial \/ WriteBest \/ Load \/ Start \/ Done

Spec == Init /\ [][Next]_vars

-----------------------------------------------------------------------------
\* A bot that runs the optimizer's best configuration trades with the very
\* parameters that were scored: no key is lost between the sample, the file and
\* the strategy, none is replaced by a default, and none that was never scored
\* takes effect.
TradesAsScored == stage = "trading" => traded = scored
=============================================================================
