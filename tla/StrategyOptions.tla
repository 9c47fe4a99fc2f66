---------------------------- MODULE StrategyOptions ----------------------------
(***************************************************************************)
(* What each strategy (src/internal/strategy) makes of its parameters and  *)
(* which of them it writes into a configuration, as tables.  strategy.     *)
(* Params is a function from some keys to numbers; ratios and shares count *)
(* in hundredths and a switch is 0 or 1.  An entry of a table says which   *)
(* keys are tried in turn, the least value that is taken, and the default. *)
(*   ...Options   newXFromParams with normalized: option of the strategy   *)
(*   ...Fields    XConfigFields: key of the configuration                  *)
(* The stop mode passes through unchanged and is left out, as is           *)
(* rangeUseCap of the fields, which none writes; probabilities are between *)
(* 0 and 1.                                                                *)
(***************************************************************************)
EXTENDS Integers, Sequences, TLC

Try(keys, least, default) == [keys |-> keys, least |-> least, default |-> default]

\* A number as it is; a number that has to be positive; and one that is there or not.
Plain(key) == Try(<<key>>, 1, 0)
Positive(key, default) == Try(<<key>>, 1, default)
Switch(key, default) == Try(<<key>>, 0, default)
Always(value) == Try(<<>>, 0, value)

\* Params.Float, Int and Bool: a missing key is 0, or not there at all.
Value(params, key) == IF key \in DOMAIN params THEN params[key] ELSE -1

ReadOne(params, entry) ==
    LET taken == SelectSeq(entry.keys, LAMBDA key : Value(params, key) >= entry.least)
    IN IF taken = <<>> THEN entry.default ELSE params[taken[1]]

ReadAll(params, table) == [name \in DOMAIN table |-> ReadOne(params, table[name])]

-----------------------------------------------------------------------------
(* What many strategies share                                              *)

DefaultLookback == 20
DefaultATRPeriod == 14
DefaultATRMultiplier == 200
DefaultVolumeMinRatio == 150

StopOptions(atrMultiplier) ==
    [atrPeriod |-> Try(<<"atrPeriod">>, 2, DefaultATRPeriod),
     atrMultiplier |-> Positive("atrMultiplier", atrMultiplier),
     rangeUseCap |-> Switch("rangeUseCap", 1)]

\* commonStopOptsFromParams
CommonStopOptions ==
    [minStopBps |-> Plain("minStopBps"), takeProfitEnabled |-> Switch("takeProfitEnabled", 1)]

\* configFields
CommonStopFields ==
    [min_stop_bps |-> Plain("minStopBps"), take_profit_enabled |-> Switch("takeProfitEnabled", 1)]

StopFields ==
    [atr_period |-> Plain("atrPeriod"), atr_multiplier |-> Plain("atrMultiplier"),
     max_trades_per_ticker_per_day |-> Plain("maxEntriesPerTickerPerDay")]

TrailFields ==
    [trail_activation_r |-> Plain("trailActivationR"),
     trail_stage_max |-> Plain("trailStageMax"),
     trail_breakeven_r |-> Plain("trailBreakevenR")]

VolumeRatio(default) == Try(<<"volumeMinRatio", "volumeFilterMultiplier">>, 1, default)
EntryEnd(default) == Try(<<"entryEndMinutes", "fadeTradeEndMinutes">>, 1, default)

-----------------------------------------------------------------------------
MomentumOptions ==
    StopOptions(DefaultATRMultiplier) @@ CommonStopOptions @@
    [lookback |-> Try(<<"lookback">>, 2, DefaultLookback),
     rewardRatio |-> Positive("rewardRatio", 300),
     breakoutThreshold |-> Plain("breakoutThreshold"),
     volumeFilter |-> Switch("volumeFilter", 1),
     volumeMinRatio |-> VolumeRatio(DefaultVolumeMinRatio)]

\* Without volumeFilter the field says whether there is a volumeFilterMultiplier.
MomentumFields(params) ==
    StopFields @@ CommonStopFields @@
    [lookback |-> Plain("lookback"), reward_ratio |-> Plain("rewardRatio"),
     breakout_threshold |-> Plain("breakoutThreshold"),
     volume_filter |->
        Switch("volumeFilter", IF Value(params, "volumeFilterMultiplier") > 0 THEN 1 ELSE 0),
     volume_min_ratio |-> VolumeRatio(0)]

FilteredOptions ==
    MomentumOptions @@
    [longOnly |-> Switch("longOnly", 0), trendSMAPeriod |-> Plain("trendSMAPeriod"),
     strategyEntryDelayMinutes |-> Plain("strategyEntryDelayMinutes")]

FilteredFields(params) ==
    MomentumFields(params) @@
    [long_only |-> Switch("longOnly", 0), trend_sma_period |-> Plain("trendSMAPeriod"),
     strategy_entry_delay_minutes |-> Plain("strategyEntryDelayMinutes")]

DaytrendOptions ==
    MomentumOptions @@
    [longOnly |-> Switch("longOnly", 0),
     strategyEntryDelayMinutes |-> Positive("strategyEntryDelayMinutes", 150)]

DaytrendFields(params) ==
    MomentumFields(params) @@
    [long_only |-> Switch("longOnly", 0),
     strategy_entry_delay_minutes |-> Positive("strategyEntryDelayMinutes", 150)]

MeanReversionOptions ==
    StopOptions(DefaultATRMultiplier) @@
    [lookback |-> Try(<<"lookback">>, 2, DefaultLookback),
     fadeThreshold |-> Plain("fadeThreshold"), rewardRatio |-> Positive("rewardRatio", 150),
     volumeFilter |-> Switch("volumeFilter", 0), volumeMinRatio |-> VolumeRatio(0)]

MeanReversionFields ==
    StopFields @@
    [lookback |-> Plain("lookback"), fade_threshold |-> Plain("fadeThreshold"),
     reward_ratio |-> Plain("rewardRatio")]

-----------------------------------------------------------------------------
OpeningRangeOptions ==
    StopOptions(DefaultATRMultiplier) @@
    [orbMinutes |-> Positive("orbMinutes", 30), rewardRatio |-> Positive("rewardRatio", 200),
     breakoutThreshold |-> Plain("breakoutThreshold")]

OpeningRangeFields ==
    StopFields @@
    [orb_minutes |-> Plain("orbMinutes"), reward_ratio |-> Plain("rewardRatio"),
     breakout_threshold |-> Plain("breakoutThreshold")]

\* allowAll is the type's own: session_orc trades every ticker.
ORCOptions(allowAll) ==
    StopOptions(DefaultATRMultiplier) @@ CommonStopOptions @@
    [orbMinutes |-> Positive("orbMinutes", 30), rewardRatio |-> Positive("rewardRatio", 260),
     breakoutThreshold |-> Plain("breakoutThreshold"),
     entryAtClose |-> Switch("entryAtClose", 0),
     allowAllTickers |-> Switch("allowAllTickers", allowAll)]

\* allow_all_tickers is written only when it was given.
ORCFields(params) ==
    StopFields @@ TrailFields @@ CommonStopFields @@
    [orb_minutes |-> Plain("orbMinutes"), reward_ratio |-> Positive("rewardRatio", 260),
     breakout_threshold |-> Plain("breakoutThreshold"),
     entry_at_close |-> Switch("entryAtClose", 0)] @@
    IF "allowAllTickers" \in DOMAIN params
    THEN [allow_all_tickers |-> Switch("allowAllTickers", 0)] ELSE <<>>

ORFadeOptions(allowAll) ==
    StopOptions(DefaultATRMultiplier) @@ CommonStopOptions @@
    [orbMinutes |-> Positive("orbMinutes", 15), rewardRatio |-> Positive("rewardRatio", 150),
     breakoutThreshold |-> Plain("breakoutThreshold"),
     fadeWindowMinutes |-> Positive("fadeWindowMinutes", 30),
     fadeTradeEndMinutes |-> Positive("fadeTradeEndMinutes", 90),
     requireInsideRange |-> Switch("requireInsideRange", 1),
     allowAllTickers |-> Always(allowAll)]

ORFadeFields ==
    StopFields @@ TrailFields @@ CommonStopFields @@
    [orb_minutes |-> Plain("orbMinutes"), reward_ratio |-> Positive("rewardRatio", 150),
     breakout_threshold |-> Plain("breakoutThreshold"),
     fade_window_minutes |-> Plain("fadeWindowMinutes"),
     fade_trade_end_minutes |-> Plain("fadeTradeEndMinutes"),
     require_inside_range |-> Switch("requireInsideRange", 1)]

\* A range that would end before it begins is one of 90 minutes.
AfternoonFadeOptions(params) ==
    LET start == ReadOne(params, Positive("rangeStartMinutes", 150))
        end == ReadOne(params, Positive("rangeEndMinutes", 240))
    IN
    StopOptions(DefaultATRMultiplier) @@
    [rangeStartMinutes |-> Always(start),
     rangeEndMinutes |-> Always(IF end <= start THEN start + 90 ELSE end),
     rewardRatio |-> Positive("rewardRatio", 150),
     breakoutThreshold |-> Plain("breakoutThreshold"),
     fadeWindowMinutes |-> Positive("fadeWindowMinutes", 30),
     fadeTradeEndMinutes |-> Positive("fadeTradeEndMinutes", 390),
     requireInsideRange |-> Switch("requireInsideRange", 1)]

AfternoonFadeFields ==
    StopFields @@ TrailFields @@
    [range_start_minutes |-> Positive("rangeStartMinutes", 150),
     range_end_minutes |-> Positive("rangeEndMinutes", 240),
     reward_ratio |-> Positive("rewardRatio", 150),
     breakout_threshold |-> Plain("breakoutThreshold"),
     fade_window_minutes |-> Positive("fadeWindowMinutes", 30),
     fade_trade_end_minutes |-> Positive("fadeTradeEndMinutes", 390),
     require_inside_range |-> Switch("requireInsideRange", 1)]

-----------------------------------------------------------------------------
VWAPOptions ==
    StopOptions(DefaultATRMultiplier) @@
    [orbMinutes |-> Positive("orbMinutes", 30), rewardRatio |-> Positive("rewardRatio", 200),
     breakoutThreshold |-> Plain("breakoutThreshold"),
     minMinutesAboveVWAP |-> Positive("minMinutesAboveVWAP", 30),
     strategyEntryDelayMinutes |-> Positive("strategyEntryDelayMinutes", 35),
     volumeFilter |-> Switch("volumeFilter", 1),
     volumeMinRatio |-> VolumeRatio(DefaultVolumeMinRatio)]

VWAPFields ==
    StopFields @@ TrailFields @@
    [orb_minutes |-> Plain("orbMinutes"), reward_ratio |-> Positive("rewardRatio", 200),
     breakout_threshold |-> Plain("breakoutThreshold"),
     min_minutes_above_vwap |-> Positive("minMinutesAboveVWAP", 30),
     strategy_entry_delay_minutes |-> Positive("strategyEntryDelayMinutes", 35),
     volume_filter |-> Switch("volumeFilter", 1), volume_min_ratio |-> VolumeRatio(0)]

PrevDayOptions ==
    StopOptions(DefaultATRMultiplier) @@
    [strategyEntryDelayMinutes |-> Positive("strategyEntryDelayMinutes", 60),
     entryEndMinutes |-> EntryEnd(360), rewardRatio |-> Positive("rewardRatio", 200),
     breakoutThreshold |-> Plain("breakoutThreshold"),
     volumeFilter |-> Switch("volumeFilter", 1),
     volumeMinRatio |-> VolumeRatio(DefaultVolumeMinRatio)]

PrevDayFields ==
    [max_trades_per_ticker_per_day |-> Positive("maxEntriesPerTickerPerDay", 1)] @@
    StopFields @@ TrailFields @@
    [strategy_entry_delay_minutes |-> Positive("strategyEntryDelayMinutes", 60),
     entry_end_minutes |-> EntryEnd(360), fade_trade_end_minutes |-> EntryEnd(360),
     reward_ratio |-> Positive("rewardRatio", 200),
     breakout_threshold |-> Plain("breakoutThreshold"),
     volume_filter |-> Switch("volumeFilter", 1), volume_min_ratio |-> VolumeRatio(0)]

MiddayOptions ==
    StopOptions(DefaultATRMultiplier) @@
    [lookback |-> Try(<<"lookback">>, 2, 6), atrBars |-> Try(<<"atrBars">>, 2, 6),
     compressionPercentile |-> Positive("compressionPercentile", 40),
     compressionStartMinutes |-> Positive("compressionStartMinutes", 120),
     compressionEndMinutes |-> Positive("compressionEndMinutes", 150),
     entryEndMinutes |-> EntryEnd(210), rewardRatio |-> Positive("rewardRatio", 225),
     breakoutThreshold |-> Plain("breakoutThreshold"),
     volumeFilter |-> Switch("volumeFilter", 1),
     volumeMinRatio |-> VolumeRatio(DefaultVolumeMinRatio)]

MiddayFields ==
    [atr_period |-> Try(<<"atrPeriod">>, 2, DefaultATRPeriod)] @@ StopFields @@ TrailFields @@
    [lookback |-> Try(<<"lookback">>, 2, 6), atr_bars |-> Positive("atrBars", 6),
     compression_percentile |-> Positive("compressionPercentile", 40),
     entry_end_minutes |-> Positive("entryEndMinutes", 210),
     fade_trade_end_minutes |-> Positive("entryEndMinutes", 210),
     reward_ratio |-> Positive("rewardRatio", 225),
     breakout_threshold |-> Plain("breakoutThreshold"),
     volume_filter |-> Switch("volumeFilter", 1), volume_min_ratio |-> VolumeRatio(0)]

LateOptions ==
    StopOptions(100) @@
    [entryStartMinutes |-> Try(<<"entryStartMinutes", "strategyEntryDelayMinutes">>, 1, 480),
     entryEndMinutes |-> EntryEnd(515), rewardRatio |-> Positive("rewardRatio", 175),
     volumeMinRatio |-> VolumeRatio(200)]

LateFields ==
    [max_trades_per_ticker_per_day |-> Positive("maxEntriesPerTickerPerDay", 1)] @@
    StopFields @@ TrailFields @@
    [strategy_entry_delay_minutes |-> Positive("entryStartMinutes", 480),
     entry_start_minutes |-> Positive("entryStartMinutes", 480),
     entry_end_minutes |-> Positive("entryEndMinutes", 515),
     fade_trade_end_minutes |-> Positive("entryEndMinutes", 515),
     reward_ratio |-> Positive("rewardRatio", 175),
     volume_filter |-> Always(1), volume_min_ratio |-> VolumeRatio(200)]

GapOptions ==
    StopOptions(DefaultATRMultiplier) @@
    [gapThreshold |-> Positive("gapThreshold", 30),
     entryEndMinutes |-> Positive("entryEndMinutes", 60),
     rewardRatio |-> Positive("rewardRatio", 175), longOnly |-> Switch("longOnly", 0)]

\* long_only is written only when it is on.
GapFields(params) ==
    StopFields @@ TrailFields @@
    [gap_threshold |-> Plain("gapThreshold"), entry_end_minutes |-> Plain("entryEndMinutes"),
     reward_ratio |-> Positive("rewardRatio", 175)] @@
    IF Value(params, "longOnly") = 1 THEN [long_only |-> Switch("longOnly", 0)] ELSE <<>>

\* The lookback is at least one more than the period of the average true range.
RandomOptions(params) ==
    LET period == ReadOne(params, Try(<<"atrPeriod">>, 2, DefaultATRPeriod)) IN
    StopOptions(DefaultATRMultiplier) @@
    [lookback |-> Try(<<"lookback">>, period + 1, period + 1),
     rewardRatio |-> Positive("rewardRatio", 150), longOnly |-> Switch("longOnly", 0),
     strategyEntryDelayMinutes |-> Plain("strategyEntryDelayMinutes"),
     entryProbability |-> Plain("entryProbability"), seed |-> Plain("seed"),
     limitOffsetAtr |-> Plain("limitOffsetAtr"),
     limitExpiryBars |-> Positive("limitExpiryBars", 6)]

RandomFields ==
    StopFields @@
    [lookback |-> Plain("lookback"), reward_ratio |-> Plain("rewardRatio"),
     long_only |-> Switch("longOnly", 0),
     strategy_entry_delay_minutes |-> Plain("strategyEntryDelayMinutes"),
     entry_probability |-> Plain("entryProbability"), seed |-> Plain("seed"),
     limit_offset_atr |-> Plain("limitOffsetAtr"),
     limit_expiry_bars |-> Plain("limitExpiryBars")]
=============================================================================
