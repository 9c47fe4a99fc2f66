\* The strategy whose search space has both a key with an abbreviation and the
\* breakeven of the trail.
SPECIFICATION Spec
CONSTANTS
    Strategies = {"vwap_pullback_continuation"}
    Numbers = {17, 41}
INVARIANT TradesAsScored
