---------------------------- MODULE MCEasyCache ----------------------------
(* Instances of EasyCache for TLC: tuples need definitions, not a .cfg.    *)
EXTENDS EasyCache

\* Two conditions, batched or not.
Pair == {<<"positive">>, <<"negative">>, <<"negative", "positive">>}

\* A third one that is active at some steps only, and may come first or in the
\* batch of another.
MCShapes == Pair \cup {<<"ranged">>, <<"positive", "ranged">>}

\* Schedules without boundaries, too short, short, and long enough for two
\* predictions in a row; windows that need rounding; a limit that is too
\* small for all conditions.
MCConfigs ==
  [profile: {"quality", "speed"}, steps: {0, 2, 5}, window: {<<30, 60>>}, limit: {1, 4},
   calls: {Pair}]
    \cup [profile: {"quality"}, steps: {5}, window: {<<15, 85>>}, limit: {2, 5},
          calls: {MCShapes}]
    \cup [profile: {"quality", "speed"}, steps: {13}, window: {<<15, 85>>}, limit: {4},
          calls: {Pair}]
=============================================================================
