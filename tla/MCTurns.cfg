\* Four threads, as in both programs; four rounds, as in the first, and ten
\* of the second, which has no end of its own (hence no deadlock check).
SPECIFICATION TurnsSpec
CONSTANTS
  THRNUM = 4
  ROUNDS = 4
  Limit = 40
INVARIANTS TurnAwake OnePermission PipeAwake
PROPERTIES BothInTurn PrintsOn
CHECK_DEADLOCK FALSE
