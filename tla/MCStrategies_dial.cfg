\* Any header the loader admits, tuned as it may be.
SPECIFICATION StrategiesSpec
CONSTANTS
    Headers <- MCHeaders
    Tunings <- MCTunings
    Metrics <- Known
    BoardKeys <- OnBoard
    MaxEdits = 3
PROPERTY TunedIsRead
CHECK_DEADLOCK FALSE
