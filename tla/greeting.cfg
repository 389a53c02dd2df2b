\* Every combination of the edge values, whole, short and with data behind.
\* A behaviour ends with its one greeting.
SPECIFICATION GreetingSpec
CONSTANTS
    Widths <- MCSizes
    Heights <- MCSizes
    Rates <- MCRates
    TypeBytes <- MCTypes
    Configs <- MCConfigs
INVARIANTS
    ParsedAsMeant
CHECK_DEADLOCK FALSE
