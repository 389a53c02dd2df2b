\* Strings of up to four of three characters, integer types of up to sixteen values,
\* sweeps of up to four connections.  A behaviour may end with its call.
SPECIFICATION HelpersSpec
CONSTANTS
    Chars = {"x", " ", "/"}
    MaxLength = 4
    MaxHalf = 8
    MaxSwept = 4
INVARIANTS
    ResolvedBesideExecutable
    SavedBelowOutputPath
    TrimsBothEnds
    PaddingTrimsAway
    CastsWhatFits
    SweepsAllThatCanDestruct
CHECK_DEADLOCK FALSE
