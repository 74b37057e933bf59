\* Two processes with clocks one unit apart, two jobs.  One unit is ten seconds: the
\* code's window of thirty and timeout of ten.  Two processes cannot exhaust the code's
\* five attempts on two jobs; they exhaust three, which take as long as the window.
CONSTANTS
    c1 = c1
    c2 = c2
    Controllers = {c1, c2}
    Jobs = {j1, j2}
    TTL = 3
    Steps = 3
    RequestTimeout = 1
    Offset <- SkewedOffset
    MaxSkew = 1
    MaxClock = 6
SPECIFICATION Spec
INVARIANTS TypeOK LedgerRemembersGrants SuppressionBounded
PROPERTIES LiveStampsSurvive ThrottleSpec
