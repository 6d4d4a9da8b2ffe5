\* One token setting that this admin edits, which an answer omits when it is not set, and one
\* that another admin writes; the magic link among the details; two requests of the application page at a time; two rows; two reports
\* with two polls; two streams.
SPECIFICATION Spec
CONSTANTS
    TokenFields = {"ttl", "claims"}
    Omitted = {"ttl", "magic_link_url", "url"}
    Rivals = {"claims"}
    Edits = {"ttl", "magic_link_url"}
    MaxInFlight = 2
    MaxRows = 2
    MaxAttributes = 1
    ReportIds = {"r1", "r2"}
    Polls = {"p1", "p2"}
    Streams = {"s1", "s2"}
    NoStream = "no stream"
INVARIANTS
    PageAgrees
    UntouchedSaveHarmless
    NoRowLost UntouchedRowsStand
    CardTruthful
    PolledUntilFinished
    LiveOverItsStream
PROPERTY TokensSentOnlyWhenEdited
