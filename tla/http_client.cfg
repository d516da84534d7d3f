\* Every way to cut a response into pieces of up to twelve bytes and to end it at any byte,
\* with an issuer that closes the connection or leaves it open, under a timer of two ticks.
SPECIFICATION FairHttpSpec
CONSTANTS
    Response <- MCResponse
    ReadSize = 12
    Timeout = 2
INVARIANTS
    HttpTypeOK
    BodyIsWhatWasSent
    WholeResponsesAreAnswered
PROPERTIES
    ImplementsCall
CHECK_DEADLOCK FALSE
