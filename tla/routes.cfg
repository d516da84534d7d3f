\* A request behind a gate that is off or issues tokens of one tick, among imports, key rotations,
\* restarts and an issuer that need not answer.
SPECIFICATION FairRoutesSpec
CONSTANTS
    Gtin = {"g"}
    Urn = {"u"}
    Qualifier = {"s"}
    Gs1Scheme = {"voc.gs1", "ref.gs1"}
    UnidppScheme = {"id.unidpp"}
    OtherScheme = {"exotic"}
    Gs1Voc = "voc.gs1"
    UnidppId = "id.unidpp"
    Standard = {"A", "B"}
    Instant = {"d1", "d2"}
    Today = "d2"
    PassportId <- MCPassportId
    Digest <- MCDigest
    Posted <- MCPostedFew
    Handler = {h1}
    Fixture <- MCFixture
    IssuerKey <- MCIssuerKey
    UntpKey <- MCUntpKey
    EnKey <- MCEnKey
    UpstreamTimeout = 1
    MaxRing = 2
    Source = {a}
    Ttls = {0, 1}
    IssueLimit = 1
    Minute = 2
    LastInstant = 3
    MaxClock = 3
    MaxTokens = 1
INVARIANTS
    RoutesTypeOK
    FixturesAnswerFirst
    ImportsStayServed
    PassRestsOnLiveKeys
    FailureHasCause
    TokenOutlivedBriefly
PROPERTIES
    RequestsAnswered
