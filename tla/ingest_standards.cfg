\* Standards of a stub that has no conformity credentials.
SPECIFICATION IngestSpec
CONSTANTS
    Gtin = {"g"}
    Urn = {"u"}
    Qualifier = {"s"}
    Gs1Scheme = {"voc.gs1", "ref.gs1"}
    UnidppScheme = {"id.unidpp"}
    OtherScheme = {"exotic"}
    Gs1Voc = "voc.gs1"
    UnidppId = "id.unidpp"
    Standard = {"A", "B"}
    Instant = {"d1", "d2"}
    Today = "d2"
    PassportId <- MCPassportId
    Digest <- MCDigest
    Posted <- MCPosted
INVARIANTS
    StandardsAreBound
