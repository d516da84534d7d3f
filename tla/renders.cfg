\* Every short duration text on one passport, and every passport of a small set on both routes.
SPECIFICATION PagesSpec
CONSTANTS
    Gtin = {"g"}
    Urn = {"u"}
    Qualifier = {"s"}
    Gs1Scheme = {"voc.gs1", "ref.gs1"}
    UnidppScheme = {"id.unidpp"}
    OtherScheme = {"exotic"}
    Gs1Voc = "voc.gs1"
    UnidppId = "id.unidpp"
    Standard = {"A", "B", "C"}
    Instant = {"d1", "d2"}
    PassportId = {"p"}
    Status = {"issued", "suspended"}
    Attester = {"x", "y"}
    Slug <- MCSlug
    Request <- MCRequest
    Numbers <- MCNumbers
    Decimals <- MCDecimals
INVARIANTS
    BudgetAsWritten
    EnFormsAgree
    ViewsNameTheProfiles
CHECK_DEADLOCK FALSE
