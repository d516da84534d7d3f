\* Every combination of checks, and every list of up to three signatures.
SPECIFICATION VerdictSpec
CONSTANTS
    Document <- MCDocument
    Options <- MCOptions
    Suite = {"ed25519", "ecdsa", "sm2", "testmac"}
    Supported = {"ed25519", "testmac"}
    SelfDeclaring = {"testmac"}
    Key = {"k1", "k2"}
INVARIANTS
    VerdictTypeOK
    CountersAddUp
    VerdictMeaning
    FindingsExplainOutcome
    MarkerEarned
CHECK_DEADLOCK FALSE
