SPECIFICATION Spec
CONSTANTS
    None = None
    Order = 5
    Secrets <- MCSecrets
    MaxShares = 3
    MaxSubmitted = 3
    MaxWrong = 1
INVARIANTS
    EnoughRedeem
    NothingElseRedeems
    FewerSayNothing
