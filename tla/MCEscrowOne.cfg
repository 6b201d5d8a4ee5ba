SPECIFICATION RecoverySpec
\* Once calm, a maker may have no way out left, and nothing else need happen.
CHECK_DEADLOCK FALSE
CONSTANTS
    ann = ann
    bob = bob
    X = X
    Y = Y
    Users <- MCUsers
    Makers = {ann}
    Ids = {1}
    Mints <- MCMints
    Extra <- MCSecond
    Amounts = {0, 1, 2}
    Funds <- MCFunds
    ConfigOwners = {bob}
    NoAccount = NoAccount
    NoOffer = NoOffer
INVARIANTS
    TypeOK
    OfferCovered
    ClosableWhenExact
PROPERTIES
    MakerMadeWhole
    TradeAtTerms
    ImplementsSwap
    MakerGetsOut
