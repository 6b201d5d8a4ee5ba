SPECIFICATION Spec
CONSTANTS
    ann = ann
    bob = bob
    X = X
    Y = Y
    Users <- MCUsers
    Makers = {ann, bob}
    Ids = {1}
    Mints <- MCMints
    Extra <- MCExtraNone
    Amounts = {0, 1}
    Funds <- MCFunds
    ConfigOwners = {ann}
    NoAccount = NoAccount
    NoOffer = NoOffer
INVARIANTS
    OfferCovered
PROPERTIES
    MakerMadeWhole
    TradeAtTerms
