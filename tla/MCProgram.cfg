SPECIFICATION Spec
CONSTANTS
    ann = ann
    bob = bob
    X = X
    Y = Y
    Users <- MCUsers
    Makers = {ann}
    Ids = {1}
    ProgOwners = {bob}
    Mints <- MCMints
    Extra = {}
    Opened = {}
    Amounts = {0, 1}
    Funds <- MCFunds
    NoAccount = NoAccount
    NoOffer = NoOffer
    NoConfig = NoConfig
INVARIANTS
    TypeOK
    PromisesKept
PROPERTY
    OnePaysByRight
