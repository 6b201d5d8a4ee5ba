SPECIFICATION Spec
CONSTANTS
    ann = ann
    bob = bob
    X = X
    Y = Y
    Users <- MCUsers
    Makers = {ann}
    Ids = {1}
    Mints <- MCMints
    Extra <- MCExtraOne
    Amounts = {0, 1, 2}
    Funds <- MCFunds
    ConfigOwners = {bob}
    NoAccount = NoAccount
    NoOffer = NoOffer
INVARIANT
    WithdrawWhenToldTo
