SPECIFICATION Spec
CONSTANTS
    ann = ann
    bob = bob
    X = X
    esc = esc
    Users <- MCUsers
    ProgOwners <- MCUsers
    Escrows = {esc}
    Mints <- MCMints
    Extra <- MCSecond
    Opened <- MCSecond
    Amounts = {0, 1, 2}
    Funds <- MCFunds
    NoConfig = NoConfig
INVARIANTS
    TypeOK
    DepositIsWithdrawable
    PaidIsRedeemable
PROPERTIES
    ImplementsCustody
    LeavesByRight
