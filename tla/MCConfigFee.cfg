SPECIFICATION ConfigSpec
\* Wallets can run out of lamports; then nothing more happens.
CHECK_DEADLOCK FALSE
CONSTANTS
    ann = ann
    bob = bob
    Users <- MCUsers
    Pdas <- MCPdas
    VaultMin = 1
    PdaMin = 1
    Amounts = {1}
    Purse <- MCPurse
    ProgOwners <- MCOwners
    Fees = {0, 1, 2}
    StatusBytes = {4, 5}
    Nobody = Nobody
    NoConfig = NoConfig
PROPERTY
    FeeUpdateKeepsAdmin
