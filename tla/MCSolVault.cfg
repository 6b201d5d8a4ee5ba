SPECIFICATION Spec
\* Wallets can run out of lamports; then nothing more happens.
CHECK_DEADLOCK FALSE
CONSTANTS
    ann = ann
    bob = bob
    pda = pda
    Users <- MCUsers
    Pdas = {pda}
    VaultMin = 2
    PdaMin = 1
    Amounts = {0, 1, 2}
    Purse <- MCPurse
INVARIANTS
    VaultTypeOK
    VaultCoversDeposits
    DueIsWithdrawable
PROPERTY
    OnlyOwnerIsPaid
