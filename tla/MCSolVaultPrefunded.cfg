SPECIFICATION Spec
CONSTANTS
    ann = ann
    bob = bob
    pda = pda
    Users <- MCUsers
    Pdas = {pda}
    VaultMin = 2
    PdaMin = 1
    Amounts = {0, 1, 2}
    Purse <- MCPurse
INVARIANT
    DepositEnsuresVault
