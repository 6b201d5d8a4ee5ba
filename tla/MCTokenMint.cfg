SPECIFICATION Spec
CONSTANTS
    ann = ann
    bob = bob
    M = M
    Users <- MCUsers
    Funded = {ann}
    Mints = {M}
    Extra <- MCSecond
    Amounts = {0, 1, 2}
    Decimals = {0, 18, 19}
    MaxSupply = 2
    Legacy = Legacy
    T22 = T22
    SystemProgram = SystemProgram
    Nobody = Nobody
    NoMint = NoMint
INVARIANTS
    TypeOK
    AuthorityCanIssue
PROPERTIES
    OnlyAuthorityIssues
    MintIsFixed
