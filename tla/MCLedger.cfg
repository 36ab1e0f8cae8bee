SPECIFICATION Spec
CONSTANTS
    cash = cash
    vote = vote
    vault = vault
    token = token
    alice = alice
    bob = bob
    d1 = d1
    d2 = d2
    Asset = {0, 1}
    Account = {d1, d2}
    Balance = {cash, vote, vault, token}
    ContractBalance = {vault}
    AssetOf <- MCAssetOf
    SlateOf <- MCSlateOf
    OwnerOf <- MCOwnerOf
    Heir <- MCHeir
    Genesis <- MCGenesis
    GenesisDelegate = {d1}
    Amount = {1, 2}
    MaxSupply <- MCMaxSupply
    PayRate = {50, 255}
    RequestFee = {1}
    SignatureFee = {0}
    NewShares = 2
    BlocksPerTwoWeeks = 2
    NumDelegates = 2
    MaxDeposits = 1
    MaxOps = 3
    MaxTransactions = 2
    MaxBlocks = 2
INVARIANTS
    LedgerInv
    BooksInv
    SupplyConserved
    VotesMatch
    VoteIndexExact
    NoOverdraft
