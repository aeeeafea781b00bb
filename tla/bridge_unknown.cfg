SPECIFICATION Spec
CONSTANTS
    d1 = d1  d2 = d2  dust = dust  a1 = a1
    Deposit = {d1, d2}
    Amount <- MCAmount
    Confirmations = 2
    Address = {a1}
    AddressOf <- MCAddressOf
    Coinbase = {}
    MinimumShards = 2
    MaxHeight = 2
    MaxReorgs = 0
    MaxOutages = 0
    NoDeposit = NoDeposit
    Definite = TRUE
    MaxFailures = 1
    MaxCrashes = 0
INVARIANT NothingBesideUnknown
