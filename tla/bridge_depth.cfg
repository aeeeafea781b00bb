SPECIFICATION Spec
CONSTANTS
    d1 = d1  d2 = d2  dust = dust  a1 = a1
    Deposit = {d1}
    Amount <- MCAmount
    Confirmations = 3
    Address = {a1}
    AddressOf <- MCAddressOf
    Coinbase = {}
    MinimumShards = 2
    MaxHeight = 4
    MaxReorgs = 1
    MaxOutages = 0
    NoDeposit = NoDeposit
    Definite = TRUE
    MaxFailures = 0
    MaxCrashes = 0
INVARIANT WaitsConfirmations
